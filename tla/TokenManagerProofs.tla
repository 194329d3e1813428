------------------------- MODULE TokenManagerProofs -------------------------
(***************************************************************************)
(* Safety of the token manager for every set of clients, scopes, secrets   *)
(* and concurrent requests, every lifetime and every bound.                *)
(***************************************************************************)
EXTENDS TokenManager, TLAPS

USE DEF Id, NoToken, ZeroTime

(* What the map operations and the critical sections do to the token map. *)

LEMMA PutFact ==
    ASSUME NEW m, NEW k, NEW v
    PROVE  /\ DOMAIN Put(m, k, v) = DOMAIN m \cup {k}
           /\ Put(m, k, v)[k] = v
           /\ \A x \in DOMAIN m : x # k => Put(m, k, v)[x] = m[x]
  BY DEF Put

\* The fields of a token that no action changes once it is stored.
SameGrant(t, u) ==
    /\ t.client = u.client
    /\ t.scopes = u.scopes
    /\ t.rtk = u.rtk
    /\ t.refreshExpiresAt = u.refreshExpiresAt
    /\ t.familyCreatedAt = u.familyCreatedAt

LEMMA RevokeFact ==
    ASSUME TypeOK, NEW ids, Revoke(ids)
    PROVE  /\ DOMAIN tokens' = DOMAIN tokens
           /\ tokens' \in [DOMAIN tokens -> Token]
           /\ \A i \in DOMAIN tokens :
                 /\ SameGrant(tokens'[i], tokens[i])
                 /\ tokens'[i].revoked = (tokens[i].revoked \/ i \in ids)
  <1>1. DOMAIN tokens' = DOMAIN tokens
    BY DEF Revoke
  <1>2. ASSUME NEW i \in DOMAIN tokens
        PROVE  /\ tokens'[i] \in Token
               /\ SameGrant(tokens'[i], tokens[i])
               /\ tokens'[i].revoked = (tokens[i].revoked \/ i \in ids)
    <2>1. tokens[i] \in Token
      BY DEF TypeOK
    <2>2. CASE i \in ids
      BY <2>1, <2>2 DEF Revoke, Token, SameGrant
    <2>3. CASE i \notin ids
      BY <2>1, <2>3 DEF Revoke, Token, SameGrant
    <2>4. QED
      BY <2>2, <2>3
  <1>3. tokens' \in [DOMAIN tokens -> Token]
    BY <1>1, <1>2 DEF Revoke
  <1>4. QED
    BY <1>1, <1>2, <1>3

LEMMA TouchFact ==
    ASSUME TypeOK, NEW p \in Proc, TouchToken(p)
    PROVE  /\ DOMAIN tokens' = DOMAIN tokens
           /\ tokens' \in [DOMAIN tokens -> Token]
           /\ \A i \in DOMAIN tokens :
                 /\ SameGrant(tokens'[i], tokens[i])
                 /\ tokens'[i].revoked = tokens[i].revoked
  <1> DEFINE t == req[p].token
  <1>1. CASE UNCHANGED tokens
    BY <1>1 DEF TypeOK, SameGrant
  <1>2. CASE tokens' = [tokens EXCEPT ![t].expiresAt = now + TouchWindow]
    <2>1. DOMAIN tokens' = DOMAIN tokens
      BY <1>2
    <2>2. ASSUME NEW i \in DOMAIN tokens
          PROVE  /\ tokens'[i] \in Token
                 /\ SameGrant(tokens'[i], tokens[i])
                 /\ tokens'[i].revoked = tokens[i].revoked
      <3>1. tokens[i] \in Token /\ now + TouchWindow \in Int
        BY LifetimeAssumption DEF TypeOK
      <3>2. QED
        BY <1>2, <3>1 DEF Token, SameGrant
    <2>3. QED
      BY <1>2, <2>1, <2>2
  <1>3. QED
    BY <1>1, <1>2 DEF TouchToken

-----------------------------------------------------------------------------
(* Steps that only take tokens away or change their mutable fields. *)

StoreShrinks ==
    /\ DOMAIN tokens' \subseteq DOMAIN tokens
    /\ tokens' \in [DOMAIN tokens' -> Token]
    /\ \A i \in DOMAIN tokens' : SameGrant(tokens'[i], tokens[i])
    /\ DOMAIN refresh' \subseteq DOMAIN refresh
    /\ refresh' \in [DOMAIN refresh' -> Id]
    /\ \A r \in DOMAIN refresh' : refresh'[r] = refresh[r] /\ refresh[r] \in DOMAIN tokens'

\* A request keeps its place, ends, or reaches a place other than the one
\* where it mints from a rotated refresh token.
RequestMoves(p) ==
    \/ req'[p] = req[p]
    \/ req'[p] = Idle
    \/ /\ req'[p] \in Request
       /\ CarriesGrant(req'[p])
       /\ ~(req'[p].pc = "create" /\ req'[p].via = "refresh")

LEMMA StoreStep ==
    ASSUME IInv, StoreShrinks, now' \in Nat,
           UNCHANGED <<clients, usedRefresh, families, nextId, minted, registered>>,
           req' \in [Proc -> Request],
           \A p \in Proc : RequestMoves(p)
    PROVE  IInv'
  <1>1. TypeOK'
    BY DEF IInv, TypeOK, StoreShrinks
  <1>2. RefreshTokenConsistent'
    BY DEF IInv, RefreshTokenConsistent, StoreShrinks, SameGrant
  <1>3. TokensAreMinted'
    BY DEF IInv, TokensAreMinted, StoreShrinks, SameGrant
  <1>4. FamilyCoversTokens'
    BY DEF IInv, FamilyCoversTokens, StoreShrinks, SameGrant
  <1>5. \A p \in Proc : CarriesGrant(req[p])' 
    BY DEF IInv, RequestsCarryGrant, CarriesGrant, RequestMoves, Idle, NewRequest
  <1>6. \A p \in Proc : (req'[p].pc = "create" /\ req'[p].via = "refresh") => req'[p] = req[p]
    BY DEF RequestMoves, Idle, NewRequest
  <1>7. ParentsAreUsed'
    BY <1>6 DEF IInv, ParentsAreUsed
  <1>8. RotatedAtMostOnce'
    BY <1>6 DEF IInv, RotatedAtMostOnce, Redeeming, StoreShrinks
  <1>9. RequestsCarryGrant'
    BY <1>5 DEF IInv, RequestsCarryGrant
  <1>10. RefreshStaysInGrant' /\ GrantWithinRegistration'
    BY DEF IInv, RefreshStaysInGrant, GrantWithinRegistration
  <1>11. QED
    BY <1>1, <1>2, <1>3, <1>4, <1>7, <1>8, <1>9, <1>10 DEF IInv

LEMMA IdleIsRequest == Idle \in Request
  BY DEF Idle, NewRequest, Request, Grant

\* A step that changes no map, only the place of one request.
LEMMA RequestOnlyStep ==
    ASSUME IInv, NEW p \in Proc, NEW q \in Request,
           UNCHANGED <<maps, now, nextId, history>>,
           req' = [req EXCEPT ![p] = q],
           q = Idle \/ (CarriesGrant(q) /\ ~(q.pc = "create" /\ q.via = "refresh"))
    PROVE  IInv'
  <1> USE DEF maps, history
  <1>1. StoreShrinks /\ now' \in Nat
    BY DEF StoreShrinks, SameGrant, IInv, TypeOK, RefreshTokenConsistent
  <1>2. req' \in [Proc -> Request]
    BY DEF IInv, TypeOK
  <1>3. ASSUME NEW r \in Proc PROVE RequestMoves(r)
    <2>1. CASE r = p
      <3>1. req'[r] = q
        BY <2>1 DEF IInv, TypeOK
      <3>2. CarriesGrant(q) => CarriesGrant(req'[r])
        BY <3>1
      <3>3. QED
        BY <3>1, <3>2 DEF RequestMoves
    <2>2. CASE r # p
      BY <2>2 DEF RequestMoves, IInv, TypeOK
    <2>3. QED
      BY <2>1, <2>2
  <1>4. QED
    BY <1>1, <1>2, <1>3, StoreStep

LEMMA ClientCredentialsStep ==
    ASSUME IInv, NEW p \in Proc, NEW c \in Client, NEW secret \in Secret,
           NEW scopes \in SUBSET Scope, ClientCredentials(p, c, secret, scopes)
    PROVE  IInv'
  <1> DEFINE q == NewRequest(IF scopes = {} THEN "defaults" ELSE "validate",
                             c, scopes, NoToken, "client_credentials")
  <1>1. q \in Request /\ CarriesGrant(q)
    BY DEF NewRequest, ClientCredentials, Authenticates, Request, Grant, CarriesGrant
  <1>2. q.pc # "create"
    BY DEF NewRequest
  <1>3. req' = [req EXCEPT ![p] = q] /\ UNCHANGED <<maps, now, nextId, history>>
    BY DEF ClientCredentials, Arrive
  <1>4. QED
    BY <1>1, <1>2, <1>3, RequestOnlyStep

LEMMA DefaultScopesStep ==
    ASSUME IInv, NEW p \in Proc, DefaultScopes(p)
    PROVE  IInv'
  <1> DEFINE q == [req[p] EXCEPT !.pc = "validate",
                                 !.scopes = clients[req[p].client].scopes]
  <1>1. req[p] \in Request /\ req[p].pc = "defaults" /\ CarriesGrant(req[p])
    BY DEF DefaultScopes, IInv, TypeOK, RequestsCarryGrant
  <1>2. clients[req[p].client].scopes \in SUBSET Scope
    BY <1>1, RegistrationsAssumption DEF IInv, TypeOK, CarriesGrant
  <1>3. q \in Request /\ CarriesGrant(q) /\ q.pc # "create"
    <2>1. /\ q.pc = "validate" /\ q.client = req[p].client /\ q.token = req[p].token
          /\ q.scopes = clients[req[p].client].scopes /\ q.via = req[p].via
          /\ q.familyCreated = req[p].familyCreated
      BY <1>1 DEF Request
    <2>2. q \in Request
      BY <1>1, <1>2 DEF Request
    <2>3. QED
      BY <1>1, <2>1, <2>2 DEF CarriesGrant
  <1>4. req' = [req EXCEPT ![p] = q] /\ UNCHANGED <<maps, now, nextId, history>>
    BY DEF DefaultScopes, Continue
  <1>5. QED
    BY <1>3, <1>4, RequestOnlyStep

LEMMA ValidateScopesStep ==
    ASSUME IInv, NEW p \in Proc, ValidateScopes(p)
    PROVE  IInv'
  <1> DEFINE q == [req[p] EXCEPT !.pc = "create"]
  <1>1. req[p] \in Request /\ req[p].pc = "validate" /\ CarriesGrant(req[p])
    BY DEF ValidateScopes, IInv, TypeOK, RequestsCarryGrant
  <1>2. UNCHANGED <<maps, now, nextId, history>>
    BY DEF ValidateScopes
  <1>3. CASE ScopesAllowed(req[p].client, req[p].scopes)
    <2>1. clients[req[p].client] \in registered[req[p].client]
      BY <1>1 DEF IInv, RequestsCarryGrant, CarriesGrant
    <2>2. q \in Request /\ CarriesGrant(q) /\ q.via # "refresh"
      <3>1. q \in Request
        BY <1>1 DEF Request
      <3>2. /\ q.pc = "create" /\ q.client = req[p].client /\ q.token = req[p].token
            /\ q.scopes = req[p].scopes /\ q.via = req[p].via
            /\ q.familyCreated = req[p].familyCreated
        BY <1>1 DEF Request
      <3>3. QED
        BY <1>1, <1>3, <2>1, <3>1, <3>2 DEF CarriesGrant, ScopesAllowed
    <2>3. req' = [req EXCEPT ![p] = q]
      BY <1>3 DEF ValidateScopes, Continue
    <2>4. QED
      BY <1>2, <2>2, <2>3, RequestOnlyStep
  <1>4. CASE ~ScopesAllowed(req[p].client, req[p].scopes)
    <2>1. req' = [req EXCEPT ![p] = Idle]
      BY <1>4 DEF ValidateScopes, Finish
    <2>2. QED
      BY <1>2, <2>1, IdleIsRequest, RequestOnlyStep
  <1>5. QED
    BY <1>3, <1>4

LEMMA RefreshGrantStep ==
    ASSUME IInv, NEW p \in Proc, NEW c \in Client, NEW secret \in Secret,
           NEW rtk \in 0 .. nextId - 1, NEW scopes \in SUBSET Scope,
           RefreshGrant(p, c, secret, rtk, scopes)
    PROVE  IInv'
  <1> DEFINE q == NewRequest("rotate", c, scopes, rtk, "refresh")
  <1>1. q \in Request /\ CarriesGrant(q) /\ q.pc # "create"
    BY DEF NewRequest, Request, Grant, CarriesGrant, IInv, TypeOK
  <1>2. req' = [req EXCEPT ![p] = q] /\ UNCHANGED <<maps, now, nextId, history>>
    BY DEF RefreshGrant, Arrive
  <1>3. QED
    BY <1>1, <1>2, RequestOnlyStep

LEMMA LookupStep ==
    ASSUME IInv, NEW p \in Proc, NEW i \in 1 .. nextId - 1, Lookup(p, i)
    PROVE  IInv'
  <1> DEFINE q == NewRequest("touch", NoClient, {}, i, "none")
  <1>1. q \in Request /\ CarriesGrant(q) /\ q.pc # "create"
    BY DEF NewRequest, Request, Grant, CarriesGrant, IInv, TypeOK
  <1>2. req' = [req EXCEPT ![p] = q] /\ UNCHANGED <<maps, now, nextId, history>>
    BY DEF Lookup, Arrive
  <1>3. QED
    BY <1>1, <1>2, RequestOnlyStep

LEMMA RefreshRejectedStep ==
    ASSUME IInv, NEW p \in Proc, NEW rtk, RefreshRejected(p, rtk)
    PROVE  IInv'
  BY IdleIsRequest, RequestOnlyStep DEF RefreshRejected, Finish

-----------------------------------------------------------------------------
(* Revocation, expiry, cleanup and the clock. *)

LEMMA RevokeShrinks ==
    ASSUME IInv, NEW ids, Revoke(ids), refresh' = refresh
    PROVE  StoreShrinks
  BY RevokeFact DEF StoreShrinks, IInv, TypeOK, RefreshTokenConsistent

LEMMA RevokeAndDropShrinks ==
    ASSUME IInv, NEW ids, Revoke(ids), NEW rtk, refresh' = Drop(refresh, {rtk})
    PROVE  StoreShrinks
  <1>1. /\ DOMAIN refresh' = DOMAIN refresh \ {rtk}
        /\ \A r \in DOMAIN refresh' : refresh'[r] = refresh[r]
    BY DEF Drop, Restrict
  <1>2. refresh' \in [DOMAIN refresh' -> Id]
    BY <1>1 DEF IInv, TypeOK, Drop, Restrict
  <1>3. QED
    BY <1>1, <1>2, RevokeFact DEF StoreShrinks, IInv, TypeOK, RefreshTokenConsistent

LEMMA FinishMoves ==
    ASSUME IInv, NEW p \in Proc, Finish(p)
    PROVE  req' \in [Proc -> Request] /\ \A r \in Proc : RequestMoves(r)
  BY IdleIsRequest DEF Finish, RequestMoves, IInv, TypeOK

LEMMA StayMoves ==
    ASSUME IInv, UNCHANGED req
    PROVE  req' \in [Proc -> Request] /\ \A r \in Proc : RequestMoves(r)
  BY DEF RequestMoves, IInv, TypeOK

LEMMA NowIsNat == ASSUME IInv PROVE now \in Nat
  BY DEF IInv, TypeOK

LEMMA ReuseDetectedStep ==
    ASSUME IInv, NEW p \in Proc, NEW rtk, ReuseDetected(p, rtk)
    PROVE  IInv'
  BY RevokeShrinks, FinishMoves, NowIsNat, StoreStep DEF ReuseDetected, history

LEMMA RevokeTokenStep ==
    ASSUME IInv, NEW i, RevokeToken(i)
    PROVE  IInv'
  BY RevokeShrinks, StayMoves, NowIsNat, StoreStep DEF RevokeToken, history

LEMMA RevokeRFC7009Step ==
    ASSUME IInv, NEW i, NEW kind, NEW hint, RevokeRFC7009(i, kind, hint)
    PROVE  IInv'
  <1>1. \E ids : Revoke(ids)
    BY DEF RevokeRFC7009
  <1>2. QED
    BY <1>1, RevokeShrinks, StayMoves, NowIsNat, StoreStep DEF RevokeRFC7009, history

LEMMA RevokeByClientStep ==
    ASSUME IInv, NEW c \in Client, RevokeByClient(c)
    PROVE  IInv'
  BY RevokeShrinks, StayMoves, NowIsNat, StoreStep DEF RevokeByClient, history

LEMMA RevokeExpiredFamilyStep ==
    ASSUME IInv, NEW p \in Proc, NEW rtk, RevokeExpiredFamily(p, rtk)
    PROVE  IInv'
  BY RevokeAndDropShrinks, FinishMoves, NowIsNat, StoreStep
     DEF RevokeExpiredFamily, history

LEMMA DropExpiredRefreshStep ==
    ASSUME IInv, NEW p \in Proc, NEW rtk, DropExpiredRefresh(p, rtk)
    PROVE  IInv'
  <1>1. /\ DOMAIN refresh' = DOMAIN refresh \ {rtk}
        /\ \A r \in DOMAIN refresh' : refresh'[r] = refresh[r]
    BY DEF Drop, Restrict, DropExpiredRefresh
  <1>2. refresh' \in [DOMAIN refresh' -> Id]
    BY <1>1 DEF IInv, TypeOK, Drop, Restrict, DropExpiredRefresh
  <1>3. StoreShrinks
    BY <1>1, <1>2 DEF StoreShrinks, SameGrant, DropExpiredRefresh, IInv, TypeOK,
                      RefreshTokenConsistent
  <1>4. QED
    BY <1>3, FinishMoves, NowIsNat, StoreStep DEF DropExpiredRefresh, history

LEMMA TouchTokenStep ==
    ASSUME IInv, NEW p \in Proc, TouchToken(p)
    PROVE  IInv'
  <1>1. StoreShrinks
    BY TouchFact DEF StoreShrinks, TouchToken, IInv, TypeOK, RefreshTokenConsistent
  <1>2. QED
    BY <1>1, FinishMoves, NowIsNat, StoreStep DEF TouchToken, history

\* The refresh tokens of the removed tokens go with them, because a token is
\* stored under the id its refresh token maps to.
LEMMA CleanupStep ==
    ASSUME IInv, Cleanup
    PROVE  IInv'
  <1> DEFINE dead == {i \in DOMAIN tokens : Dead(i)}
  <1>1. tokens' = Drop(tokens, dead) /\ refresh' = Drop(refresh, {tokens[i].rtk : i \in dead})
    BY DEF Cleanup, DropRefresh
  <1>2. /\ DOMAIN tokens' = DOMAIN tokens \ dead
        /\ \A i \in DOMAIN tokens' : tokens'[i] = tokens[i]
    BY <1>1 DEF Drop, Restrict
  <1>3. /\ DOMAIN refresh' = DOMAIN refresh \ {tokens[i].rtk : i \in dead}
        /\ \A r \in DOMAIN refresh' : refresh'[r] = refresh[r]
    BY <1>1 DEF Drop, Restrict
  <1>4. tokens' \in [DOMAIN tokens' -> Token] /\ refresh' \in [DOMAIN refresh' -> Id]
    BY <1>1, <1>2, <1>3 DEF IInv, TypeOK, Drop, Restrict
  <1>5. ASSUME NEW r \in DOMAIN refresh' PROVE refresh[r] \in DOMAIN tokens'
    <2>1. refresh[r] \in DOMAIN tokens /\ tokens[refresh[r]].rtk = r
      BY <1>3 DEF IInv, RefreshTokenConsistent
    <2>2. refresh[r] \notin dead
      BY <1>3, <2>1
    <2>3. QED
      BY <1>2, <2>1, <2>2
  <1>6. StoreShrinks
    BY <1>2, <1>3, <1>4, <1>5 DEF StoreShrinks, SameGrant
  <1>7. QED
    BY <1>6, StayMoves, NowIsNat, StoreStep DEF Cleanup, history

LEMMA TickStep ==
    ASSUME IInv, Tick
    PROVE  IInv'
  <1>1. StoreShrinks
    BY DEF Tick, maps, StoreShrinks, SameGrant, IInv, TypeOK, RefreshTokenConsistent
  <1>2. now' \in Nat
    BY DEF Tick, IInv, TypeOK
  <1>3. QED
    BY <1>1, <1>2, StayMoves, StoreStep DEF Tick, maps, history

LEMMA RegisterClientStep ==
    ASSUME IInv, NEW c \in Client, NEW r \in Registrations, RegisterClient(c, r)
    PROVE  IInv'
  <1> USE DEF RegisterClient
  <1>1. TypeOK'
    BY DEF IInv, TypeOK
  <1>2. \A d \in Client : registered[d] \subseteq registered'[d]
    BY DEF IInv, TypeOK
  <1>3. \A d \in Client : clients[d] # NoClient => clients'[d] # NoClient
    BY ClientAssumption DEF IInv, TypeOK
  <1>4. \A d \in Client : clients'[d] # NoClient => clients'[d] \in registered'[d]
    BY DEF IInv, TypeOK, RequestsCarryGrant
  <1>5. ASSUME NEW p \in Proc PROVE CarriesGrant(req[p])'
    <2>1. CarriesGrant(req[p])
      BY DEF IInv, RequestsCarryGrant
    <2>2. QED
      BY <1>2, <1>3, <2>1 DEF CarriesGrant
  <1>6. RequestsCarryGrant'
    BY <1>4, <1>5 DEF IInv, RequestsCarryGrant
  <1>7. GrantWithinRegistration'
    BY <1>2 DEF IInv, GrantWithinRegistration, TypeOK, Minted
  <1>8. /\ RefreshTokenConsistent' /\ TokensAreMinted' /\ FamilyCoversTokens'
        /\ ParentsAreUsed' /\ RotatedAtMostOnce' /\ RefreshStaysInGrant'
    BY DEF IInv, RefreshTokenConsistent, TokensAreMinted, FamilyCoversTokens,
           ParentsAreUsed, RotatedAtMostOnce, RefreshStaysInGrant, Redeeming
  <1>9. QED
    BY <1>1, <1>6, <1>7, <1>8 DEF IInv

-----------------------------------------------------------------------------
(* Rotation: the refresh token moves from refresh to usedRefresh in the same *)
(* critical section, so the request that rotated it is its only redeemer.    *)

LEMMA RotateStep ==
    ASSUME IInv, NEW p \in Proc, NEW rtk \in 0 .. nextId - 1, Rotate(p, rtk)
    PROVE  IInv'
  <1> DEFINE old == tokens[refresh[rtk]]
             asked == req[p].scopes
             q == [req[p] EXCEPT !.pc = "create",
                                 !.scopes = IF asked = {} THEN old.scopes ELSE asked,
                                 !.familyCreated = old.familyCreatedAt]
  <1>1. /\ req[p] \in Request /\ req[p].pc = "rotate" /\ req[p].token = rtk
        /\ req[p].via = "refresh" /\ req[p].client \in Client
        /\ rtk \in DOMAIN refresh /\ rtk \notin DOMAIN usedRefresh
        /\ old.client = req[p].client
    BY DEF Rotate, Redeemable, Presents, IInv, TypeOK, RequestsCarryGrant, CarriesGrant
  <1>2. /\ refresh[rtk] = rtk /\ rtk \in DOMAIN tokens /\ old \in Token
        /\ rtk \in DOMAIN minted /\ rtk # NoToken
        /\ old.client = minted[rtk].client
        /\ old.scopes = minted[rtk].scopes
        /\ old.familyCreatedAt = minted[rtk].familyCreatedAt
    BY <1>1 DEF IInv, TypeOK, RefreshTokenConsistent, TokensAreMinted
  <1>3. StoreShrinks
    BY RevokeAndDropShrinks DEF Rotate, Consume
  <1>4. /\ UNCHANGED <<clients, families, now, nextId, minted, registered>>
        /\ usedRefresh' = Put(usedRefresh, rtk, req[p].client)
        /\ refresh' = Drop(refresh, {rtk})
    BY DEF Rotate, Consume, history
  <1>5. /\ DOMAIN usedRefresh' = DOMAIN usedRefresh \cup {rtk}
        /\ usedRefresh' \in [DOMAIN usedRefresh' -> Client]
        /\ DOMAIN refresh' = DOMAIN refresh \ {rtk}
    BY <1>1, <1>4 DEF Put, Drop, Restrict, IInv, TypeOK
  <1>6. /\ q \in Request /\ q.pc = "create" /\ q.via = "refresh" /\ q.token = rtk
        /\ q.client = req[p].client /\ q.familyCreated = old.familyCreatedAt
        /\ q.scopes = IF asked = {} THEN old.scopes ELSE asked
    BY <1>1, <1>2 DEF Request, Token
  <1>7. \/ req' = [req EXCEPT ![p] = Idle]
        \/ asked \subseteq old.scopes /\ req' = [req EXCEPT ![p] = q]
    BY DEF Rotate, Continue, Finish
  <1>8. req' \in [Proc -> Request] /\ \A x \in Proc : x # p => req'[x] = req[x]
    BY <1>6, <1>7, IdleIsRequest DEF IInv, TypeOK
  <1>9. \/ req'[p] = Idle
        \/ asked \subseteq old.scopes /\ req'[p] = q
    BY <1>7 DEF IInv, TypeOK
  <1>10. Idle.pc = "idle"
    BY DEF Idle, NewRequest
  <1>11. \A x \in Proc :
            (req'[x].pc = "create" /\ req'[x].via = "refresh") =>
                \/ x = p /\ req'[x].token = rtk
                \/ x # p /\ req'[x] = req[x] /\ req[x].token # rtk
    <2>1. \A x \in Proc : (req[x].pc = "create" /\ req[x].via = "refresh") => req[x].token # rtk
      BY <1>1 DEF IInv, ParentsAreUsed
    <2>2. ASSUME NEW x \in Proc, x = p, req'[x].pc = "create"
          PROVE  req'[x].token = rtk
      BY <1>6, <1>9, <1>10, <2>2
    <2>3. QED
      BY <1>8, <2>1, <2>2
  <1>12. TypeOK'
    BY <1>2, <1>3, <1>4, <1>5, <1>8 DEF IInv, TypeOK, StoreShrinks
  <1>13. RefreshTokenConsistent' /\ TokensAreMinted' /\ FamilyCoversTokens'
    <2>1. RefreshTokenConsistent'
      BY <1>3 DEF IInv, RefreshTokenConsistent, StoreShrinks, SameGrant
    <2>2. TokensAreMinted'
      BY <1>3, <1>4 DEF IInv, TokensAreMinted, StoreShrinks, SameGrant
    <2>3. FamilyCoversTokens'
      BY <1>3, <1>4 DEF IInv, FamilyCoversTokens, StoreShrinks, SameGrant
    <2>4. QED
      BY <2>1, <2>2, <2>3
  <1>14. ParentsAreUsed'
    BY <1>4, <1>5, <1>11 DEF IInv, ParentsAreUsed
  <1>15. \A i \in DOMAIN minted : minted[i].parent # rtk
    BY <1>1, <1>2 DEF IInv, ParentsAreUsed
  <1>16. RotatedAtMostOnce'
    <2>1. (DOMAIN refresh \cap DOMAIN usedRefresh = {})'
      BY <1>5 DEF IInv, RotatedAtMostOnce
    <2>2. (\A i, j \in DOMAIN minted :
              minted[i].parent = minted[j].parent /\ minted[i].parent # NoToken => i = j)'
      BY <1>4 DEF IInv, RotatedAtMostOnce
    <2>3. ASSUME NEW x \in Proc, NEW y \in Proc, NEW r \in 1 .. nextId - 1,
                 Redeeming(x, r)', Redeeming(y, r)'
          PROVE  x = y
      <3>1. x = p \/ y = p => r = rtk
        BY <1>11, <2>3 DEF Redeeming
      <3>2. CASE x # p /\ y # p
        BY <1>11, <2>3, <3>2 DEF IInv, RotatedAtMostOnce, Redeeming
      <3>3. QED
        BY <1>11, <2>3, <3>1, <3>2 DEF Redeeming
    <2>4. ASSUME NEW x \in Proc, NEW r \in 1 .. nextId - 1, Redeeming(x, r)',
                 NEW i \in DOMAIN minted
          PROVE  minted[i].parent # r
      <3>1. CASE x = p
        BY <1>11, <1>15, <2>4, <3>1 DEF Redeeming
      <3>2. CASE x # p
        BY <1>11, <2>4, <3>2 DEF IInv, RotatedAtMostOnce, Redeeming
      <3>3. QED
        BY <3>1, <3>2
    <2>5. QED
      BY <1>4, <2>1, <2>2, <2>3, <2>4 DEF RotatedAtMostOnce
  <1>17. ASSUME NEW x \in Proc PROVE CarriesGrant(req[x])'
    <2>1. CASE x = p /\ req'[p] = q
      <3>1. q.scopes \subseteq minted[rtk].scopes
        BY <1>2, <1>6, <1>9, <1>10, <2>1
      <3>2. /\ req'[x].pc = "create" /\ req'[x].via = "refresh" /\ req'[x].token = rtk
            /\ req'[x].client = minted[rtk].client
            /\ req'[x].scopes \subseteq minted[rtk].scopes
            /\ req'[x].familyCreated = minted[rtk].familyCreatedAt
        BY <1>1, <1>2, <1>6, <2>1, <3>1
      <3>3. QED
        BY <1>1, <1>2, <1>4, <3>2 DEF CarriesGrant
    <2>2. CASE x = p /\ req'[p] = Idle
      BY <1>10, <2>2 DEF CarriesGrant
    <2>3. CASE x # p
      BY <1>4, <1>8, <2>3 DEF IInv, RequestsCarryGrant, CarriesGrant
    <2>4. QED
      BY <1>9, <2>1, <2>2, <2>3
  <1>18. RequestsCarryGrant' /\ RefreshStaysInGrant' /\ GrantWithinRegistration'
    BY <1>4, <1>17 DEF IInv, RequestsCarryGrant, RefreshStaysInGrant,
                       GrantWithinRegistration
  <1>19. QED
    BY <1>12, <1>13, <1>14, <1>16, <1>18 DEF IInv

-----------------------------------------------------------------------------
(* Minting. *)

\* What the caller of createTokenWithFamily guarantees: a first grant, or the
\* one redemption of a rotated refresh token, within the rotated grant.
FirstGrant(c, scopes, familyCreated, via, parent) ==
    /\ parent = NoToken
    /\ familyCreated = ZeroTime
    /\ via \in {"client_credentials", "flow"}
    /\ via = "client_credentials" =>
          \E r \in registered[c] : r.scopes = {} \/ scopes \subseteq r.scopes

Redemption(c, scopes, familyCreated, via, parent) ==
    /\ via = "refresh"
    /\ parent \in DOMAIN minted
    /\ parent \in DOMAIN usedRefresh
    /\ c = minted[parent].client
    /\ scopes \subseteq minted[parent].scopes
    /\ familyCreated = minted[parent].familyCreatedAt
    /\ \A i \in DOMAIN minted : minted[i].parent # parent
    /\ \A x \in Proc : ~Redeeming(x, parent)'

LEMMA MintStep ==
    ASSUME IInv, NEW c \in Client, NEW scopes \in SUBSET Scope,
           NEW familyCreated, NEW via, NEW parent,
           Mint(c, scopes, familyCreated, via, parent),
           UNCHANGED <<clients, usedRefresh, now, registered>>,
           req' \in [Proc -> Request],
           \A x \in Proc : req'[x] = req[x] \/ req'[x] = Idle,
           \/ FirstGrant(c, scopes, familyCreated, via, parent)
           \/ Redemption(c, scopes, familyCreated, via, parent)
    PROVE  IInv'
  <1> DEFINE family == IF familyCreated = ZeroTime THEN now ELSE familyCreated
             tok == [client |-> c, scopes |-> scopes, expiresAt |-> now + AccessTTL,
                     revoked |-> FALSE, rtk |-> nextId,
                     refreshExpiresAt |-> now + RefreshTTL,
                     familyCreatedAt |-> family]
             entry == [via |-> via, parent |-> parent, client |-> c,
                       scopes |-> scopes, familyCreatedAt |-> family]
  <1>1. /\ nextId \in Nat /\ nextId > 0 /\ now \in Nat
        /\ DOMAIN minted = 1 .. nextId - 1
        /\ DOMAIN tokens \subseteq 1 .. nextId - 1
        /\ DOMAIN refresh \subseteq 1 .. nextId - 1
        /\ DOMAIN usedRefresh \subseteq 1 .. nextId - 1
    BY DEF IInv, TypeOK
  <1>2. /\ family \in Int /\ family >= 0
        /\ via \in Grant /\ parent \in Id \cup {NoToken}
    BY <1>1 DEF FirstGrant, Redemption, Grant, IInv, TypeOK, Minted, RequestsCarryGrant
  <1>3. tok \in Token /\ entry \in Minted
    BY <1>1, <1>2, LifetimeAssumption DEF Token, Minted
  <1>4. /\ tokens' = Put(tokens, nextId, tok)
        /\ refresh' = Put(refresh, nextId, nextId)
        /\ families' = [families EXCEPT ![c] = @ \cup {nextId}]
        /\ nextId' = nextId + 1
        /\ minted' = Put(minted, nextId, entry)
    BY DEF Mint, Enroll, FamilyTime, GenerateID
  <1>5. /\ DOMAIN tokens' = DOMAIN tokens \cup {nextId}
        /\ tokens'[nextId] = tok
        /\ \A i \in DOMAIN tokens : tokens'[i] = tokens[i]
    BY <1>1, <1>4 DEF Put
  <1>6. /\ DOMAIN refresh' = DOMAIN refresh \cup {nextId}
        /\ refresh'[nextId] = nextId
        /\ \A r \in DOMAIN refresh : refresh'[r] = refresh[r]
    BY <1>1, <1>4 DEF Put
  <1>7. /\ DOMAIN minted' = 1 .. nextId' - 1
        /\ minted'[nextId] = entry
        /\ \A i \in DOMAIN minted : i \in DOMAIN minted' /\ minted'[i] = minted[i]
        /\ \A i \in DOMAIN minted' : i = nextId \/ i \in DOMAIN minted
    BY <1>1, <1>4 DEF Put
  <1>8. TypeOK'
    <2>1. tokens' \in [DOMAIN tokens' -> Token]
      BY <1>3, <1>4, <1>5 DEF IInv, TypeOK, Put
    <2>2. refresh' \in [DOMAIN refresh' -> Id]
      BY <1>1, <1>4, <1>6 DEF IInv, TypeOK, Put
    <2>3. minted' \in [1 .. nextId' - 1 -> Minted]
      BY <1>1, <1>3, <1>4, <1>7 DEF IInv, TypeOK, Put
    <2>4. families' \in [Client -> SUBSET Id]
      BY <1>1, <1>4 DEF IInv, TypeOK
    <2>5. nextId' \in Id /\ 1 .. nextId - 1 \subseteq 1 .. nextId' - 1 /\ nextId \in 1 .. nextId' - 1
      BY <1>1, <1>4
    <2>6. /\ DOMAIN tokens' \subseteq 1 .. nextId' - 1
          /\ DOMAIN refresh' \subseteq 1 .. nextId' - 1
          /\ DOMAIN usedRefresh' \subseteq 1 .. nextId' - 1
      BY <1>1, <1>5, <1>6, <2>5
    <2>7. QED
      BY <2>1, <2>2, <2>3, <2>4, <2>5, <2>6 DEF IInv, TypeOK
  <1>9. RefreshTokenConsistent'
    BY <1>1, <1>5, <1>6 DEF IInv, RefreshTokenConsistent
  <1>10. TokensAreMinted'
    BY <1>1, <1>5, <1>7 DEF IInv, TokensAreMinted
  <1>11. FamilyCoversTokens'
    <2>1. nextId \in families'[c] /\ \A d \in Client : families[d] \subseteq families'[d]
      BY <1>4 DEF IInv, TypeOK
    <2>2. \A i \in DOMAIN tokens : tokens[i].client \in Client
      BY DEF IInv, TypeOK, Token
    <2>3. QED
      BY <1>5, <2>1, <2>2 DEF IInv, FamilyCoversTokens
  <1>12. Idle.pc = "idle"
    BY DEF Idle, NewRequest
  <1>13. parent # NoToken => parent \in DOMAIN usedRefresh
    BY DEF FirstGrant, Redemption
  <1>14. ParentsAreUsed'
    BY <1>7, <1>12, <1>13 DEF IInv, ParentsAreUsed
  <1>15. RotatedAtMostOnce'
    <2>1. (DOMAIN refresh \cap DOMAIN usedRefresh = {})'
      BY <1>1, <1>6 DEF IInv, RotatedAtMostOnce
    <2>2. \A i \in DOMAIN minted : minted[i].parent = parent => parent = NoToken
      BY DEF FirstGrant, Redemption
    <2>3. (\A i, j \in DOMAIN minted :
              minted[i].parent = minted[j].parent /\ minted[i].parent # NoToken => i = j)'
      BY <1>7, <2>2 DEF IInv, RotatedAtMostOnce
    <2>4. ASSUME NEW x \in Proc, NEW r \in 1 .. nextId' - 1, Redeeming(x, r)'
          PROVE  Redeeming(x, r) /\ r \in 1 .. nextId - 1 /\ r # parent
      <3>1. Redeeming(x, r)
        BY <1>12, <2>4 DEF Redeeming
      <3>2. r \in DOMAIN usedRefresh
        BY <3>1 DEF IInv, ParentsAreUsed, Redeeming
      <3>3. r # parent
        BY <2>4 DEF FirstGrant, Redemption
      <3>4. QED
        BY <1>1, <3>1, <3>2, <3>3
    <2>5. ASSUME NEW x \in Proc, NEW r \in 1 .. nextId' - 1, Redeeming(x, r)',
                 NEW i \in DOMAIN minted'
          PROVE  minted'[i].parent # r
      BY <1>7, <2>4, <2>5 DEF IInv, RotatedAtMostOnce
    <2>6. QED
      BY <2>1, <2>3, <2>4, <2>5 DEF IInv, RotatedAtMostOnce
  <1>16. RequestsCarryGrant'
    <2>1. (\A i \in DOMAIN minted : minted[i].familyCreatedAt >= 0)'
      BY <1>2, <1>7 DEF IInv, RequestsCarryGrant
    <2>2. ASSUME NEW x \in Proc PROVE CarriesGrant(req[x])'
      <3>1. CASE req'[x] = Idle
        BY <1>12, <3>1 DEF CarriesGrant
      <3>2. CASE req'[x] = req[x]
        BY <1>7, <3>2 DEF IInv, RequestsCarryGrant, CarriesGrant
      <3>3. QED
        BY <3>1, <3>2
    <2>3. QED
      BY <2>1, <2>2 DEF IInv, RequestsCarryGrant
  <1>17. RefreshStaysInGrant'
    BY <1>7 DEF IInv, RefreshStaysInGrant, FirstGrant, Redemption, RequestsCarryGrant
  <1>18. GrantWithinRegistration'
    BY <1>7 DEF IInv, GrantWithinRegistration, FirstGrant, Redemption
  <1>19. QED
    BY <1>8, <1>9, <1>10, <1>11, <1>14, <1>15, <1>16, <1>17, <1>18 DEF IInv

LEMMA CreateTokenForClientStep ==
    ASSUME IInv, NEW c \in Client, NEW scopes \in SUBSET Scope,
           CreateTokenForClient(c, scopes)
    PROVE  IInv'
  <1>1. FirstGrant(c, scopes, ZeroTime, "flow", NoToken)
    BY DEF FirstGrant
  <1>2. req' \in [Proc -> Request]
    BY DEF CreateTokenForClient, IInv, TypeOK
  <1>3. QED
    BY <1>1, <1>2, MintStep DEF CreateTokenForClient

LEMMA CreateTokenStep ==
    ASSUME IInv, NEW p \in Proc, CreateToken(p)
    PROVE  IInv'
  <1> DEFINE q == req[p]
  <1>1. q \in Request /\ q.pc = "create" /\ CarriesGrant(q)
    BY DEF CreateToken, IInv, TypeOK, RequestsCarryGrant
  <1>2. q.client \in Client /\ q.scopes \in SUBSET Scope
    BY <1>1 DEF CarriesGrant, Request
  <1>3. req' \in [Proc -> Request] /\ req'[p] = Idle /\ \A x \in Proc \ {p} : req'[x] = req[x]
    BY IdleIsRequest DEF CreateToken, Finish, IInv, TypeOK
  <1>4. CASE q.via # "refresh"
    <2>1. FirstGrant(q.client, q.scopes, q.familyCreated, q.via, q.token)
      BY <1>1, <1>4 DEF CarriesGrant, FirstGrant
    <2>2. QED
      BY <1>2, <1>3, <2>1, MintStep DEF CreateToken
  <1>5. CASE q.via = "refresh"
    <2>0. PICK r : r = q.token
      OBVIOUS
    <2>1. Redeeming(p, r) /\ r \in 1 .. nextId - 1
      BY <1>1, <1>5, <2>0 DEF Redeeming, CarriesGrant, IInv, TypeOK
    <2>2. \A i \in DOMAIN minted : minted[i].parent # r
      BY <2>1 DEF IInv, RotatedAtMostOnce
    <2>3. ASSUME NEW x \in Proc PROVE ~Redeeming(x, r)'
      <3>1. CASE x = p
        BY <1>3, <3>1 DEF Redeeming, Idle, NewRequest
      <3>2. CASE x # p
        <4>1. ~Redeeming(x, r)
          BY <2>1, <3>2 DEF IInv, RotatedAtMostOnce
        <4>2. QED
          BY <1>3, <3>2, <4>1 DEF Redeeming
      <3>3. QED
        BY <3>1, <3>2
    <2>4. r \in DOMAIN usedRefresh
      BY <1>1, <1>5, <2>0 DEF IInv, ParentsAreUsed
    <2>5. Redemption(q.client, q.scopes, q.familyCreated, q.via, r)
      BY <1>1, <1>5, <2>0, <2>2, <2>3, <2>4 DEF Redemption, CarriesGrant
    <2>6. QED
      BY <1>2, <1>3, <2>0, <2>5, MintStep DEF CreateToken
  <1>6. QED
    BY <1>4, <1>5

-----------------------------------------------------------------------------
(* The invariant, and what it gives. *)

LEMMA InitEstablishes == Init => IInv
  <1> SUFFICES ASSUME Init PROVE IInv
    OBVIOUS
  <1> USE DEF Init, EmptyMap
  <1>1. TypeOK
    BY IdleIsRequest DEF TypeOK
  <1>2. RequestsCarryGrant
    BY DEF RequestsCarryGrant, CarriesGrant, Idle, NewRequest
  <1>3. ParentsAreUsed /\ RotatedAtMostOnce
    BY DEF ParentsAreUsed, RotatedAtMostOnce, Redeeming, Idle, NewRequest
  <1>4. /\ RefreshTokenConsistent /\ TokensAreMinted /\ FamilyCoversTokens
        /\ RefreshStaysInGrant /\ GrantWithinRegistration
    BY DEF RefreshTokenConsistent, TokensAreMinted, FamilyCoversTokens,
           RefreshStaysInGrant, GrantWithinRegistration
  <1>5. QED
    BY <1>1, <1>2, <1>3, <1>4 DEF IInv

LEMMA NextPreserves == IInv /\ [Next]_vars => IInv'
  <1> SUFFICES ASSUME IInv, [Next]_vars PROVE IInv'
    OBVIOUS
  <1>1. ASSUME NEW p \in Proc, Begin(p) PROVE IInv'
    BY <1>1, ClientCredentialsStep, RefreshGrantStep, LookupStep DEF Begin
  <1>2. ASSUME NEW p \in Proc, NEW rtk \in 0 .. nextId - 1, Refresh(p, rtk) PROVE IInv'
    BY <1>2, ReuseDetectedStep, RefreshRejectedStep, DropExpiredRefreshStep,
       RevokeExpiredFamilyStep, RotateStep DEF Refresh
  <1>3. ASSUME NEW p \in Proc, Advance(p) PROVE IInv'
    BY <1>2, <1>3, DefaultScopesStep, ValidateScopesStep, CreateTokenStep,
       TouchTokenStep DEF Advance
  <1>4. CASE Administer
    BY <1>4, RegisterClientStep, CreateTokenForClientStep, RevokeTokenStep,
       RevokeRFC7009Step, RevokeByClientStep DEF Administer
  <1>5. CASE UNCHANGED vars
    <2>1. UNCHANGED <<clients, tokens, refresh, usedRefresh, families, req, now,
                      nextId, minted, registered>>
      BY <1>5 DEF vars
    <2>2. StoreShrinks
      BY <2>1 DEF StoreShrinks, SameGrant, IInv, TypeOK, RefreshTokenConsistent
    <2>3. QED
      BY <2>1, <2>2, StayMoves, NowIsNat, StoreStep
  <1>6. QED
    BY <1>1, <1>3, <1>4, <1>5, CleanupStep, TickStep DEF Next

\* The inductive invariant holds in every behaviour of the token manager.
THEOREM Invariance == Spec => []IInv
  BY InitEstablishes, NextPreserves, PTL DEF Spec

\* Type correctness, for every value of the constants.
THEOREM TypeCorrect == Spec => []TypeOK
  <1>1. IInv => TypeOK
    BY DEF IInv
  <1>2. QED
    BY <1>1, Invariance, PTL

\* However refresh requests interleave, each refresh token is redeemed for at
\* most one new token.
THEOREM SingleRedemption == Spec => []RotatedAtMostOnce
  <1>1. IInv => RotatedAtMostOnce
    BY DEF IInv
  <1>2. QED
    BY <1>1, Invariance, PTL

\* Rotation never leaves the grant: client, scopes and family age are kept.
THEOREM GrantIsKept == Spec => []RefreshStaysInGrant
  <1>1. IInv => RefreshStaysInGrant
    BY DEF IInv
  <1>2. QED
    BY <1>1, Invariance, PTL

\* revokeFamily and RevokeByClient miss no stored token of the client.
THEOREM FamilyIsComplete == Spec => []FamilyCoversTokens
  <1>1. IInv => FamilyCoversTokens
    BY DEF IInv
  <1>2. QED
    BY <1>1, Invariance, PTL

\* Refresh tokens and access tokens stay paired.
THEOREM RefreshIsConsistent == Spec => []RefreshTokenConsistent
  <1>1. IInv => RefreshTokenConsistent
    BY DEF IInv
  <1>2. QED
    BY <1>1, Invariance, PTL

\* client_credentials never grants beyond every registration of the client.
THEOREM GrantIsRegistered == Spec => []GrantWithinRegistration
  <1>1. IInv => GrantWithinRegistration
    BY DEF IInv
  <1>2. QED
    BY <1>1, Invariance, PTL

-----------------------------------------------------------------------------
(* Action properties. *)

\* A step only adds the token minted next; a stored token that is revoked
\* stays revoked for as long as it is stored.
LEMMA TokensOnlyWorsen ==
    ASSUME IInv, [Next]_vars
    PROVE  \A i \in DOMAIN tokens' :
              \/ i = nextId
              \/ i \in DOMAIN tokens /\ (tokens[i].revoked => tokens'[i].revoked)
  <1> DEFINE Worsen == \A i \in DOMAIN tokens' :
              \/ i = nextId
              \/ i \in DOMAIN tokens /\ (tokens[i].revoked => tokens'[i].revoked)
  <1> TypeOK
    BY DEF IInv
  <1>1. ASSUME NEW ids, Revoke(ids) PROVE Worsen
    BY <1>1, RevokeFact
  <1>2. CASE UNCHANGED tokens
    BY <1>2
  <1>3. ASSUME NEW p \in Proc, TouchToken(p) PROVE Worsen
    BY <1>3, TouchFact
  <1>4. ASSUME NEW c, NEW scopes, NEW familyCreated, NEW via, NEW parent,
               Mint(c, scopes, familyCreated, via, parent)
        PROVE  Worsen
    BY <1>4 DEF Mint, Put
  <1>5. CASE Cleanup
    BY <1>5 DEF Cleanup, Drop, Restrict
  <1>6. ASSUME NEW p \in Proc, Begin(p) PROVE Worsen
    BY <1>2, <1>6 DEF Begin, ClientCredentials, RefreshGrant, Lookup, maps
  <1>7. ASSUME NEW p \in Proc, NEW rtk, Refresh(p, rtk) PROVE Worsen
    BY <1>1, <1>2, <1>7 DEF Refresh, ReuseDetected, RefreshRejected, maps,
       DropExpiredRefresh, RevokeExpiredFamily, Rotate
  <1>8. ASSUME NEW p \in Proc, Advance(p) PROVE Worsen
    BY <1>2, <1>3, <1>4, <1>7, <1>8 DEF Advance, DefaultScopes, ValidateScopes,
       CreateToken, maps
  <1>9. CASE Administer
    <2>1. ASSUME NEW c, NEW r, RegisterClient(c, r) PROVE Worsen
      BY <1>2, <2>1 DEF RegisterClient
    <2>2. ASSUME NEW c, NEW scopes, CreateTokenForClient(c, scopes) PROVE Worsen
      BY <1>4, <2>2 DEF CreateTokenForClient
    <2>3. ASSUME NEW i, NEW kind, NEW hint, RevokeRFC7009(i, kind, hint) PROVE Worsen
      BY <1>1, <2>3 DEF RevokeRFC7009
    <2>4. ASSUME NEW i, RevokeToken(i) \/ RevokeByClient(i) PROVE Worsen
      BY <1>1, <2>4 DEF RevokeToken, RevokeByClient
    <2>5. QED
      BY <1>9, <2>1, <2>2, <2>3, <2>4 DEF Administer
  <1>10. CASE Tick \/ UNCHANGED vars
    BY <1>2, <1>10 DEF Tick, maps, vars
  <1>11. QED
    BY <1>5, <1>6, <1>8, <1>9, <1>10 DEF Next

\* A revoked or removed token never becomes usable again.
THEOREM RevocationPermanent == Spec => RevocationIsPermanent
  <1>1. ASSUME IInv, [Next]_vars
        PROVE  [\A i \in DOMAIN minted :
                   (i \notin DOMAIN tokens \/ tokens[i].revoked) =>
                       (i \notin DOMAIN tokens' \/ tokens'[i].revoked)]_vars
    <2>1. nextId \notin DOMAIN minted
      BY <1>1 DEF IInv, TypeOK
    <2>2. QED
      BY <1>1, <2>1, TokensOnlyWorsen
  <1>2. QED
    BY <1>1, Invariance, PTL DEF Spec, RevocationIsPermanent

\* Only p's own critical section moves p on from a refresh.
LEMMA RefreshIsHandled ==
    ASSUME IInv, Next, NEW p \in Proc, HandlesRefresh(p)
    PROVE  \E rtk \in 0 .. nextId - 1 : Refresh(p, rtk)
  <1> req \in [Proc -> Request]
    BY DEF IInv, TypeOK
  <1>1. ASSUME NEW x \in Proc, NEW q, req' = [req EXCEPT ![x] = q] PROVE x = p
    BY <1>1 DEF HandlesRefresh
  <1>2. req' # req
    BY DEF HandlesRefresh
  <1>3. ASSUME NEW x \in Proc, Begin(x) PROVE FALSE
    <2>1. req[x].pc = "idle" /\ \E q : req' = [req EXCEPT ![x] = q]
      BY <1>3 DEF Begin, ClientCredentials, RefreshGrant, Lookup, Arrive
    <2>2. QED
      BY <1>1, <2>1 DEF HandlesRefresh
  <1>4. ASSUME NEW x \in Proc, Advance(x) PROVE \E rtk \in 0 .. nextId - 1 : Refresh(p, rtk)
    <2>1. CASE \E rtk \in 0 .. nextId - 1 : Refresh(x, rtk)
      <3>1. \E q : req' = [req EXCEPT ![x] = q]
        BY <2>1 DEF Refresh, ReuseDetected, RefreshRejected, DropExpiredRefresh,
           RevokeExpiredFamily, Rotate, Continue, Finish
      <3>2. QED
        BY <1>1, <2>1, <3>1
    <2>2. CASE DefaultScopes(x) \/ ValidateScopes(x) \/ CreateToken(x) \/ TouchToken(x)
      <3>1. req[x].pc # "rotate" /\ \E q : req' = [req EXCEPT ![x] = q]
        BY <2>2 DEF DefaultScopes, ValidateScopes, CreateToken, TouchToken, Continue, Finish
      <3>2. QED
        BY <1>1, <3>1 DEF HandlesRefresh
    <2>3. QED
      BY <1>4, <2>1, <2>2 DEF Advance
  <1>5. CASE Administer \/ Cleanup \/ Tick
    BY <1>2, <1>5 DEF Administer, RegisterClient, CreateTokenForClient, RevokeToken,
       RevokeRFC7009, RevokeByClient, Cleanup, Tick
  <1>6. QED
    BY <1>3, <1>4, <1>5 DEF Next

\* Presenting a used refresh token leaves its client no unrevoked token.
THEOREM ReuseIsPunished == Spec => ReuseRevokesFamily
  <1>1. ASSUME IInv, Next, NEW p \in Proc, NEW r \in DOMAIN usedRefresh, NEW c \in Client,
               HandlesRefresh(p), req[p].token = r, usedRefresh[r] = c
        PROVE  NoneUnrevoked(c)'
    <2>1. PICK rtk \in 0 .. nextId - 1 : Refresh(p, rtk)
      BY <1>1, RefreshIsHandled
    <2>2. ReuseDetected(p, rtk) /\ rtk = r
      BY <1>1, <2>1 DEF Refresh, RefreshRejected, DropExpiredRefresh,
         RevokeExpiredFamily, Rotate, Redeemable, Presents, ReuseDetected
    <2>3. Revoke(families[c]) /\ UNCHANGED families
      BY <1>1, <2>2 DEF ReuseDetected
    <2>4. QED
      <3>1. TypeOK /\ FamilyCoversTokens
        BY <1>1 DEF IInv
      <3>2. ASSUME NEW i \in DOMAIN tokens', tokens'[i].client = c
            PROVE  tokens'[i].revoked
        <4>1. i \in DOMAIN tokens /\ tokens[i].client = c
          BY <2>3, <3>1, <3>2, RevokeFact DEF SameGrant
        <4>2. i \in families[c]
          BY <3>1, <4>1 DEF FamilyCoversTokens
        <4>3. QED
          BY <2>3, <3>1, <4>1, <4>2, RevokeFact
      <3>3. QED
        BY <3>2 DEF NoneUnrevoked
  <1>2. ASSUME IInv, [Next]_vars
        PROVE  [\A p \in Proc, r \in DOMAIN usedRefresh, c \in Client :
                  (HandlesRefresh(p) /\ req[p].token = r /\ usedRefresh[r] = c) =>
                      NoneUnrevoked(c)']_vars
    BY <1>1, <1>2
  <1>3. QED
    BY <1>2, Invariance, PTL DEF Spec, ReuseRevokesFamily

-----------------------------------------------------------------------------
(* A refresh token is a one-time grant: its phase is read off the histories  *)
(* and two maps, and each step moves it along OneTimeGrant or leaves it.     *)

Issued(r) == r \in DOMAIN minted
Usable(r) == r \in DOMAIN refresh
Claimed(r) == \E p \in Proc : Redeeming(p, r)
Paid(r) == \E i \in DOMAIN minted : minted[i].parent = r

Stage(r) ==
    IF ~Issued(r) THEN "unissued"
    ELSE IF Usable(r) THEN "ready"
    ELSE IF Claimed(r) THEN "claimed"
    ELSE IF Paid(r) THEN "spent" ELSE "void"

\* The invariant makes three of the four exclude one another.
LEMMA StagesApart ==
    ASSUME IInv, NEW r, r # NoToken
    PROVE  /\ Usable(r) => Issued(r) /\ ~Claimed(r) /\ ~Paid(r)
           /\ Claimed(r) => Issued(r) /\ ~Paid(r) /\ r \in DOMAIN usedRefresh
           /\ Paid(r) => Issued(r) /\ r \in DOMAIN usedRefresh
           /\ \A p, q \in Proc : Redeeming(p, r) /\ Redeeming(q, r) => p = q
  <1>1. ASSUME NEW p \in Proc, Redeeming(p, r)
        PROVE  r \in DOMAIN usedRefresh /\ r \in DOMAIN minted
    BY <1>1 DEF IInv, ParentsAreUsed, RequestsCarryGrant, CarriesGrant, Redeeming
  <1>2. Paid(r) => r \in DOMAIN usedRefresh /\ r \in DOMAIN minted
    BY DEF IInv, ParentsAreUsed, RefreshStaysInGrant, Paid
  <1>3. DOMAIN refresh \cap DOMAIN usedRefresh = {}
    BY DEF IInv, RotatedAtMostOnce
  <1>4. DOMAIN refresh \subseteq DOMAIN minted /\ DOMAIN minted = 1 .. nextId - 1
    BY DEF IInv, TypeOK
  <1>5. ASSUME NEW p \in Proc, Redeeming(p, r)
        PROVE  ~Paid(r) /\ \A q \in Proc : Redeeming(q, r) => p = q
    <2>1. r \in 1 .. nextId - 1
      BY <1>1, <1>4, <1>5
    <2>2. QED
      BY <1>5, <2>1 DEF IInv, RotatedAtMostOnce, Paid
  <1>6. QED
    BY <1>1, <1>2, <1>3, <1>4, <1>5 DEF Issued, Usable, Claimed

LEMMA PhaseIsStage ==
    ASSUME IInv, NEW r, r # NoToken PROVE RefreshPhase(r) = Stage(r)
  <1>1. /\ Claims(r) = {} <=> ~Claimed(r)
        /\ Children(r) = {} <=> ~Paid(r)
    BY DEF Claims, Claimed, Children, Paid
  <1>2. QED
    BY <1>1, StagesApart DEF RefreshPhase, Stage, Issued, Usable

Moves(s, t) == s = t \/ <<s, t>> \in Grants!Step

\* A step that mints nothing and rotates nothing can only make a refresh
\* token unusable.
LEMMA QuietMoves ==
    ASSUME NEW r, IInv, r # NoToken, minted' = minted,
           DOMAIN refresh' \subseteq DOMAIN refresh,
           \A p \in Proc : Redeeming(p, r)' <=> Redeeming(p, r)
    PROVE  Moves(Stage(r), Stage(r)')
  <1>1. /\ Issued(r)' <=> Issued(r)
        /\ Usable(r)' => Usable(r)
        /\ Claimed(r)' <=> Claimed(r)
        /\ Paid(r)' <=> Paid(r)
    BY DEF Issued, Usable, Claimed, Paid
  <1>2. QED
    BY <1>1, StagesApart DEF Moves, Stage, Grants!Step

\* The places of requests that do not redeem.
LEMMA RedeemersStay ==
    ASSUME NEW r, IInv, NEW p \in Proc, NEW q, req' = [req EXCEPT ![p] = q],
           ~Redeeming(p, r), ~(q.pc = "create" /\ q.via = "refresh" /\ q.token = r)
    PROVE  \A x \in Proc : Redeeming(x, r)' <=> Redeeming(x, r)
  <1>1. req \in [Proc -> Request]
    BY DEF IInv, TypeOK
  <1>2. \A x \in Proc : req'[x] = IF x = p THEN q ELSE req[x]
    BY <1>1
  <1>3. QED
    BY <1>2 DEF Redeeming

LEMMA IdleRedeemsNothing == Idle.pc = "idle"
  BY DEF Idle, NewRequest

\* One request moves on without redeeming, or no request moves.
LEMMA QuietRequest ==
    ASSUME NEW r, IInv, r # NoToken, minted' = minted,
           DOMAIN refresh' \subseteq DOMAIN refresh,
           \/ UNCHANGED req
           \/ \E p \in Proc : \E q :
                 /\ req' = [req EXCEPT ![p] = q]
                 /\ ~(req[p].pc = "create" /\ req[p].via = "refresh")
                 /\ ~(q.pc = "create" /\ q.via = "refresh")
    PROVE  Moves(Stage(r), Stage(r)')
  <1>1. CASE UNCHANGED req
    <2>1. \A x \in Proc : Redeeming(x, r)' <=> Redeeming(x, r)
      BY <1>1 DEF Redeeming
    <2>2. QED
      BY <2>1, QuietMoves
  <1>2. ASSUME NEW p \in Proc, NEW q, req' = [req EXCEPT ![p] = q],
               ~(req[p].pc = "create" /\ req[p].via = "refresh"),
               ~(q.pc = "create" /\ q.via = "refresh")
        PROVE  Moves(Stage(r), Stage(r)')
    <2>1. ~Redeeming(p, r)
      BY <1>2 DEF Redeeming
    <2>2. \A x \in Proc : Redeeming(x, r)' <=> Redeeming(x, r)
      BY <1>2, <2>1, RedeemersStay
    <2>3. QED
      BY <2>2, QuietMoves
  <1>3. QED
    BY <1>1, <1>2

LEMMA BeginMoves ==
    ASSUME NEW r, IInv, r # NoToken, NEW p \in Proc, Begin(p)
    PROVE  Moves(Stage(r), Stage(r)')
  <1>1. UNCHANGED <<refresh, minted>> /\ req[p].pc = "idle"
    BY DEF Begin, ClientCredentials, RefreshGrant, Lookup, Arrive, maps, history
  <1>2. \E q : req' = [req EXCEPT ![p] = q] /\ q.pc # "create"
    BY DEF Begin, ClientCredentials, RefreshGrant, Lookup, Arrive, NewRequest
  <1>3. QED
    BY <1>1, <1>2, QuietRequest

LEMMA AdministerMoves ==
    ASSUME NEW r, IInv, r # NoToken,
           UNCHANGED req, minted' = minted, DOMAIN refresh' \subseteq DOMAIN refresh
    PROVE  Moves(Stage(r), Stage(r)')
  BY QuietRequest

\* client_credentials requests redeem nothing.
LEMMA CheckMoves ==
    ASSUME NEW r, IInv, r # NoToken, NEW p \in Proc,
           DefaultScopes(p) \/ ValidateScopes(p)
    PROVE  Moves(Stage(r), Stage(r)')
  <1>1. PICK o : o = req[p]
    OBVIOUS
  <1>2. o \in Request /\ CarriesGrant(o) /\ o.pc \in {"defaults", "validate"}
    BY <1>1 DEF DefaultScopes, ValidateScopes, IInv, TypeOK, RequestsCarryGrant
  <1>3. o.via = "client_credentials" /\ o.pc # "create"
    BY <1>2 DEF CarriesGrant
  <1>4. UNCHANGED <<refresh, minted>>
    BY DEF DefaultScopes, ValidateScopes, maps, history
  <1>5. \/ req' = [req EXCEPT ![p] = [o EXCEPT !.pc = "validate",
                                              !.scopes = clients[o.client].scopes]]
        \/ req' = [req EXCEPT ![p] = [o EXCEPT !.pc = "create"]]
        \/ req' = [req EXCEPT ![p] = Idle]
    BY <1>1 DEF DefaultScopes, ValidateScopes, Continue, Finish
  <1>6. /\ [o EXCEPT !.pc = "validate", !.scopes = clients[o.client].scopes].via = "client_credentials"
        /\ [o EXCEPT !.pc = "create"].via = "client_credentials"
    BY <1>2, <1>3 DEF Request
  <1>7. \E q : req' = [req EXCEPT ![p] = q] /\ ~(q.pc = "create" /\ q.via = "refresh")
    BY <1>5, <1>6, IdleRedeemsNothing
  <1>8. QED
    BY <1>1, <1>3, <1>4, <1>7, QuietRequest

\* Every outcome of a refresh but the rotation.
LEMMA RefusalMoves ==
    ASSUME NEW r, IInv, r # NoToken, NEW p \in Proc, NEW rtk,
           \/ ReuseDetected(p, rtk)
           \/ RefreshRejected(p, rtk)
           \/ DropExpiredRefresh(p, rtk)
           \/ RevokeExpiredFamily(p, rtk)
    PROVE  Moves(Stage(r), Stage(r)')
  <1>1. req[p].pc = "rotate" /\ req' = [req EXCEPT ![p] = Idle]
    BY DEF ReuseDetected, RefreshRejected, DropExpiredRefresh, RevokeExpiredFamily,
       Redeemable, Presents, Finish
  <1>2. minted' = minted
    BY DEF ReuseDetected, RefreshRejected, DropExpiredRefresh, RevokeExpiredFamily, history
  <1>3. DOMAIN refresh' \subseteq DOMAIN refresh
    BY DEF ReuseDetected, RefreshRejected, DropExpiredRefresh, RevokeExpiredFamily, maps,
       Drop, Restrict
  <1>4. QED
    BY <1>1, <1>2, <1>3, IdleRedeemsNothing, QuietRequest

LEMMA TouchMoves ==
    ASSUME NEW r, IInv, r # NoToken, NEW p \in Proc, TouchToken(p)
    PROVE  Moves(Stage(r), Stage(r)')
  <1>1. /\ req[p].pc = "touch" /\ req' = [req EXCEPT ![p] = Idle]
        /\ UNCHANGED <<refresh, minted>>
    BY DEF TouchToken, Finish, history
  <1>2. QED
    BY <1>1, IdleRedeemsNothing, QuietRequest

\* The rotation claims the refresh token it consumes, or voids it when the
\* request asked for too much.
LEMMA RotateMoves ==
    ASSUME NEW r, IInv, r # NoToken, NEW p \in Proc, NEW rtk, Rotate(p, rtk)
    PROVE  Moves(Stage(r), Stage(r)')
  <1>1. PICK o : o = req[p]
    OBVIOUS
  <1>2. /\ o \in Request /\ o.pc = "rotate" /\ o.via = "refresh" /\ o.token = rtk
        /\ rtk \in DOMAIN refresh
    BY <1>1 DEF Rotate, Redeemable, Presents, IInv, TypeOK, RequestsCarryGrant, CarriesGrant
  <1>3. PICK q : /\ req' = [req EXCEPT ![p] = q]
                 /\ \/ q.pc = "idle"
                    \/ q.pc = "create" /\ q.via = "refresh" /\ q.token = rtk
    <2>1. \/ req' = [req EXCEPT ![p] = Idle]
          \/ \E s, f : req' = [req EXCEPT ![p] = [o EXCEPT !.pc = "create", !.scopes = s,
                                                           !.familyCreated = f]]
      BY <1>1 DEF Rotate, Continue, Finish
    <2>2. \A s, f : LET n == [o EXCEPT !.pc = "create", !.scopes = s, !.familyCreated = f]
                    IN  n.pc = "create" /\ n.via = "refresh" /\ n.token = rtk
      BY <1>2 DEF Request
    <2>3. CASE req' = [req EXCEPT ![p] = Idle]
      BY <2>3, IdleRedeemsNothing
    <2>4. ASSUME NEW s, NEW f,
                 req' = [req EXCEPT ![p] = [o EXCEPT !.pc = "create", !.scopes = s,
                                                     !.familyCreated = f]]
          PROVE  \E q : req' = [req EXCEPT ![p] = q] /\ q.pc = "create" /\ q.via = "refresh"
                        /\ q.token = rtk
      <3>1. PICK n : n = [o EXCEPT !.pc = "create", !.scopes = s, !.familyCreated = f]
        OBVIOUS
      <3>2. n.pc = "create" /\ n.via = "refresh" /\ n.token = rtk
        BY <2>2, <3>1
      <3>3. req' = [req EXCEPT ![p] = n]
        BY <2>4, <3>1
      <3>4. QED
        BY <3>2, <3>3
    <2>5. QED
      BY <2>1, <2>3, <2>4
  <1>4. minted' = minted /\ DOMAIN refresh' = DOMAIN refresh \ {rtk}
    BY DEF Rotate, Consume, Drop, Restrict, history
  <1>5. req \in [Proc -> Request] /\ ~Redeeming(p, r)
    BY <1>1, <1>2 DEF IInv, TypeOK, Redeeming
  <1>6. CASE r # rtk
    <2>1. \A x \in Proc : Redeeming(x, r)' <=> Redeeming(x, r)
      BY <1>3, <1>5, <1>6, RedeemersStay
    <2>2. QED
      BY <1>4, <2>1, QuietMoves
  <1>7. CASE r = rtk
    <2>1. Issued(r) /\ Usable(r) /\ ~Paid(r)
      BY <1>2, <1>7, StagesApart DEF Usable
    <2>2. Issued(r)' /\ ~Usable(r)' /\ ~Paid(r)'
      BY <1>4, <1>7, <2>1 DEF Issued, Usable, Paid
    <2>3. QED
      BY <2>1, <2>2 DEF Moves, Stage, Grants!Step
  <1>8. QED
    BY <1>6, <1>7

\* Minting issues the refresh token nextId and pays for its parent.
LEMMA MintMoves ==
    ASSUME NEW r, IInv, r # NoToken,
           NEW c, NEW scopes, NEW familyCreated, NEW via, NEW parent,
           Mint(c, scopes, familyCreated, via, parent),
           r = parent => Claimed(r) /\ ~Claimed(r)',
           r # parent => (Claimed(r)' <=> Claimed(r))
    PROVE  Moves(Stage(r), Stage(r)')
  <1>1. nextId \notin DOMAIN minted /\ nextId \notin DOMAIN refresh
    BY DEF IInv, TypeOK
  <1>2. /\ DOMAIN minted' = DOMAIN minted \cup {nextId}
        /\ minted'[nextId].parent = parent
        /\ \A i \in DOMAIN minted : minted'[i] = minted[i]
        /\ DOMAIN refresh' = DOMAIN refresh \cup {nextId}
    BY <1>1 DEF Mint, Put
  <1>3. /\ Issued(r)' <=> Issued(r) \/ r = nextId
        /\ Usable(r)' <=> Usable(r) \/ r = nextId
        /\ Paid(r)' <=> Paid(r) \/ r = parent
    BY <1>1, <1>2 DEF Issued, Usable, Paid
  <1>4. CASE r = nextId
    <2>1. ~Issued(r)
      BY <1>1, <1>4 DEF Issued
    <2>2. QED
      BY <1>3, <1>4, <2>1 DEF Moves, Stage, Grants!Step
  <1>5. CASE r # nextId /\ r = parent
    <2>1. Stage(r) = "claimed"
      BY <1>5, StagesApart DEF Stage
    <2>2. Stage(r)' = "spent"
      BY <1>3, <1>5, StagesApart DEF Stage
    <2>3. QED
      BY <2>1, <2>2 DEF Moves, Grants!Step
  <1>6. CASE r # nextId /\ r # parent
    BY <1>3, <1>6 DEF Moves, Stage
  <1>7. QED
    BY <1>4, <1>5, <1>6

LEMMA CreateMoves ==
    ASSUME NEW r, IInv, r # NoToken, NEW p \in Proc, CreateToken(p)
    PROVE  Moves(Stage(r), Stage(r)')
  <1>1. PICK o : o = req[p]
    OBVIOUS
  <1>2. o \in Request /\ o.pc = "create" /\ CarriesGrant(o)
    BY <1>1 DEF CreateToken, IInv, TypeOK, RequestsCarryGrant
  <1>3. o.via # "refresh" => o.token = NoToken
    BY <1>2 DEF CarriesGrant
  <1>4. Redeeming(p, r) <=> r = o.token
    BY <1>1, <1>2, <1>3 DEF Redeeming
  <1>5. req' = [req EXCEPT ![p] = Idle] /\ req \in [Proc -> Request]
    BY DEF CreateToken, Finish, IInv, TypeOK
  <1>6. \A x \in Proc : Redeeming(x, r)' <=> x # p /\ Redeeming(x, r)
    <2>1. \A x \in Proc : req'[x] = IF x = p THEN Idle ELSE req[x]
      BY <1>5
    <2>2. QED
      BY <2>1, IdleRedeemsNothing DEF Redeeming
  <1>7. r = o.token => Claimed(r) /\ ~Claimed(r)'
    BY <1>4, <1>6, StagesApart DEF Claimed
  <1>8. r # o.token => (Claimed(r)' <=> Claimed(r))
    BY <1>4, <1>6 DEF Claimed
  <1>9. Mint(o.client, o.scopes, o.familyCreated, o.via, o.token)
    BY <1>1 DEF CreateToken
  <1>10. QED
    BY <1>7, <1>8, <1>9, MintMoves

LEMMA CreateForClientMoves ==
    ASSUME NEW r, IInv, r # NoToken, NEW c, NEW scopes, CreateTokenForClient(c, scopes)
    PROVE  Moves(Stage(r), Stage(r)')
  <1>1. Claimed(r)' <=> Claimed(r)
    BY DEF CreateTokenForClient, Claimed, Redeeming
  <1>2. QED
    BY <1>1, MintMoves DEF CreateTokenForClient

LEMMA StageMoves ==
    IInv /\ [Next]_vars => \A r \in 1 .. MaxTokens : Moves(Stage(r), Stage(r)')
  <1> SUFFICES ASSUME IInv, [Next]_vars, NEW r \in 1 .. MaxTokens
               PROVE  Moves(Stage(r), Stage(r)')
    OBVIOUS
  <1>0. r # NoToken
    OBVIOUS
  <1>1. ASSUME NEW p \in Proc, NEW rtk, Refresh(p, rtk) PROVE Moves(Stage(r), Stage(r)')
    BY <1>0, <1>1, RefusalMoves, RotateMoves DEF Refresh
  <1>2. ASSUME NEW p \in Proc, Advance(p) PROVE Moves(Stage(r), Stage(r)')
    BY <1>0, <1>1, <1>2, CheckMoves, CreateMoves, TouchMoves DEF Advance
  <1>3. CASE Administer
    <2>1. ASSUME NEW c, NEW scopes, CreateTokenForClient(c, scopes)
          PROVE  Moves(Stage(r), Stage(r)')
      BY <1>0, <2>1, CreateForClientMoves
    <2>2. CASE UNCHANGED <<refresh, req, minted>>
      BY <1>0, <2>2, AdministerMoves
    <2>3. QED
      BY <1>3, <2>1, <2>2 DEF Administer, RegisterClient, RevokeToken, RevokeRFC7009,
         RevokeByClient, history
  <1>4. CASE Cleanup
    <2>1. /\ UNCHANGED req /\ minted' = minted
          /\ DOMAIN refresh' \subseteq DOMAIN refresh
      BY <1>4 DEF Cleanup, DropRefresh, Drop, Restrict, history
    <2>2. QED
      BY <1>0, <2>1, AdministerMoves
  <1>5. CASE Tick \/ UNCHANGED vars
    <2>1. UNCHANGED <<refresh, req, minted>>
      BY <1>5 DEF Tick, maps, history, vars
    <2>2. QED
      BY <1>0, <2>1, AdministerMoves
  <1>6. QED
    BY <1>0, <1>2, <1>3, <1>4, <1>5, BeginMoves DEF Next

LEMMA PhasesAreStages == IInv => \A r \in 1 .. MaxTokens : RefreshPhase(r) = Stage(r)
  BY PhaseIsStage

\* Refresh tokens implement OneTimeGrant: for any number of requests that
\* present one at once, it is claimed by at most one of them, mints at most
\* one successor, and never comes back once it was used, refused or dropped
\* (handleRefreshToken, createTokenWithFamily, Cleanup).
THEOREM RefreshTokensAreOneTime == Spec => RefreshIsOneTime
  <1> DEFINE bar == [r \in 1 .. MaxTokens |-> RefreshPhase(r)]
  <1>1. Init => Grants!Init
    BY DEF Init, EmptyMap, Grants!Init, RefreshPhase
  <1>2. IInv' => \A r \in 1 .. MaxTokens : RefreshPhase(r)' = Stage(r)'
    <2>1. IInv' => (\A r \in 1 .. MaxTokens : RefreshPhase(r) = Stage(r))'
      BY PhasesAreStages, PTL
    <2>2. QED
      BY <2>1
  <1>3. IInv /\ IInv' /\ [Next]_vars => [Grants!Next]_bar
    <2> SUFFICES ASSUME IInv, IInv', [Next]_vars PROVE Grants!Next
      OBVIOUS
    <2>1. \A r \in 1 .. MaxTokens : RefreshPhase(r) = Stage(r) /\ RefreshPhase(r)' = Stage(r)'
      BY PhasesAreStages, <1>2
    <2>2. \A r \in 1 .. MaxTokens : Stage(r)' \in Grants!Phase
      BY DEF Stage, Grants!Phase
    <2>3. bar' \in [1 .. MaxTokens -> Grants!Phase]
      BY <2>1, <2>2
    <2>4. \A r \in 1 .. MaxTokens : bar'[r] = bar[r] \/ <<bar[r], bar'[r]>> \in Grants!Step
      BY <2>1, StageMoves DEF Moves
    <2>5. QED
      BY <2>3, <2>4 DEF Grants!Next
  <1>4. QED
    BY <1>1, <1>3, Invariance, PTL DEF Spec, RefreshIsOneTime, Grants!Spec
=============================================================================
