-------------------------------- MODULE PKCE --------------------------------
(***************************************************************************)
(* The authorization-code flow (internal/pkce/handler.go): Authorize       *)
(* stores a consent, the user answers it once, an approval stores a code,  *)
(* and Exchange redeems the code.  Consent and Exchange take the consent   *)
(* (the code) under the mutex and look at the clock and at the parameters  *)
(* after they have released it.                                            *)
(*                                                                         *)
(* The n-th Authorize draws the consent id n, and its approval the code n  *)
(* (256 random bits each).  Scopes travel with the client id unread.       *)
(***************************************************************************)
EXTENDS GrantParameters, GoMaps

VARIABLES
    pending,   \* consent id -> authorize request, waiting for the user
    codes,     \* authorization code -> AuthCode
    req,       \* the Consent and Exchange requests between critical sections
    now,       \* the clock
    nextId,    \* the next id generateCode draws
    issued     \* history: how many times the issuer was called for a grant

vars == <<pending, codes, req, now, nextId, issued>>

Authorization == [client : Client, redirect : Uri,
                  challenge : Verifier \cup {Empty}, createdAt : Nat]

\* pc "check" and "store": an approved consent, taken and then unexpired;
\* "verify" and "issue": a code, taken and then verified.
Idle == [pc |-> "idle"]
Request == {Idle} \cup
    [pc : {"check", "store", "verify", "issue"}, grant : Id, auth : Authorization,
     redirect : Uri \cup {Empty}, verifier : Verifier \cup {Empty}]

TypeOK ==
    /\ DOMAIN pending \subseteq 1 .. nextId - 1
    /\ pending \in [DOMAIN pending -> Authorization]
    /\ DOMAIN codes \subseteq 1 .. nextId - 1
    /\ codes \in [DOMAIN codes -> Authorization]
    /\ req \in [Proc -> Request]
    /\ now \in Nat
    /\ nextId \in 1 .. MaxGrants + 1
    /\ issued \in [Id -> Nat]

Init ==
    /\ pending = EmptyMap
    /\ codes = EmptyMap
    /\ req = [p \in Proc |-> Idle]
    /\ now = 0
    /\ nextId = 1
    /\ issued = [n \in Id |-> 0]

-----------------------------------------------------------------------------
Expired(auth) == now - auth.createdAt > TTL

Free(p) == req[p].pc = "idle"
Arrive(p, r) == Free(p) /\ req' = [req EXCEPT ![p] = r]
Proceed(p, pc) == req' = [req EXCEPT ![p].pc = pc]
Finish(p) == req' = [req EXCEPT ![p] = Idle]
Holding(n, auth, pc, uri, v) ==
    [pc |-> pc, grant |-> n, auth |-> auth, redirect |-> uri, verifier |-> v]

\* generateCode
RepeatCode == UNCHANGED nextId             \* mutant: the error of rand.Read is dropped
GenerateCode == nextId' = nextId + 1

\* Authorize: shows the consent screen.
Authorize(c, uri, challenge) ==
    /\ nextId <= MaxGrants
    /\ <<c, uri>> \in Registered
    /\ pending' = Put(pending, nextId,
                      [client |-> c, redirect |-> uri, challenge |-> challenge,
                       createdAt |-> now])
    /\ GenerateCode
    /\ UNCHANGED <<codes, req, now, issued>>

\* delete(h.pending, consentID), under the lock that read it
TakeConsent(n) == pending' = Drop(pending, {n})

\* Consent, the first critical section: whatever the answer, the consent is
\* gone.
Consent(p, n, action) ==
    /\ n \in DOMAIN pending
    /\ TakeConsent(n)
    /\ IF action = "approve"
         THEN Arrive(p, Holding(n, pending[n], "check", Empty, Empty))
         ELSE Free(p) /\ UNCHANGED req
    /\ UNCHANGED <<codes, now, nextId, issued>>

CheckConsent(p) ==
    /\ req[p].pc = "check"
    /\ IF Expired(req[p].auth) THEN Finish(p) ELSE Proceed(p, "store")
    /\ UNCHANGED <<pending, codes, now, nextId, issued>>

\* The second critical section of Consent.
StoreCode(p) ==
    /\ req[p].pc = "store"
    /\ codes' = Put(codes, req[p].grant, [req[p].auth EXCEPT !.createdAt = now])
    /\ Finish(p)
    /\ UNCHANGED <<pending, now, nextId, issued>>

\* delete(h.codes, code), under the lock that read it
TakeCode(n) == codes' = Drop(codes, {n})

\* The redirect URI must match; the verifier only if there was a challenge.
VerifiedWhenSent(auth, uri, v) ==          \* mutant: a missing verifier passes
    uri = auth.redirect /\ v \in {auth.challenge, Empty}
Verified(auth, uri, v) ==
    uri = auth.redirect /\ (auth.challenge = Empty \/ v = auth.challenge)

\* Exchange: a failed attempt spends the code.
Exchange(p, n, uri, v) ==
    /\ n \in DOMAIN codes
    /\ TakeCode(n)
    /\ Arrive(p, Holding(n, codes[n], "verify", uri, v))
    /\ UNCHANGED <<pending, now, nextId, issued>>

Verify(p) ==
    /\ req[p].pc = "verify"
    /\ IF ~Expired(req[p].auth) /\ Verified(req[p].auth, req[p].redirect, req[p].verifier)
         THEN Proceed(p, "issue")
         ELSE Finish(p)
    /\ UNCHANGED <<pending, codes, now, nextId, issued>>

\* h.issuer: CreateTokenForClient of the token manager
Issue(p) ==
    /\ req[p].pc = "issue"
    /\ issued' = [issued EXCEPT ![req[p].grant] = @ + 1]
    /\ Finish(p)
    /\ UNCHANGED <<pending, codes, now, nextId>>

\* Cleanup removes expired codes, and no consents.
Cleanup ==
    /\ codes' = Drop(codes, {n \in DOMAIN codes : Expired(codes[n])})
    /\ UNCHANGED <<pending, req, now, nextId, issued>>

Tick ==
    /\ now < MaxTime
    /\ now' = now + 1
    /\ UNCHANGED <<pending, codes, req, nextId, issued>>

Next ==
    \/ \E c \in Client, uri \in Uri, ch \in Verifier \cup {Empty} : Authorize(c, uri, ch)
    \/ \E p \in Proc :
          \/ \E n \in Id :
                \/ \E action \in {"approve", "deny"} : Consent(p, n, action)
                \/ \E uri \in Uri, v \in Verifier \cup {Empty} : Exchange(p, n, uri, v)
          \/ CheckConsent(p) \/ StoreCode(p)
          \/ Verify(p) \/ Issue(p)
    \/ Cleanup
    \/ Tick

Spec == Init /\ [][Next]_vars

-----------------------------------------------------------------------------
(* Properties *)

\* A token is issued only to a request that presented the redirect URI of the
\* authorize request, a registered one, and the verifier of its challenge,
\* if it had one.
RedeemedAsAuthorized ==
    \A p \in Proc :
        req[p].pc = "issue" =>
            LET auth == req[p].auth
            IN /\ <<auth.client, req[p].redirect>> \in Registered
               /\ req[p].redirect = auth.redirect
               /\ auth.challenge \in {Empty, req[p].verifier}

\* The life of grant n as OneTimeGrant sees it.  A consent or code past its
\* lifetime is void although it is still in its map.
At(n, pc) == {p \in Proc : req[p].pc = pc /\ req[p].grant = n}
Fresh(n, pc) == {p \in At(n, pc) : ~Expired(req[p].auth)}
Claims(n) == At(n, "issue") \cup Fresh(n, "verify")
Approvals(n) == At(n, "store") \cup Fresh(n, "check")
Uses(n) == Cardinality(Claims(n)) + issued[n]

PhaseOf(n) ==
    CASE n >= nextId -> "unissued"
      [] Uses(n) > 1 -> "used twice"
      [] Uses(n) = 1 -> IF Claims(n) = {} THEN "spent" ELSE "claimed"
      [] OTHER ->
           IF Approvals(n) # {} \/ (n \in DOMAIN codes /\ ~Expired(codes[n])) THEN "ready"
           ELSE IF n \in DOMAIN pending /\ ~Expired(pending[n]) THEN "pending"
           ELSE "void"
=============================================================================
