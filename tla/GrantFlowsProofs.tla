-------------------------- MODULE GrantFlowsProofs --------------------------
(***************************************************************************)
(* The four grants for any clients, redirect URIs, verifiers, secrets and  *)
(* lifetimes and any number of requests: what a token is issued for, and   *)
(* that a code, a backchannel request and a pushed request are one-time    *)
(* grants (OneTimeGrant).                                                  *)
(***************************************************************************)
EXTENDS GrantFlows, FiniteSetTheorems, TLAPS

\* A step of the life of a grant, or none.
Moves(before, after) == before = after \/ <<before, after>> \in Grants!Step

-----------------------------------------------------------------------------
(* Authorization codes *)

\* The consent, the code or the request of a grant, whichever there is, is the
\* only one, and there is none once the issuer has been called for it.
CodeHolder(p) ==
    LET n == req[p].grant
        auth == req[p].auth
    IN /\ n < nextId /\ n \notin DOMAIN pending /\ n \notin DOMAIN codes
       /\ issued[n] = 0
       /\ <<auth.client, auth.redirect>> \in Registered
       /\ req[p].pc = "issue" => /\ req[p].redirect = auth.redirect
                                 /\ auth.challenge \in {Empty, req[p].verifier}

OneHolder ==
    /\ \A n \in DOMAIN pending :
          /\ n \notin DOMAIN codes /\ issued[n] = 0
          /\ <<pending[n].client, pending[n].redirect>> \in Registered
    /\ \A n \in DOMAIN codes :
          /\ issued[n] = 0
          /\ <<codes[n].client, codes[n].redirect>> \in Registered
    /\ \A p \in Proc : req[p].pc # "idle" => CodeHolder(p)
    /\ \A p, q \in Proc :
          req[p].pc # "idle" /\ req[q].pc # "idle" /\ req[p].grant = req[q].grant => p = q
    /\ \A n \in Id : issued[n] \in {0, 1} /\ (n >= nextId => issued[n] = 0)

CodeInv == P!TypeOK /\ OneHolder

LEMMA CodeInit == P!Init => CodeInv
  BY ParameterAssumption
  DEF P!Init, CodeInv, OneHolder, P!TypeOK, P!EmptyMap, P!Request, P!Idle, P!Id, Id

LEMMA DropIs == ASSUME NEW m, NEW S PROVE P!Drop(m, S) = [x \in DOMAIN m \ S |-> m[x]]
  BY DEF P!Drop, P!Restrict

LEMMA Proceeded ==
    ASSUME P!TypeOK, NEW p \in Proc, req[p].pc # "idle",
           NEW pc \in {"store", "issue"}, P!Proceed(p, pc)
    PROVE  \E r \in P!Request :
              /\ req' = [req EXCEPT ![p] = r]
              /\ r.pc = pc /\ r.grant = req[p].grant /\ r.auth = req[p].auth
              /\ r.redirect = req[p].redirect /\ r.verifier = req[p].verifier
  <1> DEFINE o == req[p]
             r == [o EXCEPT !.pc = pc]
  <1>1. req' = [req EXCEPT ![p] = r]
    BY DEF P!Proceed
  <1>2. o \in P!Request /\ o.pc # "idle"
    BY DEF P!TypeOK
  <1> HIDE DEF o
  <1>3. r = [pc |-> pc, grant |-> o.grant, auth |-> o.auth, redirect |-> o.redirect,
             verifier |-> o.verifier]
    BY <1>2 DEF P!Request, P!Idle
  <1>4. r \in P!Request
    BY <1>2, <1>3 DEF P!Request, P!Idle
  <1> HIDE DEF r
  <1>5. QED
    BY <1>1, <1>3, <1>4 DEF o

LEMMA PutIs ==
    ASSUME NEW m, NEW k, NEW v
    PROVE  LET f == P!Put(m, k, v)
           IN /\ DOMAIN f = DOMAIN m \cup {k} /\ f[k] = v
              /\ \A x \in DOMAIN m : x # k => f[x] = m[x]
  BY DEF P!Put

LEMMA PutType ==
    ASSUME NEW m, NEW k, NEW T, m \in [DOMAIN m -> T], NEW v \in T
    PROVE  P!Put(m, k, v) \in [DOMAIN m \cup {k} -> T]
  BY DEF P!Put

LEMMA CodeKept == CodeInv /\ P!Next => CodeInv'
  <1> SUFFICES ASSUME CodeInv, P!Next PROVE CodeInv'
    OBVIOUS
  <1> USE DEF CodeInv
  <1>0. /\ req \in [Proc -> P!Request] /\ P!Idle \in P!Request /\ P!Idle.pc = "idle"
        /\ nextId \in Nat /\ now \in Nat
        /\ \A n \in DOMAIN pending \cup DOMAIN codes : n \in Id /\ n < nextId
        /\ \A n \in Id : n \in Nat
        /\ \A p \in Proc : req[p].pc # "idle" => req[p].grant \in Id
        /\ issued \in [Id -> Nat]
    BY ParameterAssumption DEF P!TypeOK, P!Request, P!Idle, P!Id, Id
  <1>1. ASSUME NEW c \in Client, NEW uri \in Uri, NEW ch \in Verifier \cup {Empty},
               P!Authorize(c, uri, ch)
        PROVE  CodeInv'
    <2> DEFINE a == [client |-> c, redirect |-> uri, challenge |-> ch, createdAt |-> now]
    <2>1. /\ a \in P!Authorization /\ <<a.client, a.redirect>> \in Registered
          /\ pending' = P!Put(pending, nextId, a)
      BY <1>0, <1>1 DEF P!Authorize, P!Authorization
    <2> HIDE DEF a
    <2>2. /\ DOMAIN pending' = DOMAIN pending \cup {nextId} /\ pending'[nextId] = a
          /\ \A x \in DOMAIN pending : pending'[x] = pending[x]
      BY <1>0, <2>1 DEF P!Put
    <2> pending' \in [DOMAIN pending' -> P!Authorization]
      BY <2>1, <2>2, PutType DEF P!TypeOK
    <2>3. P!TypeOK'
      BY <1>0, <1>1, <2>2, ParameterAssumption DEF P!Authorize, P!TypeOK, P!GenerateCode
    <2>4. nextId' = nextId + 1 /\ nextId \in Id /\ UNCHANGED <<codes, req, issued>>
      BY <1>0, <1>1, ParameterAssumption DEF P!Authorize, P!GenerateCode, P!TypeOK, Id
    <2>5. nextId \notin DOMAIN codes /\ nextId \notin DOMAIN pending /\ issued[nextId] = 0
      BY <1>0, <2>4 DEF OneHolder
    <2>6. OneHolder'
      <3>1. \A p \in Proc : req[p].pc # "idle" => CodeHolder(p)'
        BY <1>0, <2>2, <2>4 DEF OneHolder, CodeHolder
      <3>2. QED
        BY <1>0, <2>1, <2>2, <2>4, <2>5, <3>1 DEF OneHolder
    <2>7. QED
      BY <2>3, <2>6
  <1>2. ASSUME NEW p \in Proc, NEW n \in Id, NEW action, P!Consent(p, n, action)
        PROVE  CodeInv'
    <2>1. pending' = [x \in DOMAIN pending \ {n} |-> pending[x]]
      BY <1>2, DropIs DEF P!Consent, P!TakeConsent
    <2> DEFINE r == P!Holding(n, pending[n], "check", Empty, Empty)
    <2>2. r \in P!Request
      BY <1>2 DEF P!Consent, P!TypeOK, P!Holding, P!Request, P!Id, Id
    <2>3. \/ req' = req
          \/ req[p].pc = "idle" /\ req' = [req EXCEPT ![p] = r]
      BY <1>2 DEF P!Consent, P!Arrive, P!Free
    <2>4. r.pc = "check" /\ r.grant = n /\ r.auth = pending[n]
      BY DEF P!Holding
    <2> HIDE DEF r
    <2>5. P!TypeOK'
      BY <1>0, <1>2, <2>1, <2>2, <2>3 DEF P!Consent, P!TypeOK
    <2>6. OneHolder'
      <3>1. CASE req' = req
        BY <1>0, <1>2, <2>1, <3>1 DEF P!Consent, OneHolder, CodeHolder
      <3>2. CASE req[p].pc = "idle" /\ req' = [req EXCEPT ![p] = r]
        BY <1>0, <1>2, <2>1, <2>2, <2>4, <3>2 DEF P!Consent, OneHolder, CodeHolder
      <3>3. QED
        BY <2>3, <3>1, <3>2
    <2>7. QED
      BY <2>5, <2>6
  <1>3. ASSUME NEW p \in Proc, P!CheckConsent(p)
        PROVE  CodeInv'
    <2>1. CASE P!Finish(p)
      <3>1. P!TypeOK'
        BY <1>0, <1>3, <2>1 DEF P!CheckConsent, P!Finish, P!TypeOK
      <3>2. OneHolder'
        BY <1>0, <1>3, <2>1 DEF P!CheckConsent, P!Finish, OneHolder, CodeHolder
      <3>3. QED
        BY <3>1, <3>2
    <2>2. CASE P!Proceed(p, "store")
      <3>1. PICK r \in P!Request :
              /\ req' = [req EXCEPT ![p] = r]
              /\ r.pc = "store" /\ r.grant = req[p].grant /\ r.auth = req[p].auth
        BY <1>3, <2>2, Proceeded DEF P!CheckConsent
      <3>2. P!TypeOK'
        BY <1>0, <1>3, <3>1 DEF P!CheckConsent, P!TypeOK
      <3>3. OneHolder'
        BY <1>0, <1>3, <3>1 DEF P!CheckConsent, OneHolder, CodeHolder
      <3>4. QED
        BY <3>2, <3>3
    <2>3. QED
      BY <1>3, <2>1, <2>2 DEF P!CheckConsent
  <1>4. ASSUME NEW p \in Proc, P!StoreCode(p)
        PROVE  CodeInv'
    <2> DEFINE a == [req[p].auth EXCEPT !.createdAt = now]
    <2>1. req[p].auth \in P!Authorization
      BY <1>4 DEF P!StoreCode, P!TypeOK, P!Request, P!Idle
    <2>2. a \in P!Authorization /\ a.client = req[p].auth.client /\ a.redirect = req[p].auth.redirect
      BY <1>0, <2>1 DEF P!Authorization
    <2>3. codes' = P!Put(codes, req[p].grant, a) /\ req' = [req EXCEPT ![p] = P!Idle]
      BY <1>4 DEF P!StoreCode, P!Finish
    <2> HIDE DEF a
    <2>4. req[p].grant \in Id /\ req[p].grant < nextId
      BY <1>0, <1>4 DEF P!StoreCode, OneHolder, CodeHolder
    <2>5. /\ DOMAIN codes' = DOMAIN codes \cup {req[p].grant} /\ codes'[req[p].grant] = a
          /\ \A x \in DOMAIN codes : x # req[p].grant => codes'[x] = codes[x]
      BY <2>3 DEF P!Put
    <2> codes' \in [DOMAIN codes' -> P!Authorization]
      BY <2>2, <2>3, <2>5, PutType DEF P!TypeOK
    <2> UNCHANGED <<pending, now, nextId, issued>>
      BY <1>4 DEF P!StoreCode
    <2>6. P!TypeOK'
      <3>1. DOMAIN codes' \subseteq 1 .. nextId - 1
        BY <1>0, <2>4, <2>5, ParameterAssumption DEF P!TypeOK, Id
      <3>2. QED
        BY <1>0, <2>3, <3>1 DEF P!TypeOK
    <2>7. OneHolder'
      <3>1. req[p].pc # "idle" /\ CodeHolder(p)
        BY <1>4 DEF P!StoreCode, OneHolder
      <3>2. \A q \in Proc : req'[q].pc # "idle" => q # p /\ req'[q] = req[q] /\ CodeHolder(q)'
        BY <1>0, <2>3, <2>5, <3>1 DEF OneHolder, CodeHolder
      <3>3. \A n \in DOMAIN codes' :
               issued'[n] = 0 /\ <<codes'[n].client, codes'[n].redirect>> \in Registered
        BY <2>2, <2>5, <3>1 DEF OneHolder, CodeHolder
      <3>4. \A n \in DOMAIN pending : n \notin DOMAIN codes'
        BY <2>5, <3>1 DEF OneHolder, CodeHolder
      <3>5. QED
        BY <1>0, <3>2, <3>3, <3>4 DEF OneHolder
    <2>8. QED
      BY <2>6, <2>7
  <1>5. ASSUME NEW p \in Proc, NEW n \in Id, NEW uri \in Uri, NEW v \in Verifier \cup {Empty},
               P!Exchange(p, n, uri, v)
        PROVE  CodeInv'
    <2>1. codes' = [x \in DOMAIN codes \ {n} |-> codes[x]]
      BY <1>5, DropIs DEF P!Exchange, P!TakeCode
    <2> DEFINE r == P!Holding(n, codes[n], "verify", uri, v)
    <2>2. r \in P!Request
      BY <1>5 DEF P!Exchange, P!TypeOK, P!Holding, P!Request, P!Id, Id
    <2>3. req[p].pc = "idle" /\ req' = [req EXCEPT ![p] = r]
      BY <1>5 DEF P!Exchange, P!Arrive, P!Free
    <2>4. r.pc = "verify" /\ r.grant = n /\ r.auth = codes[n]
      BY DEF P!Holding
    <2> HIDE DEF r
    <2>5. P!TypeOK'
      BY <1>0, <1>5, <2>1, <2>2, <2>3 DEF P!Exchange, P!TypeOK
    <2>6. OneHolder'
      BY <1>0, <1>5, <2>1, <2>2, <2>3, <2>4 DEF P!Exchange, OneHolder, CodeHolder
    <2>7. QED
      BY <2>5, <2>6
  <1>6. ASSUME NEW p \in Proc, P!Verify(p)
        PROVE  CodeInv'
    <2>1. CASE P!Finish(p)
      <3>1. P!TypeOK'
        BY <1>0, <1>6, <2>1 DEF P!Verify, P!Finish, P!TypeOK
      <3>2. OneHolder'
        BY <1>0, <1>6, <2>1 DEF P!Verify, P!Finish, OneHolder, CodeHolder
      <3>3. QED
        BY <3>1, <3>2
    <2>2. CASE /\ P!Verified(req[p].auth, req[p].redirect, req[p].verifier)
               /\ P!Proceed(p, "issue")
      <3>1. PICK r \in P!Request :
              /\ req' = [req EXCEPT ![p] = r]
              /\ r.pc = "issue" /\ r.grant = req[p].grant /\ r.auth = req[p].auth
              /\ r.redirect = req[p].redirect /\ r.verifier = req[p].verifier
        BY <1>6, <2>2, Proceeded DEF P!Verify
      <3>2. P!TypeOK'
        BY <1>0, <1>6, <3>1 DEF P!Verify, P!TypeOK
      <3>3. OneHolder'
        BY <1>0, <1>6, <2>2, <3>1 DEF P!Verify, P!Verified, OneHolder, CodeHolder
      <3>4. QED
        BY <3>2, <3>3
    <2>3. QED
      BY <1>6, <2>1, <2>2 DEF P!Verify
  <1>7. ASSUME NEW p \in Proc, P!Issue(p)
        PROVE  CodeInv'
    <2>1. req' = [req EXCEPT ![p] = P!Idle] /\ req[p].grant \in Id
      BY <1>0, <1>7 DEF P!Issue, P!Finish
    <2>2. P!TypeOK'
      BY <1>0, <1>7, <2>1 DEF P!Issue, P!TypeOK, P!Id, Id
    <2>3. issued[req[p].grant] = 0 /\ req[p].grant < nextId
      BY <1>7 DEF P!Issue, OneHolder, CodeHolder
    <2>4. /\ issued'[req[p].grant] = 1
          /\ \A n \in Id : n # req[p].grant => issued'[n] = issued[n]
      BY <1>0, <1>7, <2>1, <2>3 DEF P!Issue
    <2>5. UNCHANGED <<pending, codes, nextId>> /\ P!Idle.pc = "idle" /\ req[p].pc # "idle"
      BY <1>7 DEF P!Issue, P!Idle
    <2>6. \A q \in Proc : req'[q].pc # "idle" => q # p /\ req'[q] = req[q] /\ CodeHolder(q)'
      BY <1>0, <2>1, <2>4, <2>5 DEF OneHolder, CodeHolder
    <2>7. \A n \in DOMAIN pending \cup DOMAIN codes : issued'[n] = issued[n]
      BY <1>0, <2>3, <2>4, <2>5 DEF OneHolder, CodeHolder
    <2>8. OneHolder'
      BY <1>0, <2>3, <2>4, <2>5, <2>6, <2>7 DEF OneHolder
    <2>9. QED
      BY <2>2, <2>8
  <1>8. CASE P!Cleanup
    <2>1. PICK S : codes' = [n \in DOMAIN codes \ S |-> codes[n]]
      BY <1>8, DropIs DEF P!Cleanup
    <2>2. P!TypeOK'
      BY <1>0, <1>8, <2>1 DEF P!Cleanup, P!TypeOK
    <2>3. OneHolder'
      BY <1>0, <1>8, <2>1 DEF P!Cleanup, OneHolder, CodeHolder
    <2>4. QED
      BY <2>2, <2>3
  <1>9. CASE P!Tick
    BY <1>0, <1>9 DEF P!Tick, P!TypeOK, OneHolder, CodeHolder
  <1>10. CASE \E p \in Proc : \E n \in Id :
                \/ \E action \in {"approve", "deny"} : P!Consent(p, n, action)
                \/ \E uri \in Uri, v \in Verifier \cup {Empty} : P!Exchange(p, n, uri, v)
    BY <1>2, <1>5, <1>10
  <1>11. CASE \E p \in Proc : P!CheckConsent(p) \/ P!StoreCode(p) \/ P!Verify(p) \/ P!Issue(p)
    BY <1>3, <1>4, <1>6, <1>7, <1>11
  <1>12. QED
    BY <1>1, <1>8, <1>9, <1>10, <1>11 DEF P!Next, P!Id, Id

\* The life of a code, without counting: no two requests hold it.
CodeClaimed(n) ==
    \E p \in Proc : /\ req[p].pc # "idle" /\ req[p].grant = n
                    /\ \/ req[p].pc = "issue"
                       \/ req[p].pc = "verify" /\ ~P!Expired(req[p].auth)
CodeApproved(n) ==
    \E p \in Proc : /\ req[p].pc # "idle" /\ req[p].grant = n
                    /\ \/ req[p].pc = "store"
                       \/ req[p].pc = "check" /\ ~P!Expired(req[p].auth)

CodeStage(n) ==
    IF n >= nextId THEN "unissued"
    ELSE IF issued[n] = 1 THEN "spent"
    ELSE IF CodeClaimed(n) THEN "claimed"
    ELSE IF CodeApproved(n) \/ (n \in DOMAIN codes /\ ~P!Expired(codes[n])) THEN "ready"
    ELSE IF n \in DOMAIN pending /\ ~P!Expired(pending[n]) THEN "pending"
    ELSE "void"

LEMMA CardinalityIs == ASSUME NEW S PROVE P!Cardinality(S) = Cardinality(S)
  BY DEF P!Cardinality, Cardinality

LEMMA CodePhase == CodeInv => \A n \in Id : P!PhaseOf(n) = CodeStage(n)
  <1> SUFFICES ASSUME CodeInv, NEW n \in Id PROVE P!PhaseOf(n) = CodeStage(n)
    OBVIOUS
  <1>1. /\ P!Claims(n) # {} <=> CodeClaimed(n)
        /\ P!Approvals(n) # {} <=> CodeApproved(n)
    BY DEF P!Claims, P!Approvals, P!At, P!Fresh, CodeClaimed, CodeApproved
  <1>2. CodeClaimed(n) => issued[n] = 0 /\ \E p \in Proc : P!Claims(n) = {p}
    <2> SUFFICES ASSUME NEW p \in Proc, p \in P!Claims(n)
                 PROVE  issued[n] = 0 /\ P!Claims(n) = {p}
      BY <1>1 DEF P!Claims, P!At, P!Fresh
    <2>1. \A q \in P!Claims(n) : q \in Proc /\ req[q].pc # "idle" /\ req[q].grant = n
      BY DEF P!Claims, P!At, P!Fresh
    <2>2. QED
      BY <2>1 DEF CodeInv, OneHolder, CodeHolder
  <1>3. Cardinality(P!Claims(n)) = IF CodeClaimed(n) THEN 1 ELSE 0
    BY <1>1, <1>2, FS_EmptySet, FS_Singleton
  <1>4. P!Uses(n) = (IF CodeClaimed(n) THEN 1 ELSE 0) + issued[n] /\ issued[n] \in {0, 1}
    BY <1>3, CardinalityIs DEF P!Uses, CodeInv, OneHolder
  <1>5. CASE n >= nextId
    <2>1. \A p \in Proc : req[p].pc # "idle" => req[p].grant < nextId
      BY DEF CodeInv, OneHolder, CodeHolder
    <2>2. ~CodeClaimed(n) /\ issued[n] = 0
      BY <1>5, <2>1 DEF CodeClaimed, CodeInv, OneHolder, P!TypeOK, Id
    <2>3. P!Uses(n) = 0
      BY <1>4, <2>2
    <2>4. QED
      BY <1>5, <2>3 DEF P!PhaseOf, CodeStage
  <1>6. CASE ~(n >= nextId) /\ CodeClaimed(n)
    <2>1. P!Uses(n) = 1 /\ issued[n] = 0 /\ P!Claims(n) # {}
      BY <1>1, <1>2, <1>4, <1>6
    <2>2. QED
      BY <1>6, <2>1 DEF P!PhaseOf, CodeStage
  <1>7. CASE ~(n >= nextId) /\ ~CodeClaimed(n) /\ issued[n] = 1
    <2>1. P!Uses(n) = 1 /\ P!Claims(n) = {}
      BY <1>1, <1>4, <1>7
    <2>2. QED
      BY <1>7, <2>1 DEF P!PhaseOf, CodeStage
  <1>8. CASE ~(n >= nextId) /\ ~CodeClaimed(n) /\ issued[n] = 0
    <2>1. P!Uses(n) = 0
      BY <1>4, <1>8
    <2>2. QED
      BY <1>1, <1>8, <2>1 DEF P!PhaseOf, CodeStage
  <1>9. QED
    BY <1>4, <1>5, <1>6, <1>7, <1>8

LEMMA CodeMoves == CodeInv /\ P!Next => \A n \in Id : Moves(CodeStage(n), CodeStage(n)')
  <1> SUFFICES ASSUME CodeInv, P!Next, NEW n \in Id PROVE Moves(CodeStage(n), CodeStage(n)')
    OBVIOUS
  <1> DEFINE Goal == Moves(CodeStage(n), CodeStage(n)')
  <1> USE ParameterAssumption DEF CodeInv, OneHolder, CodeHolder
  <1> USE DEF P!Expired
  <1>0. /\ req \in [Proc -> P!Request] /\ P!Idle.pc = "idle"
        /\ n \in Nat /\ nextId \in Nat
    BY DEF P!TypeOK, P!Idle, Id
  <1>1. ASSUME NEW c \in Client, NEW uri \in Uri, NEW ch \in Verifier \cup {Empty},
               P!Authorize(c, uri, ch)
        PROVE  Goal
    <2> DEFINE a == [client |-> c, redirect |-> uri, challenge |-> ch, createdAt |-> now]
    <2>1. /\ a.createdAt = now /\ now \in Nat /\ pending' = P!Put(pending, nextId, a)
          /\ nextId' = nextId + 1 /\ UNCHANGED <<codes, req, now, issued>>
      BY <1>1 DEF P!Authorize, P!GenerateCode, P!TypeOK
    <2> HIDE DEF a
    <2>2. /\ DOMAIN pending' = DOMAIN pending \cup {nextId} /\ pending'[nextId] = a
          /\ \A x \in DOMAIN pending : x # nextId => pending'[x] = pending[x]
      BY <2>1 DEF P!Put
    <2>3. \A x \in DOMAIN codes : x < nextId
      BY <1>0 DEF P!TypeOK
    <2>4. CASE n = nextId
      <3>1. CodeStage(n) = "unissued"
        BY <1>0, <2>4 DEF CodeStage
      <3>2. \A p \in Proc : req[p].pc # "idle" => req[p].grant # n
        <4>1. \A p \in Proc : req[p].pc # "idle" => req[p].grant < nextId
          OBVIOUS
        <4>2. QED
          BY <1>0, <2>4, <4>1
      <3>3. ~CodeClaimed(n)' /\ ~CodeApproved(n)' /\ n \notin DOMAIN codes' /\ issued'[n] = 0
        BY <1>0, <2>1, <2>3, <2>4, <3>2 DEF CodeClaimed, CodeApproved
      <3>4. CodeStage(n)' = "pending"
        BY <1>0, <2>1, <2>2, <2>4, <3>3 DEF CodeStage
      <3>5. QED
        BY <3>1, <3>4 DEF Moves, Grants!Step
    <2>5. CASE n # nextId
      BY <1>0, <2>1, <2>2, <2>5 DEF CodeStage, CodeClaimed, CodeApproved, Moves, Grants!Step
    <2>6. QED
      BY <2>4, <2>5
  <1>2. ASSUME NEW p \in Proc, NEW k \in Id, NEW action, P!Consent(p, k, action)
        PROVE  Goal
    <2>1. pending' = [x \in DOMAIN pending \ {k} |-> pending[x]]
      BY <1>2, DropIs DEF P!Consent, P!TakeConsent
    <2>2. CASE UNCHANGED req
      BY <1>0, <1>2, <2>1, <2>2 DEF P!Consent, CodeStage, CodeClaimed, CodeApproved, Moves, Grants!Step
    <2>3. CASE req[p].pc = "idle" /\ req' = [req EXCEPT ![p] = P!Holding(k, pending[k], "check", Empty, Empty)]
      BY <1>0, <1>2, <2>1, <2>3 DEF P!Consent, P!Holding, CodeStage, CodeClaimed, CodeApproved, Moves, Grants!Step
    <2>4. QED
      BY <1>2, <2>2, <2>3 DEF P!Consent, P!Arrive, P!Free
  <1>3. ASSUME NEW p \in Proc, P!CheckConsent(p)
        PROVE  Goal
    <2>1. CASE P!Expired(req[p].auth) /\ P!Finish(p)
      BY <1>0, <1>3, <2>1 DEF P!CheckConsent, P!Finish, CodeStage, CodeClaimed, CodeApproved, Moves, Grants!Step
    <2>2. CASE ~P!Expired(req[p].auth) /\ P!Proceed(p, "store")
      <3>1. PICK r \in P!Request :
              /\ req' = [req EXCEPT ![p] = r]
              /\ r.pc = "store" /\ r.grant = req[p].grant /\ r.auth = req[p].auth
        BY <1>3, <2>2, Proceeded DEF P!CheckConsent
      <3>2. QED
        BY <1>0, <1>3, <2>2, <3>1 DEF P!CheckConsent, CodeStage, CodeClaimed, CodeApproved, Moves, Grants!Step
    <2>3. QED
      BY <1>3, <2>1, <2>2 DEF P!CheckConsent
  <1>4. ASSUME NEW p \in Proc, P!StoreCode(p)
        PROVE  Goal
    <2> DEFINE a == [req[p].auth EXCEPT !.createdAt = now]
    <2>1. req[p].pc = "store" /\ a.createdAt = now /\ now \in Nat
      BY <1>4 DEF P!StoreCode, P!TypeOK, P!Request, P!Idle, P!Authorization
    <2>2. codes' = P!Put(codes, req[p].grant, a) /\ req' = [req EXCEPT ![p] = P!Idle]
          /\ UNCHANGED <<pending, now, nextId, issued>>
      BY <1>4 DEF P!StoreCode, P!Finish
    <2> HIDE DEF a
    <2>3. /\ DOMAIN codes' = DOMAIN codes \cup {req[p].grant} /\ codes'[req[p].grant] = a
          /\ \A x \in DOMAIN codes : x # req[p].grant => codes'[x] = codes[x]
      BY <2>2 DEF P!Put
    <2>4. QED
      BY <1>0, <2>1, <2>2, <2>3 DEF CodeStage, CodeClaimed, CodeApproved, Moves, Grants!Step
  <1>5. ASSUME NEW p \in Proc, NEW k \in Id, NEW uri, NEW v, P!Exchange(p, k, uri, v)
        PROVE  Goal
    <2>1. codes' = [x \in DOMAIN codes \ {k} |-> codes[x]]
      BY <1>5, DropIs DEF P!Exchange, P!TakeCode
    <2>2. req[p].pc = "idle" /\ req' = [req EXCEPT ![p] = P!Holding(k, codes[k], "verify", uri, v)]
      BY <1>5 DEF P!Exchange, P!Arrive, P!Free
    <2>3. QED
      BY <1>0, <1>5, <2>1, <2>2 DEF P!Exchange, P!Holding, CodeStage, CodeClaimed, CodeApproved, Moves, Grants!Step
  <1>6. ASSUME NEW p \in Proc, P!Verify(p)
        PROVE  Goal
    <2>1. CASE P!Finish(p)
      <3>1. /\ req[p].pc = "verify" /\ req' = [req EXCEPT ![p] = P!Idle]
            /\ UNCHANGED <<pending, codes, now, nextId, issued>>
        BY <1>6, <2>1 DEF P!Verify, P!Finish
      <3>2. CASE n = req[p].grant
        BY <1>0, <3>1, <3>2 DEF CodeStage, CodeClaimed, CodeApproved, Moves, Grants!Step
      <3>3. CASE n # req[p].grant
        BY <1>0, <3>1, <3>3 DEF CodeStage, CodeClaimed, CodeApproved, Moves, Grants!Step
      <3>4. QED
        BY <3>2, <3>3
    <2>2. CASE ~P!Expired(req[p].auth) /\ P!Proceed(p, "issue")
      <3>1. PICK r \in P!Request :
              /\ req' = [req EXCEPT ![p] = r]
              /\ r.pc = "issue" /\ r.grant = req[p].grant /\ r.auth = req[p].auth
        BY <1>6, <2>2, Proceeded DEF P!Verify
      <3>2. QED
        BY <1>0, <1>6, <2>2, <3>1 DEF P!Verify, CodeStage, CodeClaimed, CodeApproved, Moves, Grants!Step
    <2>3. QED
      BY <1>6, <2>1, <2>2 DEF P!Verify
  <1>7. ASSUME NEW p \in Proc, P!Issue(p)
        PROVE  Goal
    <2>1. /\ req[p].pc = "issue" /\ req[p].grant \in Id /\ req' = [req EXCEPT ![p] = P!Idle]
          /\ issued' = [issued EXCEPT ![req[p].grant] = 1]
          /\ UNCHANGED <<pending, codes, now, nextId>>
      <3>1. req[p].pc = "issue" /\ req[p].grant \in Id
        BY <1>7 DEF P!Issue, P!TypeOK, P!Request, P!Idle, P!Id, Id
      <3>2. issued[req[p].grant] = 0
        BY <3>1
      <3>3. QED
        BY <1>7, <3>1, <3>2 DEF P!Issue, P!Finish
    <2>2. QED
      BY <1>0, <2>1 DEF P!TypeOK, P!Id, Id, CodeStage, CodeClaimed, CodeApproved, Moves, Grants!Step
  <1>8. CASE P!Cleanup
    BY <1>0, <1>8, DropIs DEF P!Cleanup, CodeStage, CodeClaimed, CodeApproved, Moves, Grants!Step
  <1>9. CASE P!Tick
    <2>1. UNCHANGED <<pending, codes, req, nextId, issued>> /\ now' = now + 1 /\ now \in Nat
      BY <1>9 DEF P!Tick, P!TypeOK
    <2>2. \A a \in P!Authorization : P!Expired(a) => P!Expired(a)'
      BY <2>1 DEF P!Authorization
    <2> HIDE DEF P!Expired
    <2>3. /\ \A x \in DOMAIN pending : pending[x] \in P!Authorization
          /\ \A x \in DOMAIN codes : codes[x] \in P!Authorization
          /\ \A p \in Proc : req[p].pc # "idle" => req[p].auth \in P!Authorization
      BY DEF P!TypeOK, P!Request, P!Idle
    <2>4. QED
      BY <1>0, <2>1, <2>2, <2>3 DEF CodeStage, CodeClaimed, CodeApproved, Moves, Grants!Step
  <1>10. CASE \E p \in Proc : \E k \in Id :
                \/ \E action \in {"approve", "deny"} : P!Consent(p, k, action)
                \/ \E uri \in Uri, v \in Verifier \cup {Empty} : P!Exchange(p, k, uri, v)
    BY <1>2, <1>5, <1>10
  <1>11. CASE \E p \in Proc : P!CheckConsent(p) \/ P!StoreCode(p) \/ P!Verify(p) \/ P!Issue(p)
    BY <1>3, <1>4, <1>6, <1>7, <1>11
  <1> HIDE DEF Goal
  <1>12. QED
    BY <1>1, <1>8, <1>9, <1>10, <1>11, Zenon DEF P!Next, P!Id, Id, Goal

-----------------------------------------------------------------------------
(* Backchannel requests *)

\* A request is in the map or one poll issues for it, and neither once the
\* issuer has been called.
OneTaker ==
    /\ \A n \in DOMAIN backchannel : issued[n] = 0 /\ \A p \in Proc : issuing[p] # n
    /\ \A p \in Proc : issuing[p] # 0 => issued[issuing[p]] = 0 /\ issuing[p] < nextId
    /\ \A p, q \in Proc : issuing[p] # 0 /\ issuing[p] = issuing[q] => p = q
    /\ \A n \in Id : issued[n] \in {0, 1} /\ (n >= nextId => issued[n] = 0)

BackchannelInv == C!TypeOK /\ OneTaker

LEMMA BackchannelInit == C!Init => BackchannelInv
  BY ParameterAssumption
  DEF C!Init, BackchannelInv, OneTaker, C!TypeOK, C!EmptyMap, C!NoRequest, C!Id, Id

\* Approve sets one flag of one request.
LEMMA Answered ==
    ASSUME C!TypeOK, NEW n, NEW action, C!Approve(n, action)
    PROVE  \E a \in C!AuthRequest :
              /\ n \in DOMAIN backchannel
              /\ backchannel' = [backchannel EXCEPT ![n] = a]
              /\ a.expiresAt = backchannel[n].expiresAt
              /\ backchannel[n].denied => a.denied
              /\ backchannel[n].approved => a.approved
  <1> DEFINE o == backchannel[n]
             a == IF action = "deny" THEN [o EXCEPT !.denied = TRUE]
                                     ELSE [o EXCEPT !.approved = TRUE]
  <1>1. backchannel' = [backchannel EXCEPT ![n] = a] /\ n \in DOMAIN backchannel
    BY DEF C!Approve
  <1>2. o \in C!AuthRequest
    BY <1>1 DEF C!TypeOK
  <1> HIDE DEF o
  <1>3. /\ a \in C!AuthRequest /\ a.expiresAt = o.expiresAt
        /\ o.denied => a.denied
        /\ o.approved => a.approved
    BY <1>2 DEF C!AuthRequest
  <1> HIDE DEF a
  <1>4. QED
    BY <1>1, <1>3 DEF o

LEMMA BackchannelKept == BackchannelInv /\ C!Next => BackchannelInv'
  <1> SUFFICES ASSUME BackchannelInv, C!Next PROVE BackchannelInv'
    OBVIOUS
  <1> USE ParameterAssumption DEF BackchannelInv, C!NoRequest, C!Id, Id
  <1>1. CASE C!Initiate
    <2> DEFINE a == [expiresAt |-> now + TTL, approved |-> FALSE, denied |-> FALSE]
    <2>1. /\ a \in C!AuthRequest /\ nextId \in Id /\ backchannel' = C!Put(backchannel, nextId, a)
          /\ nextId' = nextId + 1 /\ UNCHANGED <<issuing, now, issued>>
      BY <1>1 DEF C!Initiate, C!DrawId, C!TypeOK, C!AuthRequest
    <2> HIDE DEF a
    <2>2. /\ DOMAIN backchannel' = DOMAIN backchannel \cup {nextId}
          /\ backchannel' \in [DOMAIN backchannel' -> C!AuthRequest]
      BY <2>1 DEF C!Put, C!TypeOK
    <2>3. C!TypeOK'
      BY <2>1, <2>2 DEF C!TypeOK
    <2>4. OneTaker'
      BY <2>1, <2>2 DEF C!TypeOK, OneTaker
    <2>5. QED
      BY <2>3, <2>4
  <1>2. ASSUME NEW p \in Proc, NEW n \in Id, C!PollDenied(p, n) \/ C!PollApproved(p, n)
        PROVE  BackchannelInv'
    <2>1. /\ n \in DOMAIN backchannel /\ issuing[p] = 0
          /\ backchannel' = [x \in DOMAIN backchannel \ {n} |-> backchannel[x]]
          /\ issuing' = issuing \/ issuing' = [issuing EXCEPT ![p] = n]
          /\ UNCHANGED <<now, nextId, issued>>
      BY <1>2 DEF C!PollDenied, C!PollApproved, C!Delete, C!Drop, C!Restrict
    <2>2. C!TypeOK'
      BY <2>1 DEF C!TypeOK
    <2>3. OneTaker'
      <3>1. CASE issuing' = issuing
        BY <2>1, <3>1 DEF C!TypeOK, OneTaker
      <3>2. CASE issuing' = [issuing EXCEPT ![p] = n]
        <4>1. n < nextId /\ issued[n] = 0 /\ n \notin DOMAIN backchannel'
          BY <2>1 DEF C!TypeOK, OneTaker
        <4>2. \A q \in Proc : q # p => issuing'[q] = issuing[q] /\ issuing[q] # n
          BY <2>1, <3>2 DEF C!TypeOK, OneTaker
        <4>3. issuing'[p] = n
          BY <3>2 DEF C!TypeOK
        <4>4. \A x \in DOMAIN backchannel' :
                 issued'[x] = 0 /\ \A q \in Proc : issuing'[q] # x
          BY <2>1, <4>1, <4>2, <4>3 DEF OneTaker
        <4>5. \A q \in Proc : issuing'[q] # 0 => issued'[issuing'[q]] = 0 /\ issuing'[q] < nextId'
          BY <2>1, <4>1, <4>2, <4>3 DEF OneTaker
        <4>6. \A q, o \in Proc : issuing'[q] # 0 /\ issuing'[q] = issuing'[o] => q = o
          BY <2>1, <4>2, <4>3 DEF OneTaker
        <4>7. QED
          BY <2>1, <4>4, <4>5, <4>6 DEF OneTaker
      <3>3. QED
        BY <2>1, <3>1, <3>2
    <2>4. QED
      BY <2>2, <2>3
  <1>3. ASSUME NEW p \in Proc, C!Issue(p)
        PROVE  BackchannelInv'
    <2>1. issuing[p] # 0 /\ issuing[p] \in Id /\ issued[issuing[p]] = 0
      BY <1>3 DEF C!Issue, C!TypeOK, OneTaker
    <2>2. /\ issued' = [issued EXCEPT ![issuing[p]] = 1]
          /\ issuing' = [issuing EXCEPT ![p] = 0]
          /\ UNCHANGED <<backchannel, now, nextId>>
      BY <1>3, <2>1 DEF C!Issue
    <2>3. C!TypeOK'
      BY <2>1, <2>2 DEF C!TypeOK
    <2>4. OneTaker'
      BY <2>1, <2>2 DEF C!TypeOK, OneTaker
    <2>5. QED
      BY <2>3, <2>4
  <1>4. ASSUME NEW n \in Id, NEW action, C!Approve(n, action)
        PROVE  BackchannelInv'
    <2>1. /\ backchannel' \in [DOMAIN backchannel -> C!AuthRequest]
          /\ DOMAIN backchannel' = DOMAIN backchannel
      BY <1>4, Answered DEF C!TypeOK
    <2>2. QED
      BY <1>4, <2>1 DEF C!Approve, C!TypeOK, OneTaker
  <1>5. CASE C!Tick
    BY <1>5 DEF C!Tick, C!TypeOK, OneTaker
  <1>6. QED
    BY <1>1, <1>2, <1>3, <1>4, <1>5 DEF C!Next

\* The life of a backchannel request, without counting.
BackchannelStage(n) ==
    IF n >= nextId THEN "unissued"
    ELSE IF issued[n] = 1 THEN "spent"
    ELSE IF \E p \in Proc : issuing[p] = n THEN "claimed"
    ELSE IF n \notin DOMAIN backchannel \/ C!Expired(n) \/ C!Denied(n) THEN "void"
    ELSE IF C!Approved(n) THEN "ready" ELSE "pending"

LEMMA BackchannelPhase ==
    BackchannelInv => \A n \in Id : C!PhaseOf(n) = BackchannelStage(n)
  <1> SUFFICES ASSUME BackchannelInv, NEW n \in Id PROVE C!PhaseOf(n) = BackchannelStage(n)
    OBVIOUS
  <1> DEFINE taken == \E p \in Proc : issuing[p] = n
  <1>0. /\ n \in Int /\ n # 0 /\ nextId \in Int /\ issued[n] \in {0, 1}
        /\ n >= nextId => issued[n] = 0 /\ ~taken
        /\ issued[n] = 1 => ~taken
    BY ParameterAssumption DEF BackchannelInv, OneTaker, C!TypeOK, Id
  <1>1. C!Claims(n) # {} <=> taken
    BY DEF C!Claims
  <1>2. taken => \E p \in Proc : C!Claims(n) = {p}
    BY <1>0 DEF C!Claims, BackchannelInv, OneTaker
  <1>3. C!Cardinality(C!Claims(n)) = IF taken THEN 1 ELSE 0
    <2>1. C!Cardinality(C!Claims(n)) = Cardinality(C!Claims(n))
      BY DEF C!Cardinality, Cardinality
    <2>2. QED
      BY <1>1, <1>2, <2>1, FS_EmptySet, FS_Singleton
  <1> HIDE DEF taken
  <1>4. CASE n >= nextId
    BY <1>0, <1>1, <1>3, <1>4 DEF C!PhaseOf, BackchannelStage
  <1>5. CASE ~(n >= nextId) /\ issued[n] = 1
    BY <1>0, <1>1, <1>3, <1>5 DEF C!PhaseOf, BackchannelStage
  <1>6. CASE ~(n >= nextId) /\ issued[n] = 0 /\ taken
    BY <1>0, <1>1, <1>3, <1>6 DEF C!PhaseOf, BackchannelStage, taken
  <1>7. CASE ~(n >= nextId) /\ issued[n] = 0 /\ ~taken
    BY <1>0, <1>1, <1>3, <1>7 DEF C!PhaseOf, BackchannelStage, taken
  <1>8. QED
    BY <1>0, <1>4, <1>5, <1>6, <1>7

LEMMA BackchannelMoves ==
    BackchannelInv /\ C!Next =>
        \A n \in Id : Moves(BackchannelStage(n), BackchannelStage(n)')
  <1> SUFFICES ASSUME BackchannelInv, C!Next, NEW n \in Id
               PROVE  Moves(BackchannelStage(n), BackchannelStage(n)')
    OBVIOUS
  <1> DEFINE Goal == Moves(BackchannelStage(n), BackchannelStage(n)')
  <1> USE ParameterAssumption DEF BackchannelInv, C!NoRequest, C!Expired, C!Denied, C!Approved
  <1>0. /\ n \in Nat /\ n # 0 /\ nextId \in Nat /\ now \in Nat
        /\ \A x \in DOMAIN backchannel : x < nextId
        /\ issuing \in [Proc -> C!Id \cup {0}]
    BY DEF C!TypeOK, Id
  <1>1. CASE C!Initiate
    <2> DEFINE a == [expiresAt |-> now + TTL, approved |-> FALSE, denied |-> FALSE]
    <2>1. /\ ~(now > a.expiresAt) /\ ~a.approved /\ ~a.denied
          /\ backchannel' = C!Put(backchannel, nextId, a)
          /\ nextId' = nextId + 1 /\ UNCHANGED <<issuing, now, issued>>
      BY <1>0, <1>1 DEF C!Initiate, C!DrawId
    <2> HIDE DEF a
    <2>2. /\ DOMAIN backchannel' = DOMAIN backchannel \cup {nextId}
          /\ backchannel'[nextId] = a
          /\ \A x \in DOMAIN backchannel : x # nextId => backchannel'[x] = backchannel[x]
      BY <2>1 DEF C!Put
    <2>3. CASE n = nextId
      <3>1. BackchannelStage(n) = "unissued"
        BY <1>0, <2>3 DEF BackchannelStage
      <3>2. \A p \in Proc : issuing'[p] # n
        BY <1>0, <2>1, <2>3 DEF OneTaker
      <3>3. issued'[n] = 0
        BY <1>0, <2>1, <2>3 DEF OneTaker
      <3>4. BackchannelStage(n)' = "pending"
        BY <1>0, <2>1, <2>2, <2>3, <3>2, <3>3 DEF BackchannelStage
      <3>5. QED
        BY <3>1, <3>4 DEF Moves, Grants!Step
    <2>4. CASE n # nextId
      BY <1>0, <2>1, <2>2, <2>4 DEF BackchannelStage, Moves, Grants!Step
    <2>5. QED
      BY <2>3, <2>4
  <1>2. ASSUME NEW p \in Proc, NEW k \in Id, C!PollDenied(p, k)
        PROVE  Goal
    <2>1. /\ k \in DOMAIN backchannel /\ backchannel[k].denied
          /\ backchannel' = [x \in DOMAIN backchannel \ {k} |-> backchannel[x]]
          /\ UNCHANGED <<issuing, now, nextId, issued>>
      BY <1>2 DEF C!PollDenied, C!Delete, C!Drop, C!Restrict
    <2>2. QED
      BY <1>0, <2>1 DEF BackchannelStage, Moves, Grants!Step
  <1>3. ASSUME NEW p \in Proc, NEW k \in Id, C!PollApproved(p, k)
        PROVE  Goal
    <2>1. /\ k \in DOMAIN backchannel /\ issuing[p] = 0
          /\ ~(now > backchannel[k].expiresAt) /\ ~backchannel[k].denied /\ backchannel[k].approved
          /\ backchannel' = [x \in DOMAIN backchannel \ {k} |-> backchannel[x]]
          /\ issuing' = [issuing EXCEPT ![p] = k]
          /\ UNCHANGED <<now, nextId, issued>>
      BY <1>3 DEF C!PollApproved, C!Delete, C!Drop, C!Restrict
    <2>2. issued[k] = 0 /\ \A q \in Proc : issuing[q] # k
      BY <2>1 DEF OneTaker
    <2>3. CASE n = k
      <3>1. BackchannelStage(n) = "ready"
        BY <1>0, <2>1, <2>2, <2>3 DEF BackchannelStage
      <3>2. BackchannelStage(n)' = "claimed"
        BY <1>0, <2>1, <2>2, <2>3 DEF BackchannelStage
      <3>3. QED
        BY <3>1, <3>2 DEF Moves, Grants!Step
    <2>4. CASE n # k
      BY <1>0, <2>1, <2>4 DEF BackchannelStage, Moves, Grants!Step
    <2>5. QED
      BY <2>3, <2>4
  <1>4. ASSUME NEW p \in Proc, C!Issue(p)
        PROVE  Goal
    <2>1. issuing[p] # 0 /\ issuing[p] \in C!Id /\ issued[issuing[p]] = 0
      BY <1>4 DEF C!Issue, C!TypeOK, OneTaker
    <2>2. /\ issued' = [issued EXCEPT ![issuing[p]] = 1]
          /\ issuing' = [issuing EXCEPT ![p] = 0]
          /\ UNCHANGED <<backchannel, now, nextId>>
      BY <1>4, <2>1 DEF C!Issue
    <2>3. issued \in [C!Id -> Nat]
      BY DEF C!TypeOK
    <2>4. QED
      BY <1>0, <2>1, <2>2, <2>3 DEF OneTaker, BackchannelStage, Moves, Grants!Step
  <1>5. ASSUME NEW k \in Id, NEW action, C!Approve(k, action)
        PROVE  Goal
    <2>1. PICK a \in C!AuthRequest :
              /\ k \in DOMAIN backchannel
              /\ backchannel' = [backchannel EXCEPT ![k] = a]
              /\ a.expiresAt = backchannel[k].expiresAt
              /\ backchannel[k].denied => a.denied
              /\ backchannel[k].approved => a.approved
      BY <1>5, Answered
    <2>2. UNCHANGED <<issuing, now, nextId, issued>>
      BY <1>5 DEF C!Approve
    <2>3. QED
      BY <1>0, <2>1, <2>2 DEF BackchannelStage, Moves, Grants!Step
  <1>6. CASE C!Tick
    <2>1. UNCHANGED <<backchannel, issuing, nextId, issued>> /\ now' = now + 1
      BY <1>6 DEF C!Tick
    <2>2. n \in DOMAIN backchannel => backchannel[n].expiresAt \in Nat
      BY DEF C!TypeOK, C!AuthRequest
    <2>3. QED
      BY <1>0, <2>1, <2>2 DEF BackchannelStage, Moves, Grants!Step
  <1>7. CASE \E p \in Proc : \E k \in Id : C!PollDenied(p, k) \/ C!PollApproved(p, k)
    BY <1>2, <1>3, <1>7
  <1> HIDE DEF Goal
  <1>8. QED
    BY <1>1, <1>4, <1>5, <1>6, <1>7 DEF C!Next, C!Id, Id, Goal

-----------------------------------------------------------------------------
(* Pushed authorization requests *)

Takes(p, n) == resolving[p] # R!Nothing /\ resolving[p].uri = n

\* A request is in the map or one Resolve has it, and neither once it has been
\* handed out.
OneResolver ==
    /\ \A n \in DOMAIN pushed : issued[n] = 0 /\ \A p \in Proc : ~Takes(p, n)
    /\ \A p \in Proc : resolving[p] # R!Nothing =>
          issued[resolving[p].uri] = 0 /\ resolving[p].uri < nextId
    /\ \A n \in Id : \A p, q \in Proc : Takes(p, n) /\ Takes(q, n) => p = q
    /\ \A n \in Id : issued[n] \in {0, 1} /\ (n >= nextId => issued[n] = 0)

PushedInv == R!TypeOK /\ OneResolver

LEMMA PushedInit == R!Init => PushedInv
  BY ParameterAssumption
  DEF R!Init, PushedInv, OneResolver, Takes, R!TypeOK, R!EmptyMap, R!Nothing, R!Id, Id

LEMMA PushedKept == PushedInv /\ R!Next => PushedInv'
  <1> SUFFICES ASSUME PushedInv, R!Next PROVE PushedInv'
    OBVIOUS
  <1> USE ParameterAssumption DEF PushedInv, R!Id, Id
  <1>1. ASSUME NEW c \in Client, NEW secret, R!Push(c, secret)
        PROVE  PushedInv'
    <2> DEFINE a == [client |-> c, expiresAt |-> now + TTL]
    <2>1. /\ a \in R!Pushed /\ nextId \in Id /\ pushed' = R!Put(pushed, nextId, a)
          /\ nextId' = nextId + 1 /\ UNCHANGED <<resolving, now, issued>>
      BY <1>1 DEF R!Push, R!DrawUri, R!TypeOK, R!Pushed
    <2> HIDE DEF a
    <2>2. /\ DOMAIN pushed' = DOMAIN pushed \cup {nextId}
          /\ pushed' \in [DOMAIN pushed' -> R!Pushed]
      BY <2>1 DEF R!Put, R!TypeOK
    <2>3. R!TypeOK'
      BY <2>1, <2>2 DEF R!TypeOK
    <2>4. OneResolver'
      BY <2>1, <2>2 DEF R!TypeOK, OneResolver, Takes
    <2>5. QED
      BY <2>3, <2>4
  <1>2. ASSUME NEW p \in Proc, NEW n \in Id, R!Resolve(p, n)
        PROVE  PushedInv'
    <2> DEFINE r == [uri |-> n, req |-> pushed[n]]
    <2>1. /\ n \in DOMAIN pushed /\ resolving[p] = R!Nothing
          /\ pushed' = [x \in DOMAIN pushed \ {n} |-> pushed[x]]
          /\ resolving' = [resolving EXCEPT ![p] = r]
          /\ UNCHANGED <<now, nextId, issued>>
      BY <1>2 DEF R!Resolve, R!TakeOut, R!Drop, R!Restrict
    <2>2. r \in [uri : Id, req : R!Pushed] /\ r # R!Nothing /\ r.uri = n
      BY <2>1 DEF R!TypeOK, R!Nothing
    <2> HIDE DEF r
    <2>3. R!TypeOK'
      BY <2>1, <2>2 DEF R!TypeOK
    <2>4. n < nextId /\ issued[n] = 0 /\ \A q \in Proc : ~Takes(q, n)
      BY <2>1 DEF R!TypeOK, OneResolver
    <2>5. /\ resolving'[p] = r
          /\ \A q \in Proc : q # p => resolving'[q] = resolving[q]
      BY <2>1 DEF R!TypeOK
    <2>6. OneResolver'
      BY <2>1, <2>2, <2>4, <2>5 DEF OneResolver, Takes
    <2>7. QED
      BY <2>3, <2>6
  <1>3. ASSUME NEW p \in Proc, R!Return(p)
        PROVE  PushedInv'
    <2>1. PICK n \in Id : n = resolving[p].uri /\ issued[n] = 0 /\ n < nextId /\ Takes(p, n)
      BY <1>3 DEF R!Return, R!TypeOK, R!Nothing, OneResolver, Takes
    <2>2. /\ issued' = issued \/ issued' = [issued EXCEPT ![n] = 1]
          /\ resolving' = [resolving EXCEPT ![p] = R!Nothing]
          /\ UNCHANGED <<pushed, now, nextId>>
      BY <1>3, <2>1 DEF R!Return
    <2>3. R!TypeOK'
      <3>1. resolving' \in [Proc -> {R!Nothing} \cup [uri : Id, req : R!Pushed]]
        BY <2>2 DEF R!TypeOK
      <3>2. issued' \in [Id -> Nat]
        BY <2>1, <2>2 DEF R!TypeOK
      <3>3. QED
        BY <2>2, <3>1, <3>2 DEF R!TypeOK
    <2>4. \A q \in Proc : resolving'[q] # R!Nothing => q # p /\ resolving'[q] = resolving[q]
      BY <2>2 DEF R!TypeOK
    <2>5. \A q \in Proc : ~Takes(q, n)'
      BY <2>1, <2>4 DEF OneResolver, Takes
    <2>6. issued'[n] \in {0, 1} /\ \A x \in Id : x # n => issued'[x] = issued[x]
      BY <2>1, <2>2 DEF R!TypeOK
    <2>7. n \notin DOMAIN pushed /\ DOMAIN pushed \subseteq Id
      BY <2>1 DEF R!TypeOK, OneResolver
    <2>8. \A q \in Proc : resolving[q] # R!Nothing => resolving[q].uri \in Id
      BY DEF R!TypeOK
    <2>9. \A q \in Proc : resolving'[q] # R!Nothing => resolving'[q].uri # n
      BY <2>5 DEF Takes
    <2>10. /\ \A x \in DOMAIN pushed : issued'[x] = 0 /\ \A q \in Proc : ~Takes(q, x)'
           /\ \A q \in Proc : resolving'[q] # R!Nothing =>
                issued'[resolving'[q].uri] = 0 /\ resolving'[q].uri < nextId'
      BY <2>2, <2>4, <2>6, <2>7, <2>8, <2>9 DEF OneResolver, Takes
    <2>11. \A x \in Id : \A q, o \in Proc : Takes(q, x)' /\ Takes(o, x)' => q = o
      BY <2>4 DEF OneResolver, Takes
    <2>12. \A x \in Id : issued'[x] \in {0, 1} /\ (x >= nextId => issued'[x] = 0)
      BY <2>1, <2>6 DEF OneResolver, R!TypeOK
    <2> OneResolver'
      BY <2>2, <2>10, <2>11, <2>12 DEF OneResolver
    <2>13. QED
      BY <2>3
  <1>4. CASE R!Cleanup
    <2>1. PICK S : pushed' = [x \in DOMAIN pushed \ S |-> pushed[x]]
      BY <1>4 DEF R!Cleanup, R!Drop, R!Restrict
    <2>2. UNCHANGED <<resolving, now, nextId, issued>>
      BY <1>4 DEF R!Cleanup
    <2>3. R!TypeOK'
      BY <2>1, <2>2 DEF R!TypeOK
    <2>4. OneResolver'
      BY <2>1, <2>2 DEF OneResolver, Takes
    <2>5. QED
      BY <2>3, <2>4
  <1>5. CASE R!Tick
    BY <1>5 DEF R!Tick, R!TypeOK, OneResolver, Takes
  <1>6. QED
    BY <1>1, <1>2, <1>3, <1>4, <1>5 DEF R!Next

\* The life of a pushed request, without counting.
PushedStage(n) ==
    IF n >= nextId THEN "unissued"
    ELSE IF issued[n] = 1 THEN "spent"
    ELSE IF \E p \in Proc : Takes(p, n) /\ ~R!Expired(resolving[p].req) THEN "claimed"
    ELSE IF n \in DOMAIN pushed /\ ~R!Expired(pushed[n]) THEN "ready" ELSE "void"

LEMMA PushedPhase == PushedInv => \A n \in Id : R!PhaseOf(n) = PushedStage(n)
  <1> SUFFICES ASSUME PushedInv, NEW n \in Id PROVE R!PhaseOf(n) = PushedStage(n)
    OBVIOUS
  <1> DEFINE taken == \E p \in Proc : Takes(p, n)
  <1>0. /\ n \in Int /\ n # 0 /\ nextId \in Int /\ issued[n] \in {0, 1}
        /\ n >= nextId => issued[n] = 0
        /\ issued[n] = 1 => ~taken
        /\ taken => n \notin DOMAIN pushed
    BY ParameterAssumption DEF PushedInv, OneResolver, Takes, R!TypeOK, Id
  <1>1. R!Takers(n) = {p \in Proc : Takes(p, n)}
    BY <1>0 DEF R!Takers, Takes, R!Nothing
  <1>2. taken => \E p \in Proc : Takes(p, n) /\ R!Takers(n) = {p}
    BY <1>1 DEF PushedInv, OneResolver
  <1>3. R!Cardinality(R!Takers(n)) = IF taken THEN 1 ELSE 0
    <2>1. R!Cardinality(R!Takers(n)) = Cardinality(R!Takers(n))
      BY DEF R!Cardinality, Cardinality
    <2>2. R!Takers(n) = {} <=> ~taken
      BY <1>1
    <2>3. QED
      BY <1>2, <2>1, <2>2, FS_EmptySet, FS_Singleton
  <1>4. CASE taken
    <2>1. PICK p \in Proc : Takes(p, n) /\ R!Takers(n) = {p}
      BY <1>2, <1>4
    <2>2. R!Expires(n) <=> R!Expired(resolving[p].req)
      BY <1>0, <1>4, <2>1 DEF R!Expires
    <2>3. (\E q \in Proc : Takes(q, n) /\ ~R!Expired(resolving[q].req))
             <=> ~R!Expired(resolving[p].req)
      BY <1>1, <2>1
    <2>4. R!Cardinality(R!Takers(n)) = 1 /\ R!Takers(n) # {} /\ issued[n] = 0 /\ n \notin DOMAIN pushed
      BY <1>0, <1>3, <1>4, <2>1
    <2>5. QED
      BY <1>0, <2>2, <2>3, <2>4 DEF R!PhaseOf, PushedStage
  <1>5. CASE ~taken
    <2>1. R!Takers(n) = {}
      BY <1>1, <1>5
    <2>2. R!Expires(n) <=> ~(n \in DOMAIN pushed /\ ~R!Expired(pushed[n]))
      BY <2>1 DEF R!Expires
    <2>3. R!Cardinality(R!Takers(n)) = 0 /\ R!Cardinality({}) = 0
      BY <1>3, <1>5, <2>1
    <2>4. ~\E q \in Proc : Takes(q, n) /\ ~R!Expired(resolving[q].req)
      BY <1>5
    <2>5. CASE n >= nextId
      BY <2>5 DEF R!PhaseOf, PushedStage
    <2>6. CASE ~(n >= nextId) /\ issued[n] = 1
      BY <1>0, <2>3, <2>6 DEF R!PhaseOf, PushedStage
    <2>7. CASE ~(n >= nextId) /\ issued[n] = 0
      <3>1. R!PhaseOf(n) = IF R!Expires(n) THEN "void" ELSE "ready"
        <4>1. ~(R!Cardinality(R!Takers(n)) + issued[n] > 1) /\ ~(issued[n] = 1)
          BY <2>3, <2>7
        <4>2. QED
          BY <2>1, <2>7, <4>1, Zenon DEF R!PhaseOf
      <3>2. PushedStage(n) = IF n \in DOMAIN pushed /\ ~R!Expired(pushed[n]) THEN "ready" ELSE "void"
        BY <2>4, <2>7 DEF PushedStage
      <3>3. QED
        BY <2>2, <3>1, <3>2
    <2>8. QED
      BY <1>0, <2>5, <2>6, <2>7
  <1>6. QED
    BY <1>4, <1>5

LEMMA PushedMoves ==
    PushedInv /\ R!Next => \A n \in Id : Moves(PushedStage(n), PushedStage(n)')
  <1> SUFFICES ASSUME PushedInv, R!Next, NEW n \in Id
               PROVE  Moves(PushedStage(n), PushedStage(n)')
    OBVIOUS
  <1> DEFINE Goal == Moves(PushedStage(n), PushedStage(n)')
  <1> USE ParameterAssumption DEF PushedInv, R!Expired
  <1>0. /\ n \in Nat /\ nextId \in Nat /\ now \in Nat
        /\ \A x \in DOMAIN pushed : x < nextId /\ pushed[x].expiresAt \in Nat
        /\ \A p \in Proc : resolving[p] # R!Nothing =>
               resolving[p].uri \in Id /\ resolving[p].req.expiresAt \in Nat
        /\ DOMAIN resolving = Proc /\ issued \in [Id -> Nat]
    BY DEF R!TypeOK, R!Pushed, R!Id, Id
  <1>1. ASSUME NEW c \in Client, NEW secret, R!Push(c, secret)
        PROVE  Goal
    <2> DEFINE a == [client |-> c, expiresAt |-> now + TTL]
    <2>1. /\ ~(now > a.expiresAt) /\ pushed' = R!Put(pushed, nextId, a)
          /\ nextId' = nextId + 1 /\ UNCHANGED <<resolving, now, issued>>
      BY <1>0, <1>1 DEF R!Push, R!DrawUri
    <2> HIDE DEF a
    <2>2. /\ DOMAIN pushed' = DOMAIN pushed \cup {nextId} /\ pushed'[nextId] = a
          /\ \A x \in DOMAIN pushed : x # nextId => pushed'[x] = pushed[x]
      BY <2>1 DEF R!Put
    <2>3. CASE n = nextId
      <3>1. PushedStage(n) = "unissued"
        BY <1>0, <2>3 DEF PushedStage
      <3>2. \A p \in Proc : ~Takes(p, n)'
        BY <1>0, <2>1, <2>3 DEF OneResolver, Takes
      <3>3. issued'[n] = 0
        BY <1>0, <2>1, <2>3 DEF OneResolver
      <3>4. PushedStage(n)' = "ready"
        BY <1>0, <2>1, <2>2, <2>3, <3>2, <3>3 DEF PushedStage
      <3>5. QED
        BY <3>1, <3>4 DEF Moves, Grants!Step
    <2>4. CASE n # nextId
      BY <1>0, <2>1, <2>2, <2>4 DEF PushedStage, Takes, Moves, Grants!Step
    <2>5. QED
      BY <2>3, <2>4
  <1>2. ASSUME NEW p \in Proc, NEW k \in Id, R!Resolve(p, k)
        PROVE  Goal
    <2> DEFINE r == [uri |-> k, req |-> pushed[k]]
    <2>1. /\ k \in DOMAIN pushed /\ resolving[p] = R!Nothing
          /\ pushed' = [x \in DOMAIN pushed \ {k} |-> pushed[x]]
          /\ resolving' = [resolving EXCEPT ![p] = r]
          /\ UNCHANGED <<now, nextId, issued>>
      BY <1>2 DEF R!Resolve, R!TakeOut, R!Drop, R!Restrict
    <2>2. r # R!Nothing /\ r.uri = k /\ r.req = pushed[k]
      BY DEF R!Nothing
    <2> HIDE DEF r
    <2>3. /\ resolving'[p] = r
          /\ \A q \in Proc : q # p => resolving'[q] = resolving[q]
      BY <1>0, <2>1
    <2>4. CASE n = k
      <3>1. issued[n] = 0 /\ \A q \in Proc : ~Takes(q, n)
        BY <2>1, <2>4 DEF OneResolver
      <3>2. PushedStage(n) = IF R!Expired(pushed[n]) THEN "void" ELSE "ready"
        BY <1>0, <2>1, <2>4, <3>1 DEF PushedStage
      <3>3. Takes(p, n)' /\ \A q \in Proc : Takes(q, n)' => q = p
        BY <2>2, <2>3, <2>4, <3>1 DEF Takes
      <3>4. PushedStage(n)' = IF R!Expired(pushed[n]) THEN "void" ELSE "claimed"
        BY <1>0, <2>1, <2>2, <2>3, <2>4, <3>1, <3>3 DEF PushedStage
      <3>5. QED
        BY <3>2, <3>4 DEF Moves, Grants!Step
    <2>5. CASE n # k
      <3>1. \A q \in Proc : /\ Takes(q, n)' <=> Takes(q, n)
                            /\ Takes(q, n) => resolving'[q] = resolving[q]
        BY <2>1, <2>2, <2>3, <2>5 DEF Takes
      <3>2. QED
        BY <1>0, <2>1, <2>5, <3>1 DEF PushedStage, Moves
    <2>6. QED
      BY <2>4, <2>5
  <1>3. ASSUME NEW p \in Proc, R!Return(p)
        PROVE  Goal
    <2> DEFINE k == resolving[p].uri
               expired == now > resolving[p].req.expiresAt
    <2>1. k \in Id /\ issued[k] = 0 /\ Takes(p, k) /\ k \notin DOMAIN pushed /\ k < nextId
      BY <1>0, <1>3 DEF R!Return, OneResolver, Takes
    <2>2. /\ issued' = IF expired THEN issued ELSE [issued EXCEPT ![k] = 1]
          /\ resolving' = [resolving EXCEPT ![p] = R!Nothing]
          /\ UNCHANGED <<pushed, now, nextId>>
      BY <1>3, <2>1 DEF R!Return
    <2>3. \A q \in Proc : Takes(q, k) => q = p
      BY <2>1 DEF OneResolver
    <2> HIDE DEF k
    <2>4. \A q \in Proc : Takes(q, n)' <=> q # p /\ Takes(q, n)
      BY <1>0, <2>2 DEF Takes
    <2>5. \A q \in Proc : q # p => resolving'[q] = resolving[q]
      BY <1>0, <2>2
    <2>6. CASE n = k
      <3>1. PushedStage(n) = IF expired THEN "void" ELSE "claimed"
        BY <1>0, <2>1, <2>3, <2>6 DEF PushedStage
      <3>2. PushedStage(n)' = IF expired THEN "void" ELSE "spent"
        BY <1>0, <2>1, <2>2, <2>3, <2>4, <2>6 DEF PushedStage
      <3>3. QED
        BY <3>1, <3>2 DEF Moves, Grants!Step
    <2>7. CASE n # k
      <3>1. \A q \in Proc : Takes(q, n)' <=> Takes(q, n)
        BY <2>4, <2>7 DEF Takes, k
      <3>2. issued'[n] = issued[n]
        BY <1>0, <2>2, <2>7
      <3>3. QED
        BY <1>0, <2>2, <2>4, <2>5, <3>1, <3>2 DEF PushedStage, Moves
    <2>8. QED
      BY <2>6, <2>7
  <1>4. CASE R!Cleanup
    BY <1>0, <1>4 DEF R!Cleanup, R!Drop, R!Restrict, PushedStage, Takes, Moves
  <1>5. CASE R!Tick
    <2>1. UNCHANGED <<pushed, resolving, nextId, issued>> /\ now' = now + 1
      BY <1>5 DEF R!Tick
    <2>2. \A p \in Proc : Takes(p, n)' <=> Takes(p, n)
      BY <2>1 DEF Takes
    <2>3. \A p \in Proc : Takes(p, n) /\ now > resolving[p].req.expiresAt =>
             now' > resolving'[p].req.expiresAt
      BY <1>0, <2>1 DEF Takes
    <2>4. n \in DOMAIN pushed /\ now > pushed[n].expiresAt => now' > pushed'[n].expiresAt
      BY <1>0, <2>1
    <2>5. (\E p \in Proc : Takes(p, n)) => n \notin DOMAIN pushed
      BY DEF OneResolver
    <2>6. QED
      BY <2>1, <2>2, <2>3, <2>4, <2>5 DEF PushedStage, Moves, Grants!Step
  <1> HIDE DEF Goal
  <1>6. QED
    BY <1>1, <1>2, <1>3, <1>4, <1>5 DEF R!Next, R!Id, Id, Goal

-----------------------------------------------------------------------------
(* Device codes *)

\* A poll is about a code that was drawn, and past the checks about one that
\* was approved; a code that was issued for was approved, and is on its way out
\* of the map.
PollsFollowApproval ==
    /\ \A p \in Proc : poll[p].pc # "idle" =>
          /\ poll[p].code \in Id /\ poll[p].code < nextId
          /\ poll[p].pc \in {"issue", "delete"} => object[poll[p].code].approved
    /\ \A n \in Id : issued[n] > 0 =>
          /\ n < nextId /\ object[n].approved
          /\ n \in deviceCodes => \E p \in Proc : poll[p].pc = "delete" /\ poll[p].code = n

DeviceInv == D!TypeOK /\ PollsFollowApproval

LEMMA DeviceInit == D!Init => DeviceInv
  BY ParameterAssumption
  DEF D!Init, DeviceInv, PollsFollowApproval, D!TypeOK, D!Poll, D!Idle, D!Id, Id

\* Approve sets one flag of one object.
LEMMA Marked ==
    ASSUME D!TypeOK, NEW n, NEW action, D!Approve(n, action), n \in DOMAIN object
    PROVE  \E o \in D!Code : /\ object' = [object EXCEPT ![n] = o]
                             /\ object[n].approved => o.approved
                             /\ object[n].denied => o.denied
  <1> DEFINE old == object[n]
             o == IF action = "deny" THEN [old EXCEPT !.denied = TRUE]
                                     ELSE [old EXCEPT !.approved = TRUE]
  <1>1. object' = [object EXCEPT ![n] = o]
    BY DEF D!Approve, D!Mark
  <1>2. old \in D!Code
    BY DEF D!TypeOK
  <1> HIDE DEF old
  <1>3. /\ o \in D!Code
        /\ old.denied => o.denied
        /\ old.approved => o.approved
    BY <1>2 DEF D!Code
  <1> HIDE DEF o
  <1>4. QED
    BY <1>1, <1>3 DEF old

LEMMA DeviceKept == DeviceInv /\ D!Next => DeviceInv'
  <1> SUFFICES ASSUME DeviceInv, D!Next PROVE DeviceInv'
    OBVIOUS
  <1> USE ParameterAssumption DEF DeviceInv, D!Id, Id
  <1>0. /\ nextId \in Nat /\ poll \in [Proc -> D!Poll] /\ issued \in [Id -> Nat]
        /\ D!Idle \in D!Poll /\ D!Idle.pc = "idle"
    BY DEF D!TypeOK, D!Poll, D!Idle
  <1>1. CASE D!RequestCode
    <2> DEFINE o == [expiresAt |-> now + TTL, approved |-> FALSE, denied |-> FALSE]
    <2>1. /\ o \in D!Code /\ nextId \in Id
          /\ object' = [n \in 1 .. nextId |-> IF n = nextId THEN o ELSE object[n]]
          /\ nextId' = nextId + 1 /\ deviceCodes' = deviceCodes \cup {nextId}
          /\ byUser' = byUser \cup {nextId} /\ UNCHANGED <<poll, now, issued>>
      BY <1>1 DEF D!RequestCode, D!DrawCode, D!TypeOK, D!Code
    <2> HIDE DEF o
    <2>2. object' \in [1 .. nextId' - 1 -> D!Code]
      <3>1. nextId' - 1 = nextId
        BY <1>0, <2>1
      <3>2. \A n \in 1 .. nextId : n # nextId => n \in 1 .. nextId - 1
        BY <1>0
      <3>3. QED
        BY <2>1, <3>1, <3>2 DEF D!TypeOK
    <2>3. D!TypeOK'
      BY <1>0, <2>1, <2>2 DEF D!TypeOK
    <2>4. \A n \in Id : n < nextId => object'[n] = object[n] /\ n # nextId
      BY <1>0, <2>1
    <2>5. PollsFollowApproval'
      BY <1>0, <2>1, <2>4 DEF PollsFollowApproval
    <2>6. QED
      BY <2>3, <2>5
  <1>2. ASSUME NEW p \in Proc, NEW n \in Id, D!PollToken(p, n)
        PROVE  DeviceInv'
    <2> DEFINE r == [pc |-> "denied?", code |-> n]
    <2>1. /\ r \in D!Poll /\ r.pc = "denied?" /\ r.code = n /\ n < nextId
          /\ poll[p].pc = "idle" /\ poll' = [poll EXCEPT ![p] = r]
          /\ UNCHANGED <<object, deviceCodes, byUser, now, nextId, issued>>
      BY <1>2 DEF D!PollToken, D!Go, D!TypeOK, D!Poll, D!Idle
    <2> HIDE DEF r
    <2>2. QED
      BY <1>0, <2>1 DEF D!TypeOK, PollsFollowApproval
  <1>3. ASSUME NEW p \in Proc, NEW pc \in {"approved?", "issue"},
               poll[p].pc \in {"denied?", "approved?"},
               pc = "issue" => object[poll[p].code].approved,
               \/ D!Answer(p)
               \/ D!Go(p, poll[p].code, pc),
               UNCHANGED <<object, deviceCodes, byUser, now, nextId, issued>>
        PROVE  DeviceInv'
    <2> DEFINE r == [pc |-> pc, code |-> poll[p].code]
    <2>1. /\ r \in D!Poll /\ r.pc = pc /\ r.code = poll[p].code
          /\ r.code \in Id /\ r.code < nextId
      BY <1>3 DEF PollsFollowApproval, D!Poll
    <2>2. poll' = [poll EXCEPT ![p] = D!Idle] \/ poll' = [poll EXCEPT ![p] = r]
      BY <1>3 DEF D!Go, D!Answer
    <2> HIDE DEF r
    <2>3. D!TypeOK'
      BY <1>0, <1>3, <2>1, <2>2 DEF D!TypeOK
    <2>4. PollsFollowApproval'
      BY <1>0, <1>3, <2>1, <2>2 DEF PollsFollowApproval
    <2>5. QED
      BY <2>3, <2>4
  <1>4. ASSUME NEW p \in Proc, D!Issue(p)
        PROVE  DeviceInv'
    <2>1. PICK n \in Id : n = poll[p].code /\ n < nextId /\ object[n].approved
      BY <1>4 DEF D!Issue, PollsFollowApproval
    <2> DEFINE r == [pc |-> "delete", code |-> n]
    <2>2. /\ r \in D!Poll /\ r.pc = "delete" /\ r.code = n
          /\ poll[p].pc = "issue" /\ poll' = [poll EXCEPT ![p] = r]
          /\ issued' = [issued EXCEPT ![n] = @ + 1]
          /\ UNCHANGED <<object, deviceCodes, byUser, now, nextId>>
      BY <1>4, <2>1 DEF D!Issue, D!Go, D!Poll
    <2> HIDE DEF r
    <2>3. D!TypeOK'
      BY <1>0, <2>1, <2>2 DEF D!TypeOK
    <2>4. PollsFollowApproval'
      BY <1>0, <2>1, <2>2 DEF PollsFollowApproval
    <2>5. QED
      BY <2>3, <2>4
  <1>5. ASSUME NEW p \in Proc, D!DeleteCode(p)
        PROVE  DeviceInv'
    <2>1. /\ poll[p].pc = "delete" /\ poll' = [poll EXCEPT ![p] = D!Idle]
          /\ deviceCodes' = deviceCodes \ {poll[p].code}
          /\ byUser' = byUser \ {poll[p].code}
          /\ UNCHANGED <<object, now, nextId, issued>>
      BY <1>5 DEF D!DeleteCode, D!Forget, D!Answer
    <2>2. QED
      BY <1>0, <2>1 DEF D!TypeOK, PollsFollowApproval
  <1>6. ASSUME NEW n \in Id, NEW action, D!Approve(n, action)
        PROVE  DeviceInv'
    <2>1. UNCHANGED <<deviceCodes, byUser, poll, now, nextId, issued>> /\ n \in DOMAIN object
      BY <1>6 DEF D!Approve, D!TypeOK
    <2>2. PICK o \in D!Code : /\ object' = [object EXCEPT ![n] = o]
                              /\ object[n].approved => o.approved
      BY <1>6, <2>1, Marked
    <2>3. D!TypeOK'
      BY <2>1, <2>2 DEF D!TypeOK
    <2>4. \A x \in Id : x < nextId /\ object[x].approved => object'[x].approved
      BY <1>0, <2>1, <2>2 DEF D!TypeOK
    <2>5. PollsFollowApproval'
      BY <2>1, <2>4 DEF PollsFollowApproval
    <2>6. QED
      BY <2>3, <2>5
  <1>7. CASE D!Cleanup
    BY <1>7 DEF D!Cleanup, D!Forget, D!TypeOK, PollsFollowApproval
  <1>8. CASE D!Tick
    BY <1>8 DEF D!Tick, D!TypeOK, PollsFollowApproval
  <1>9. ASSUME NEW p \in Proc, D!ReadDenied(p)
        PROVE  DeviceInv'
    BY <1>3, <1>9 DEF D!ReadDenied
  <1>10. ASSUME NEW p \in Proc, D!ReadApproved(p)
         PROVE  DeviceInv'
    BY <1>3, <1>10 DEF D!ReadApproved
  <1>11. CASE \E p \in Proc : \E n \in Id : D!PollToken(p, n)
    BY <1>2, <1>11
  <1>12. CASE \E p \in Proc : D!ReadDenied(p) \/ D!ReadApproved(p) \/ D!Issue(p) \/ D!DeleteCode(p)
    BY <1>4, <1>5, <1>9, <1>10, <1>12
  <1>13. CASE \E n \in Id, action \in {"approve", "deny"} : D!Approve(n, action)
    BY <1>6, <1>13
  <1>14. QED
    BY <1>1, <1>7, <1>8, <1>11, <1>12, <1>13 DEF D!Next

\* What the runs check of the device flow.
LEMMA DeviceSafe == DeviceInv => D!IssueNeedsApproval /\ D!SpentWhenQuiet
  BY DEF DeviceInv, PollsFollowApproval, D!IssueNeedsApproval, D!SpentWhenQuiet, D!PollsAt,
         D!TypeOK, D!Id, Id

\* No step gets a poll past the check of a denied code, or takes a denial back.
LEMMA DeviceKeepsRefusals == DeviceInv /\ D!Next => D!KeepsRefusals
  <1> SUFFICES ASSUME DeviceInv, D!Next, NEW n \in Id, D!Refused(n)
               PROVE  D!Refused(n)'
    BY DEF D!KeepsRefusals, D!Id, Id
  <1> DEFINE Past(p) == poll[p].code = n /\ poll[p].pc \in {"approved?", "issue"}
  <1>1. n < nextId /\ object[n].denied /\ \A p \in Proc : ~Past(p)
    BY DEF D!Refused, D!PollsAt
  <1>2. nextId \in Nat /\ DOMAIN object = 1 .. nextId - 1 /\ poll \in [Proc -> D!Poll]
    BY DEF DeviceInv, D!TypeOK
  <1>3. nextId' \in Nat /\ n < nextId' /\ object'[n].denied
    <2>1. CASE D!RequestCode
      BY <1>1, <1>2, <2>1 DEF D!RequestCode, D!DrawCode, Id
    <2>2. ASSUME NEW k \in Id, NEW action, D!Approve(k, action)
          PROVE  nextId' \in Nat /\ n < nextId' /\ object'[n].denied
      <3>1. k \in DOMAIN object /\ UNCHANGED nextId
        BY <2>2 DEF D!Approve, DeviceInv, D!TypeOK
      <3>2. PICK o \in D!Code : /\ object' = [object EXCEPT ![k] = o]
                                /\ object[k].denied => o.denied
        BY <2>2, <3>1, Marked DEF DeviceInv
      <3>3. QED
        BY <1>1, <1>2, <3>1, <3>2 DEF Id
    <2>3. CASE UNCHANGED <<object, nextId>>
      BY <1>1, <1>2, <2>3
    <2>4. QED
      BY <2>1, <2>2, <2>3 DEF D!Next, D!Id, Id, D!PollToken, D!ReadDenied, D!ReadApproved, D!Issue,
         D!DeleteCode, D!Cleanup, D!Tick
  <1>4. \A p \in Proc : ~Past(p)'
    <2>1. CASE UNCHANGED poll
      BY <1>1, <2>1
    <2>2. ASSUME NEW p \in Proc, NEW r, poll' = [poll EXCEPT ![p] = r],
                 r.pc \in {"approved?", "issue"} => r.code # n
          PROVE  \A q \in Proc : ~Past(q)'
      BY <1>1, <1>2, <2>2
    <2>3. ASSUME NEW p \in Proc, NEW k \in Id, D!PollToken(p, k)
          PROVE  \A q \in Proc : ~Past(q)'
      BY <2>2, <2>3 DEF D!PollToken, D!Go
    <2>4. ASSUME NEW p \in Proc, D!Answer(p)
          PROVE  \A q \in Proc : ~Past(q)'
      BY <2>2, <2>4 DEF D!Answer, D!Idle
    <2>5. ASSUME NEW p \in Proc, D!ReadDenied(p)
          PROVE  \A q \in Proc : ~Past(q)'
      BY <1>1, <2>2, <2>4, <2>5 DEF D!ReadDenied, D!Go
    <2>6. ASSUME NEW p \in Proc, D!ReadApproved(p)
          PROVE  \A q \in Proc : ~Past(q)'
      BY <1>1, <2>2, <2>4, <2>6 DEF D!ReadApproved, D!Go
    <2>7. ASSUME NEW p \in Proc, D!Issue(p)
          PROVE  \A q \in Proc : ~Past(q)'
      BY <2>2, <2>7 DEF D!Issue, D!Go
    <2>8. ASSUME NEW p \in Proc, D!DeleteCode(p)
          PROVE  \A q \in Proc : ~Past(q)'
      BY <2>4, <2>8 DEF D!DeleteCode
    <2> HIDE DEF Past
    <2>9. QED
      BY <2>1, <2>3, <2>5, <2>6, <2>7, <2>8 DEF D!Next, D!Id, Id, D!RequestCode, D!Approve,
         D!Cleanup, D!Tick
  <1>5. QED
    BY <1>3, <1>4 DEF D!Refused, D!PollsAt

-----------------------------------------------------------------------------
(* The flow that runs *)

\* Each invariant is about the flow it belongs to: the flows have the clock,
\* the ids and the history in common.
IInv ==
    /\ flow \in {"pkce", "device", "ciba", "par"}
    /\ flow = "pkce" => CodeInv
    /\ flow = "device" => DeviceInv
    /\ flow = "ciba" => BackchannelInv
    /\ flow = "par" => PushedInv

LEMMA FlowsInit == Init => IInv
  BY CodeInit, DeviceInit, BackchannelInit, PushedInit DEF Init, IInv

LEMMA FlowsStep == IInv /\ [Next]_vars => IInv'
  <1> SUFFICES ASSUME IInv, [Next]_vars PROVE IInv'
    OBVIOUS
  <1>1. CASE PKCEStep
    BY <1>1, CodeKept DEF PKCEStep, IInv
  <1>2. CASE DeviceStep
    BY <1>2, DeviceKept DEF DeviceStep, IInv
  <1>3. CASE CIBAStep
    BY <1>3, BackchannelKept DEF CIBAStep, IInv
  <1>4. CASE PushStep
    BY <1>4, PushedKept DEF PushStep, IInv
  <1>5. CASE UNCHANGED vars
    <2>1. UNCHANGED <<flow, now, nextId, issued>>
      BY <1>5 DEF vars
    <2>2. CodeInv => CodeInv'
      BY <1>5, <2>1 DEF vars, pkce, CodeInv, P!TypeOK, OneHolder, CodeHolder
    <2>3. DeviceInv => DeviceInv'
      BY <1>5, <2>1 DEF vars, device, DeviceInv, D!TypeOK, PollsFollowApproval
    <2>4. BackchannelInv => BackchannelInv'
      BY <1>5, <2>1 DEF vars, ciba, BackchannelInv, C!TypeOK, OneTaker
    <2>5. PushedInv => PushedInv'
      BY <1>5, <2>1 DEF vars, par, PushedInv, R!TypeOK, OneResolver, Takes
    <2>6. QED
      BY <2>1, <2>2, <2>3, <2>4, <2>5 DEF IInv
  <1>6. QED
    BY <1>1, <1>2, <1>3, <1>4, <1>5 DEF Next

THEOREM Invariance == Spec => []IInv
  BY FlowsInit, FlowsStep, PTL DEF Spec

\* The tables and requests of every handler keep their types, and ids are
\* drawn in order.
THEOREM TypeCorrect == Spec => []TypeOK
  <1>1. IInv => TypeOK
    BY DEF IInv, TypeOK, CodeInv, DeviceInv, BackchannelInv, PushedInv
  <1>2. QED
    BY <1>1, Invariance, PTL

\* Whatever the requests present and however they interleave: a token is issued
\* for a code only to a request with the redirect URI and the verifier of its
\* authorization (Exchange), and for a device code only after an approval
\* (PollToken).
THEOREM AuthorizedOnly == Spec => []IssuedAsAuthorized
  <1>1. CodeInv => P!RedeemedAsAuthorized
    BY DEF CodeInv, OneHolder, CodeHolder, P!RedeemedAsAuthorized
  <1>2. IInv => IssuedAsAuthorized
    BY <1>1, DeviceSafe DEF IInv, IssuedAsAuthorized
  <1>3. QED
    BY <1>2, Invariance, PTL

\* A device code that was paid out is gone when the last poll that issued for
\* it has returned (the second critical section of PollToken).
THEOREM DeviceCodeGone == Spec => []SpentWhenQuiet
  <1>1. IInv => SpentWhenQuiet
    BY DeviceSafe DEF IInv, SpentWhenQuiet
  <1>2. QED
    BY <1>1, Invariance, PTL

\* A denied device code that no poll is past the check of stays refused
\* (Approve, PollToken).
THEOREM DenialHolds == Spec => DenialIsFinal
  <1>1. IInv /\ [Next]_vars => [flow = "device" => D!KeepsRefusals]_vars
    BY DeviceKeepsRefusals DEF IInv, Next, PKCEStep, DeviceStep, CIBAStep, PushStep
  <1>2. QED
    BY <1>1, Invariance, PTL DEF Spec, DenialIsFinal

-----------------------------------------------------------------------------
(* The refinement of OneTimeGrant *)

Stage(n) ==
    IF flow = "pkce" THEN CodeStage(n)
    ELSE IF flow = "ciba" THEN BackchannelStage(n)
    ELSE IF flow = "par" THEN PushedStage(n)
    ELSE "unissued"

LEMMA PhaseIsStage == IInv => \A n \in Id : PhaseOf(n) = Stage(n)
  BY CodePhase, BackchannelPhase, PushedPhase DEF IInv, PhaseOf, Stage

LEMMA StageMoves == IInv /\ [Next]_vars => \A n \in Id : Moves(Stage(n), Stage(n)')
  <1> SUFFICES ASSUME IInv, [Next]_vars, NEW n \in Id PROVE Moves(Stage(n), Stage(n)')
    OBVIOUS
  <1>1. CASE PKCEStep
    BY <1>1, CodeMoves DEF PKCEStep, IInv, Stage
  <1>2. CASE DeviceStep
    BY <1>2 DEF DeviceStep, Stage, Moves
  <1>3. CASE CIBAStep
    BY <1>3, BackchannelMoves DEF CIBAStep, IInv, Stage
  <1>4. CASE PushStep
    BY <1>4, PushedMoves DEF PushStep, IInv, Stage
  <1>5. CASE UNCHANGED vars
    <2>1. UNCHANGED <<flow, pending, codes, req, backchannel, issuing, pushed, resolving,
                      now, nextId, issued>>
      BY <1>5 DEF vars, pkce, ciba, par
    <2>2. Stage(n)' = Stage(n)
      BY <2>1 DEF Stage, CodeStage, CodeClaimed, CodeApproved, P!Expired, BackchannelStage,
         C!Expired, C!Denied, C!Approved, PushedStage, Takes, R!Expired
    <2>3. QED
      BY <2>2 DEF Moves
  <1>6. QED
    BY <1>1, <1>2, <1>3, <1>4, <1>5 DEF Next

\* An authorization code, a backchannel request and a pushed request implement
\* OneTimeGrant: each is answered and redeemed at most once, for any number of
\* requests that run at once (Consent, Exchange, Poll, Resolve).
THEOREM OneTimeGrants == Spec => OneTime
  <1> DEFINE bar == [n \in Id |-> PhaseOf(n)]
  <1>1. Init => Grants!Init
    <2> SUFFICES ASSUME Init PROVE Grants!Init
      OBVIOUS
    <2>1. \A n \in Id : Stage(n) = "unissued"
      BY ParameterAssumption DEF Init, P!Init, Stage, CodeStage, BackchannelStage, PushedStage, Id
    <2>2. \A n \in Id : PhaseOf(n) = "unissued"
      BY <2>1, FlowsInit, PhaseIsStage
    <2>3. QED
      BY <2>2 DEF Grants!Init
  <1>2. IInv' => \A n \in Id : PhaseOf(n)' = Stage(n)'
    <2>1. IInv' => (\A n \in Id : PhaseOf(n) = Stage(n))'
      BY PhaseIsStage, PTL
    <2>2. QED
      BY <2>1
  <1>3. IInv /\ IInv' /\ [Next]_vars => [Grants!Next]_bar
    <2> SUFFICES ASSUME IInv, IInv', [Next]_vars PROVE Grants!Next
      OBVIOUS
    <2>1. \A n \in Id : PhaseOf(n) = Stage(n) /\ PhaseOf(n)' = Stage(n)'
      BY PhaseIsStage, <1>2
    <2>2. \A n \in Id : Stage(n)' \in Grants!Phase
      BY DEF Stage, CodeStage, BackchannelStage, PushedStage, Grants!Phase
    <2>3. bar' \in [Id -> Grants!Phase]
      BY <2>1, <2>2
    <2>4. \A n \in Id : bar'[n] = bar[n] \/ <<bar[n], bar'[n]>> \in Grants!Step
      BY <2>1, StageMoves DEF Moves
    <2>5. QED
      BY <2>3, <2>4 DEF Grants!Next
  <1>4. QED
    BY <1>1, <1>3, Invariance, PTL DEF Spec, OneTime, Grants!Spec
=============================================================================
