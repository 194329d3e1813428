-------------------------- MODULE CredentialProofs --------------------------
(***************************************************************************)
(* What a token or an API key is worth, for any callers, keys, issuers and *)
(* ages: the ring that signs (Keyring), the cache of the provider's keys   *)
(* (JWKSCache), the table of providers (Providers) and API keys (APIKeys). *)
(* Each part ends in what it keeps: an invariant that holds at first       *)
(* (...Init), that every step preserves (...StepKeeps, KeyStep) and that   *)
(* implies the properties of the part (...Safe).                           *)
(***************************************************************************)
EXTENDS Admission, FiniteSetTheorems, WellFoundedInduction, SequenceTheorems, TLAPS

-----------------------------------------------------------------------------
(* Keyring *)

\* The tokens that are signed, and those that are about to be.
Issued == live \cup ({signing[s] : s \in Signer} \ {K!Nothing})

\* A token is of the current key, or it is of the previous one and was begun
\* before the ticker fired last: it expires before the ticker fires again.
OfRing(t) ==
    \/ t.key = current
    \/ /\ rotating[Scheduled] = K!NoKey /\ t.key = previous
       /\ t.expires <= now - sinceTick + Lifetime

KeyringInv ==
    /\ K!TypeOK
    /\ \A x \in Rotator : rotating[x] # K!NoKey =>
          /\ rotating[x] # current
          /\ \A y \in Rotator : x # y => rotating[x] # rotating[y]
    /\ \A t \in live : now <= t.expires
    /\ \A s \in Signer : signing[s] # K!Nothing => now + Lifetime - 1 <= signing[s].expires
    /\ \A t \in Issued : t.expires <= now + Lifetime
    /\ Lifetime < Interval /\ forced = 0 =>
          /\ \A x \in Rotator : rotating[x] # K!NoKey => x = Scheduled /\ sinceTick = 0
          /\ \A t \in Issued : OfRing(t)

LEMMA KeyringInit == K!Init => KeyringInv
  <1> SUFFICES ASSUME K!Init PROVE KeyringInv
    OBVIOUS
  <1>1. K!TypeOK
    BY KeyringAssumption DEF K!Init, K!TypeOK, K!JWT, K!Key, K!NoKey, K!Nothing
  <1>2. Issued = {}
    BY DEF K!Init, Issued
  <1>3. QED
    BY <1>1, <1>2 DEF K!Init, KeyringInv, K!NoKey

LEMMA KeyringTypes ==
    ASSUME KeyringInv
    PROVE  /\ now \in Nat /\ sinceTick \in Nat /\ keys \in Nat /\ current \in Nat /\ previous \in Nat
           /\ Lifetime \in Nat \ {0} /\ Interval \in Nat
           /\ \A t \in Issued : /\ t \in K!JWT /\ t.key \in Nat \ {0} /\ t.expires \in Nat
                                /\ now <= t.expires
           /\ \A x \in Rotator : rotating[x] \in Nat
           /\ live \subseteq Issued
  BY KeyringAssumption DEF KeyringInv, K!TypeOK, Issued, K!JWT, K!Key, K!Nothing, K!NoKey

LEMMA KeyringSafe == KeyringInv => K!LiveTokensVerify
  BY KeyringTypes DEF KeyringInv, OfRing, K!LiveTokensVerify, K!JWKS, K!NoKey

LEMMA GenerateTypes ==
    ASSUME KeyringInv, NEW x \in Rotator, K!Generate(x)
    PROVE  /\ keys' = keys + 1 /\ keys + 1 \in K!Key /\ rotating[x] = K!NoKey
           /\ rotating' \in [Rotator -> 0 .. keys'] /\ rotating'[x] = keys + 1
           /\ \A y \in Rotator : y # x => rotating'[y] = rotating[y]
           /\ \A y \in Rotator : rotating[y] # keys + 1
           /\ current # keys + 1
  BY KeyringTypes, KeyringAssumption
  DEF KeyringInv, K!TypeOK, K!Generate, K!NewKey, K!Key, K!NoKey

LEMMA SchedulingKeeps == ASSUME KeyringInv, K!Scheduling PROVE KeyringInv'
  <1>1. /\ K!Generate(Scheduled) /\ Scheduled \in Rotator /\ sinceTick = Interval /\ sinceTick' = 0
        /\ UNCHANGED <<current, previous, signing, live, forced, now>>
    BY KeyringAssumption DEF K!Scheduling, K!ring
  <1>2. K!TypeOK'
    BY <1>1, GenerateTypes, KeyringTypes DEF KeyringInv, K!TypeOK
  <1>3. Issued' = Issued
    BY <1>1 DEF Issued
  <1>4. \A t \in Issued : Lifetime < Interval /\ OfRing(t) => t.key = current
    BY <1>1, KeyringTypes DEF OfRing
  <1>5. \A t \in Issued' : Lifetime < Interval /\ forced = 0 => OfRing(t)'
    BY <1>1, <1>3, <1>4 DEF KeyringInv, OfRing
  <1>6. QED
    BY <1>1, <1>2, <1>3, <1>5, GenerateTypes DEF KeyringInv, K!NoKey

LEMMA ForceKeeps == ASSUME KeyringInv, NEW x \in Rotator, K!Force(x) PROVE KeyringInv'
  <1>1. /\ K!Generate(x) /\ forced' = forced + 1 /\ forced' \in 0 .. MaxForced /\ forced' # 0
        /\ UNCHANGED <<current, previous, signing, live, sinceTick, now>>
    BY KeyringAssumption DEF K!Force, K!ring, KeyringInv, K!TypeOK
  <1>2. K!TypeOK'
    BY <1>1, GenerateTypes, KeyringTypes DEF KeyringInv, K!TypeOK
  <1>3. QED
    BY <1>1, <1>2, GenerateTypes DEF KeyringInv, K!NoKey, Issued

LEMMA InstallKeeps == ASSUME KeyringInv, NEW x \in Rotator, K!Install(x) PROVE KeyringInv'
  <1>1. /\ rotating[x] # K!NoKey /\ current' = rotating[x] /\ previous' = current
        /\ rotating' = [rotating EXCEPT ![x] = K!NoKey]
        /\ UNCHANGED <<signing, live, keys, forced, sinceTick, now>>
    BY DEF K!Install, K!Swap
  <1>2. K!TypeOK'
    BY <1>1, KeyringTypes DEF KeyringInv, K!TypeOK, K!NoKey
  <1>3. Issued' = Issued
    BY <1>1 DEF Issued
  <1>4. ASSUME Lifetime < Interval, forced = 0, NEW t \in Issued PROVE OfRing(t)'
    <2>1. x = Scheduled /\ sinceTick = 0 /\ rotating[Scheduled] # K!NoKey /\ OfRing(t)
      BY <1>1, <1>4 DEF KeyringInv
    <2>2. t.key = current
      BY <2>1 DEF OfRing
    <2>3. t.expires <= now + Lifetime
      BY DEF KeyringInv
    <2>4. QED
      BY <1>1, <2>1, <2>2, <2>3, KeyringTypes, KeyringAssumption DEF OfRing, KeyringInv, K!TypeOK
  <1>5. QED
    BY <1>1, <1>2, <1>3, <1>4 DEF KeyringInv, K!TypeOK, K!NoKey

LEMMA TakeKeyKeeps == ASSUME KeyringInv, NEW s \in Signer, K!TakeKey(s) PROVE KeyringInv'
  <1> DEFINE t == [key |-> current, expires |-> now + Lifetime]
  <1>1. /\ signing' = [signing EXCEPT ![s] = t]
        /\ UNCHANGED <<current, previous, rotating, live, keys, forced, sinceTick, now>>
    BY DEF K!TakeKey, K!ring
  <1>2. t \in K!JWT /\ t.key = current /\ t.expires = now + Lifetime
    BY KeyringTypes, KeyringAssumption DEF KeyringInv, K!TypeOK, K!JWT, K!Key
  <1> HIDE DEF t
  <1>3. /\ signing'[s] = t /\ \A z \in Signer : z # s => signing'[z] = signing[z]
        /\ signing' \in [Signer -> K!JWT \cup {K!Nothing}]
    BY <1>1, <1>2 DEF KeyringInv, K!TypeOK
  <1>4. Issued' \subseteq Issued \cup {t}
    BY <1>1, <1>3 DEF Issued
  <1>5. \A u \in Issued \cup {t} :
           /\ u.expires <= now + Lifetime
           /\ Lifetime < Interval /\ forced = 0 => OfRing(u)
    BY <1>2, KeyringTypes DEF KeyringInv, OfRing
  <1>6. K!TypeOK'
    BY <1>1, <1>3 DEF KeyringInv, K!TypeOK
  <1>7. \A u : OfRing(u)' = OfRing(u)
    BY <1>1 DEF OfRing
  <1>8. \A u \in Issued' :
           /\ u.expires <= now' + Lifetime
           /\ Lifetime < Interval /\ forced' = 0 => OfRing(u)'
    BY <1>1, <1>4, <1>5, <1>7
  <1>9. \A z \in Signer : signing'[z] # K!Nothing => now' + Lifetime - 1 <= signing'[z].expires
    BY <1>1, <1>2, <1>3, KeyringTypes DEF KeyringInv
  <1>10. QED
    BY <1>1, <1>6, <1>8, <1>9 DEF KeyringInv

LEMMA SignKeeps == ASSUME KeyringInv, NEW s \in Signer, K!Sign(s) PROVE KeyringInv'
  <1>1. /\ signing[s] # K!Nothing /\ live' = live \cup {signing[s]}
        /\ signing' = [signing EXCEPT ![s] = K!Nothing]
        /\ UNCHANGED <<current, previous, rotating, keys, forced, sinceTick, now>>
    BY DEF K!Sign, K!ring
  <1>2. /\ signing' \in [Signer -> K!JWT \cup {K!Nothing}] /\ signing'[s] = K!Nothing
        /\ \A z \in Signer : z # s => signing'[z] = signing[z]
        /\ signing[s] \in Issued
    BY <1>1 DEF KeyringInv, K!TypeOK, Issued
  <1>3. Issued' \subseteq Issued
    BY <1>1, <1>2, KeyringTypes DEF Issued
  <1>4. K!TypeOK'
    BY <1>1, <1>2, KeyringTypes DEF KeyringInv, K!TypeOK
  <1>5. \A u : OfRing(u)' = OfRing(u)
    BY <1>1 DEF OfRing
  <1>6. \A t \in live' : now' <= t.expires
    BY <1>1, <1>2, KeyringTypes
  <1>7. QED
    BY <1>1, <1>2, <1>3, <1>4, <1>5, <1>6 DEF KeyringInv

LEMMA KeyringTickKeeps == ASSUME KeyringInv, K!Tick PROVE KeyringInv'
  <1>1. /\ now' = now + 1 /\ now' \in 0 .. MaxKeyTime /\ sinceTick' = sinceTick + 1
        /\ sinceTick' \in 0 .. Interval /\ rotating[Scheduled] = K!NoKey
        /\ \A s \in Signer : signing[s] = K!Nothing \/ signing[s].expires = now + Lifetime
        /\ live' = {t \in live : t.expires >= now + 1}
        /\ UNCHANGED <<current, previous, rotating, signing, keys, forced>>
    BY KeyringTypes, KeyringAssumption DEF K!Tick, K!ring, KeyringInv, K!TypeOK
  <1>2. Issued' \subseteq Issued
    BY <1>1 DEF Issued
  <1>3. \A t \in Issued' : t.expires <= now' + Lifetime
    BY <1>1, <1>2, KeyringTypes DEF KeyringInv
  <1>4. \A t \in Issued' : Lifetime < Interval /\ forced' = 0 => OfRing(t)'
    BY <1>1, <1>2, KeyringTypes DEF KeyringInv, OfRing
  <1>5. K!TypeOK'
    BY <1>1 DEF KeyringInv, K!TypeOK
  <1>6. \A x \in Rotator : Lifetime < Interval /\ forced' = 0 => rotating'[x] = K!NoKey
    BY <1>1 DEF KeyringInv
  <1>7. \A s \in Signer : signing'[s] # K!Nothing => now' + Lifetime - 1 <= signing'[s].expires
    BY <1>1, KeyringTypes
  <1>8. QED
    BY <1>1, <1>3, <1>4, <1>5, <1>6, <1>7 DEF KeyringInv

LEMMA KeyringStepKeeps == ASSUME KeyringInv, K!Next PROVE KeyringInv'
  BY SchedulingKeeps, ForceKeeps, InstallKeeps, TakeKeyKeeps, SignKeeps, KeyringTickKeeps
  DEF K!Next

-----------------------------------------------------------------------------
(* JWKSCache *)

KeyAge(k) == now - lastSeen[k]

\* What a validation has in its hands: keys that were published when it fetched
\* them, the key it names among them unless that was withdrawn meanwhile; and
\* what it answers.
Sound(r) ==
    /\ r.kid \in {r.key, NoKid} /\ r.key \in 1 .. fetched
    /\ r.throughout => r.kid \in published
    /\ r.pc = "lookup" => ~r.force
    /\ r.pc = "store" =>
          /\ r.got \subseteq 1 .. fetched /\ (r.throughout => r.kid \in r.got)
          /\ \A k \in r.got : KeyAge(k) <= r.age
    /\ r.pc = "rejected" /\ r.kid # NoKid => ~r.throughout \/ r.failed
    /\ r.pc = "accepted" =>
          KeyAge(r.key) < (IF r.failed THEN StaleAge ELSE FreshAge) + 1 + r.age

JWKSInv ==
    /\ J!TypeOK
    /\ \A k \in published : lastSeen[k] = now
    /\ \A k \in jwksCache.keys : jwksCache.fetchedAt - 1 <= lastSeen[k]
    /\ \A p \in Proc : req[p] # J!Idle => Sound(req[p])

LEMMA JWKSInit == J!Init => JWKSInv
  BY JWKSAssumption
  DEF J!Init, JWKSInv, J!TypeOK, J!NoCache, J!Idle, J!Validation, J!Key

LEMMA JWKSTypes ==
    ASSUME JWKSInv
    PROVE  /\ now \in Nat /\ fetched \in Nat /\ fetched <= MaxPublished
           /\ FreshAge \in Nat \ {0} /\ StaleAge \in Nat /\ FreshAge <= StaleAge
           /\ MaxPublished \in Nat /\ MaxJWKSTime \in Nat
           /\ NoKid \notin published /\ published \subseteq 1 .. fetched
           /\ NoKid \notin 1 .. fetched
           /\ jwksCache.keys \subseteq 1 .. fetched /\ jwksCache.fetchedAt \in Int
           /\ jwksCache.fetchedAt <= now
           /\ \A k \in 1 .. fetched : lastSeen[k] \in Nat /\ KeyAge(k) \in Nat /\ k \in J!Key
           /\ req \in [Proc -> J!Validation]
  <1>1. /\ now \in 0 .. MaxJWKSTime /\ MaxJWKSTime \in Nat /\ fetched \in 1 .. MaxPublished
        /\ StaleAge \in Nat /\ NoKid \notin 1 .. MaxPublished /\ published \subseteq 1 .. fetched
        /\ lastSeen \in [1 .. fetched -> 0 .. now] /\ MaxPublished \in Nat
        /\ jwksCache.keys \subseteq 1 .. fetched /\ jwksCache.fetchedAt \in -StaleAge .. now
    BY JWKSAssumption DEF JWKSInv, J!TypeOK, J!Key
  <1>2. now \in Nat /\ fetched \in Nat /\ fetched <= MaxPublished
    BY <1>1
  <1>3. NoKid \notin 1 .. fetched
    BY <1>1, <1>2
  <1>4. ASSUME NEW k \in 1 .. fetched
        PROVE  lastSeen[k] \in Nat /\ KeyAge(k) \in Nat /\ k \in J!Key
    BY <1>1, <1>2 DEF KeyAge, J!Key
  <1>5. jwksCache.fetchedAt \in Int /\ jwksCache.fetchedAt <= now
    BY <1>1, <1>2
  <1>6. QED
    BY <1>1, <1>2, <1>3, <1>4, <1>5, JWKSAssumption DEF JWKSInv, J!TypeOK

LEMMA JWKSSafe == JWKSInv => J!PublishedKeyAccepted /\ J!WithdrawnKeyForgotten
  <1> SUFFICES ASSUME JWKSInv, NEW p \in Proc
               PROVE  /\ req[p].pc = "rejected" /\ req[p].kid # NoKid
                           => ~req[p].throughout \/ req[p].failed
                      /\ req[p].pc = "accepted" =>
                           now - lastSeen[req[p].key]
                             < (IF req[p].failed THEN StaleAge ELSE FreshAge) + 2
    BY DEF J!PublishedKeyAccepted, J!WithdrawnKeyForgotten
  <1>1. CASE req[p] = J!Idle
    BY <1>1 DEF J!Idle
  <1>2. CASE req[p] # J!Idle
    <2>1. req[p].age \in {0, 1} /\ Sound(req[p])
      BY <1>2, JWKSTypes DEF J!Validation, JWKSInv
    <2>2. KeyAge(req[p].key) \in Nat /\ KeyAge(req[p].key) = now - lastSeen[req[p].key]
      BY <2>1, JWKSTypes DEF Sound, KeyAge
    <2>3. QED
      BY <2>1, <2>2, JWKSTypes DEF Sound
  <1>3. QED
    BY <1>1, <1>2

\* A step of one validation.
LEMMA OneMoves ==
    ASSUME JWKSInv, NEW p \in Proc, NEW r \in J!Validation, req' = [req EXCEPT ![p] = r],
           r # J!Idle => Sound(r),
           UNCHANGED <<published, lastSeen, fetched, now>>,
           jwksCache'.keys \subseteq 1 .. fetched, jwksCache'.fetchedAt \in -StaleAge .. now,
           \A k \in jwksCache'.keys : jwksCache'.fetchedAt - 1 <= lastSeen[k]
    PROVE  JWKSInv'
  <1>1. req' \in [Proc -> J!Validation] /\ req'[p] = r /\ \A q \in Proc : q # p => req'[q] = req[q]
    BY JWKSTypes
  <1>2. \A q \in Proc : req'[q] # J!Idle => Sound(req'[q])
    BY <1>1 DEF JWKSInv
  <1>4. J!TypeOK'
    BY <1>1 DEF JWKSInv, J!TypeOK
  <1>5. QED
    BY <1>2, <1>4 DEF JWKSInv, Sound, KeyAge

\* The cache as it is.
LEMMA CacheStays ==
    ASSUME JWKSInv, UNCHANGED jwksCache
    PROVE  /\ \A k \in jwksCache'.keys : jwksCache'.fetchedAt - 1 <= lastSeen[k]
           /\ jwksCache'.keys \subseteq 1 .. fetched /\ jwksCache'.fetchedAt \in -StaleAge .. now
  BY DEF JWKSInv, J!TypeOK

\* Resolve: the key is found and the signature holds or not, or the keys are
\* fetched once more, or the token is rejected.
LEMMA Resolved ==
    ASSUME JWKSInv, NEW p \in Proc, req[p] # J!Idle, NEW ks \in SUBSET (1 .. fetched), J!Resolve(p, ks),
           \A k \in ks : KeyAge(k) < FreshAge + 1,
           req[p].throughout /\ req[p].force => req[p].kid \in ks
    PROVE  \E r \in J!Validation : req' = [req EXCEPT ![p] = r] /\ r # J!Idle /\ Sound(r)
  <1> DEFINE o == req[p]
             a(ok) == [o EXCEPT !.pc = IF ok THEN "accepted" ELSE "rejected", !.got = {}, !.force = FALSE]
             f == [o EXCEPT !.pc = "fetch", !.force = TRUE, !.age = 0, !.got = {}]
  <1>1. o \in J!Validation /\ o # J!Idle /\ Sound(o)
    BY JWKSTypes DEF JWKSInv
  <1>2. \/ \E ok \in BOOLEAN : /\ J!Found(ks, o.kid) /\ J!Verifies(p, ks, ok)
                               /\ req' = [req EXCEPT ![p] = a(ok)]
        \/ req' = [req EXCEPT ![p] = f]
        \/ ~J!Found(ks, o.kid) /\ (o.kid = NoKid \/ o.force) /\ req' = [req EXCEPT ![p] = a(FALSE)]
    BY DEF J!Resolve, J!Answer, J!Refresh
  <1>3. \A ok \in BOOLEAN : J!Verifies(p, ks, ok) =>
           ok \in {k = o.key : k \in IF o.kid = NoKid THEN ks ELSE {o.kid}}
    BY DEF J!Verifies
  <1> HIDE DEF o
  <1>4. ASSUME NEW ok \in BOOLEAN
        PROVE  /\ a(ok) \in J!Validation /\ a(ok) # J!Idle
               /\ a(ok).pc = IF ok THEN "accepted" ELSE "rejected"
               /\ a(ok).kid = o.kid /\ a(ok).key = o.key /\ a(ok).age = o.age /\ o.age \in {0, 1}
               /\ a(ok).throughout = o.throughout /\ a(ok).failed = o.failed
    BY <1>1 DEF J!Validation, J!Idle
  <1>5. /\ f \in J!Validation /\ f # J!Idle /\ f.pc = "fetch"
        /\ f.kid = o.kid /\ f.key = o.key /\ f.throughout = o.throughout
    BY <1>1 DEF J!Validation, J!Idle
  <1> HIDE DEF a, f
  <1>6. o.key \in 1 .. fetched /\ KeyAge(o.key) \in Nat /\ o.kid \in {o.key, NoKid}
        /\ (o.throughout => o.kid \in published /\ o.kid # NoKid)
    BY <1>1, JWKSTypes DEF Sound
  <1>7. ASSUME NEW ok \in BOOLEAN, J!Found(ks, o.kid), J!Verifies(p, ks, ok) PROVE Sound(a(ok))
    <2>1. CASE ok
      <3>1. o.key \in ks
        BY <1>3, <1>6, <1>7, <2>1 DEF J!Found
      <3>2. KeyAge(o.key) < FreshAge + 1
        BY <3>1
      <3>3. KeyAge(a(ok).key) < (IF a(ok).failed THEN StaleAge ELSE FreshAge) + 1 + a(ok).age
        BY <1>4, <1>6, <3>2, JWKSTypes
      <3>4. QED
        BY <1>4, <1>6, <2>1, <3>3 DEF Sound
    <2>2. CASE ~ok
      <3>1. o.kid = NoKid
        BY <1>3, <1>6, <1>7, <2>2
      <3>2. QED
        BY <1>4, <1>6, <2>2, <3>1 DEF Sound
    <2>3. QED
      BY <2>1, <2>2
  <1>8. Sound(f)
    BY <1>5, <1>6 DEF Sound
  <1>9. ASSUME ~J!Found(ks, o.kid), o.kid = NoKid \/ o.force PROVE Sound(a(FALSE))
    <2>1. o.kid # NoKid => ~o.throughout
      BY <1>9 DEF J!Found, o
    <2>2. QED
      BY <1>4, <1>6, <2>1 DEF Sound
  <1>10. QED
    BY <1>2, <1>4, <1>5, <1>7, <1>8, <1>9

LEMMA UsableIsYoung ==
    ASSUME JWKSInv, NEW limit \in Nat, J!Usable(limit), NEW k \in jwksCache.keys
    PROVE  KeyAge(k) < limit + 1
  BY JWKSTypes DEF J!Usable, J!Age, JWKSInv, KeyAge

LEMMA ValidateKeeps ==
    ASSUME JWKSInv, NEW p \in Proc, NEW k \in 1 .. fetched, NEW kid \in {k, NoKid},
           J!Validate(p, k, kid)
    PROVE  JWKSInv'
  <1> DEFINE r == [pc |-> "lookup", kid |-> kid, key |-> k, force |-> FALSE, got |-> {}, age |-> 0,
                   throughout |-> kid \in published, failed |-> FALSE]
  <1>1. req' = [req EXCEPT ![p] = r] /\ UNCHANGED <<published, lastSeen, fetched, now, jwksCache>>
    BY DEF J!Validate
  <1>2. r \in J!Validation
    BY JWKSTypes DEF J!Validation
  <1>3. Sound(r)
    BY DEF Sound
  <1> HIDE DEF r
  <1>4. QED
    BY <1>1, <1>2, <1>3, OneMoves, CacheStays

LEMMA LookupKeeps == ASSUME JWKSInv, NEW p \in Proc, J!Lookup(p) PROVE JWKSInv'
  <1>1. /\ req[p].pc = "lookup" /\ req[p] # J!Idle
        /\ UNCHANGED <<published, lastSeen, fetched, now, jwksCache>>
    BY DEF J!Lookup, J!Idle
  <1>2. Sound(req[p]) /\ req[p] \in J!Validation
    BY <1>1, JWKSTypes DEF JWKSInv
  <1>3. \E r \in J!Validation : req' = [req EXCEPT ![p] = r] /\ (r # J!Idle => Sound(r))
    <2>1. CASE J!Usable(FreshAge)
      <3>1. J!Resolve(p, jwksCache.keys)
        BY <2>1 DEF J!Lookup
      <3>2. \A k \in jwksCache.keys : KeyAge(k) < FreshAge + 1
        BY <2>1, UsableIsYoung, JWKSTypes
      <3>3. ~req[p].force
        BY <1>1, <1>2 DEF Sound
      <3>4. QED
        BY <1>1, <3>1, <3>2, <3>3, Resolved, JWKSTypes
    <2>2. CASE ~J!Usable(FreshAge)
      <3> DEFINE o == req[p]
                 r == [o EXCEPT !.pc = "fetch"]
      <3>1. req' = [req EXCEPT ![p] = r] /\ o # J!Idle
        BY <1>1, <2>2 DEF J!Lookup, J!To
      <3>2. o \in J!Validation /\ Sound(o)
        BY <1>2
      <3> HIDE DEF o
      <3>3. /\ r \in J!Validation /\ r.pc = "fetch" /\ r.kid = o.kid /\ r.key = o.key
            /\ r.throughout = o.throughout
        BY <3>1, <3>2 DEF J!Validation, J!Idle
      <3> HIDE DEF r
      <3>4. Sound(r)
        BY <3>2, <3>3 DEF Sound
      <3>5. QED
        BY <3>1, <3>3, <3>4
    <2>3. QED
      BY <2>1, <2>2
  <1>4. QED
    BY <1>1, <1>3, OneMoves, CacheStays

LEMMA FetchKeeps == ASSUME JWKSInv, NEW p \in Proc, J!Fetch(p) PROVE JWKSInv'
  <1> DEFINE o == req[p]
             r == [o EXCEPT !.pc = "store", !.got = published]
  <1>1. /\ req' = [req EXCEPT ![p] = r] /\ o.pc = "fetch"
        /\ UNCHANGED <<published, lastSeen, fetched, now, jwksCache>>
    BY DEF J!Fetch
  <1>2. o \in J!Validation /\ o # J!Idle /\ Sound(o)
    BY <1>1, JWKSTypes DEF JWKSInv, J!Idle
  <1> HIDE DEF o
  <1>3. /\ r \in J!Validation /\ r.pc = "store" /\ r.kid = o.kid /\ r.key = o.key
        /\ r.throughout = o.throughout /\ r.got = published /\ r.age \in {0, 1}
    BY <1>2, JWKSTypes DEF J!Validation, J!Idle
  <1> HIDE DEF r
  <1>4. \A k \in published : KeyAge(k) <= r.age
    BY <1>3, JWKSTypes DEF JWKSInv, KeyAge
  <1>5. Sound(r)
    BY <1>2, <1>3, <1>4, JWKSTypes DEF Sound
  <1>6. QED
    BY <1>1, <1>3, <1>5, OneMoves, CacheStays

LEMMA FetchFailsKeeps ==
    ASSUME JWKSInv, NEW p \in Proc, J!FetchFails(p) \/ J!FetchGarbled(p) PROVE JWKSInv'
  <1> DEFINE o == req[p]
             r(pc, force) == [o EXCEPT !.failed = TRUE, !.pc = pc, !.force = force]
  <1>1. o.pc = "fetch" /\ UNCHANGED <<published, lastSeen, fetched, now, jwksCache>>
    BY DEF J!FetchFails, J!FetchGarbled
  <1>2. o \in J!Validation /\ o # J!Idle /\ Sound(o)
    BY <1>1, JWKSTypes DEF JWKSInv, J!Idle
  <1>3. \E pc \in {"accepted", "rejected", "fetch"}, force \in BOOLEAN :
           /\ req' = [req EXCEPT ![p] = r(pc, force)]
           /\ pc = "accepted" => o.key \in jwksCache.keys /\ J!Usable(StaleAge)
    <2>1. req \in [Proc -> J!Validation]
      BY JWKSTypes
    <2>2. o.force \in BOOLEAN
      BY <1>2 DEF J!Validation, J!Idle
    <2>3. ASSUME NEW pc \in {"accepted", "rejected", "fetch"},
                 req' = [[req EXCEPT ![p].failed = TRUE] EXCEPT ![p].pc = pc]
          PROVE  req' = [req EXCEPT ![p] = r(pc, o.force)]
      BY <1>2, <2>1, <2>3 DEF J!Validation, J!Idle
    <2>4. ASSUME NEW pc \in {"accepted", "rejected", "fetch"},
                 req' = [[req EXCEPT ![p].failed = TRUE] EXCEPT ![p].pc = pc, ![p].force = TRUE]
          PROVE  req' = [req EXCEPT ![p] = r(pc, TRUE)]
      BY <1>2, <2>1, <2>4 DEF J!Validation, J!Idle
    <2>5. CASE J!FetchGarbled(p)
      <3>1. req' = [req EXCEPT ![p].pc = "rejected", ![p].failed = TRUE]
        BY <2>5 DEF J!FetchGarbled
      <3>2. req' = [req EXCEPT ![p] = r("rejected", o.force)]
        BY <1>2, <2>1, <3>1 DEF J!Validation, J!Idle
      <3>3. QED
        BY <2>2, <3>2
    <2>6. CASE J!FetchFails(p)
      <3> DEFINE rr == [req EXCEPT ![p].failed = TRUE]
      <3>1. CASE ~J!Fallback(StaleAge)
        <4>1. req' = [rr EXCEPT ![p].pc = "rejected"]
          BY <2>6, <3>1 DEF J!FetchFails
        <4>2. QED
          BY <4>1, <2>2, <2>3
      <3>2. CASE J!Fallback(StaleAge) /\ J!Found(jwksCache.keys, o.kid)
        <4>1. PICK ok \in BOOLEAN : /\ J!Verifies(p, jwksCache.keys, ok)
                                    /\ req' = [rr EXCEPT ![p].pc = IF ok THEN "accepted" ELSE "rejected"]
          BY <2>6, <3>2 DEF J!FetchFails
        <4>2. req' = [req EXCEPT ![p] = r(IF ok THEN "accepted" ELSE "rejected", o.force)]
          BY <4>1, <2>3
        <4>3. ok => o.key \in jwksCache.keys
          BY <1>2, <3>2, <4>1 DEF J!Verifies, J!Found, Sound
        <4>4. QED
          BY <2>2, <3>2, <4>2, <4>3 DEF J!Fallback
      <3>3. CASE J!Fallback(StaleAge) /\ ~J!Found(jwksCache.keys, o.kid)
        <4>1. \E pc \in {"rejected", "fetch"} : req' = [rr EXCEPT ![p].pc = pc, ![p].force = TRUE]
          BY <2>6, <3>3 DEF J!FetchFails
        <4>2. QED
          BY <4>1, <2>4
      <3>4. QED
        BY <3>1, <3>2, <3>3
    <2>7. QED
      BY <2>5, <2>6
  <1>4. PICK pc \in {"accepted", "rejected", "fetch"}, force \in BOOLEAN :
           /\ req' = [req EXCEPT ![p] = r(pc, force)]
           /\ pc = "accepted" => o.key \in jwksCache.keys /\ J!Usable(StaleAge)
    BY <1>3
  <1> DEFINE s == r(pc, force)
  <1> HIDE DEF o
  <1>5. /\ s \in J!Validation /\ s.pc = pc /\ s.kid = o.kid /\ s.key = o.key
        /\ s.throughout = o.throughout /\ s.failed /\ s.age \in {0, 1}
    BY <1>2 DEF J!Validation, J!Idle
  <1>6. req' = [req EXCEPT ![p] = s]
    BY <1>4
  <1> HIDE DEF s
  <1>7. pc = "accepted" => KeyAge(o.key) < StaleAge + 1 /\ KeyAge(o.key) \in Nat
    BY <1>4, UsableIsYoung, JWKSTypes
  <1>8. Sound(s)
    BY <1>2, <1>5, <1>7, JWKSTypes DEF Sound
  <1>9. QED
    BY <1>1, <1>5, <1>6, <1>8, OneMoves, CacheStays

LEMMA JWKSStoreKeeps == ASSUME JWKSInv, NEW p \in Proc, J!Store(p) PROVE JWKSInv'
  <1>1. /\ req[p].pc = "store" /\ req[p] # J!Idle /\ J!Resolve(p, req[p].got)
        /\ jwksCache' = [keys |-> req[p].got, fetchedAt |-> now]
        /\ UNCHANGED <<published, lastSeen, fetched, now>>
    BY DEF J!Store, J!Idle, J!FetchedAt, J!Result
  <1>2. Sound(req[p]) /\ req[p] \in J!Validation /\ req[p].age \in {0, 1}
    BY <1>1, JWKSTypes DEF JWKSInv, J!Validation
  <1>3. /\ req[p].got \subseteq 1 .. fetched /\ (req[p].throughout => req[p].kid \in req[p].got)
        /\ \A k \in req[p].got : KeyAge(k) <= 1
    BY <1>1, <1>2, JWKSTypes DEF Sound
  <1>4. \A k \in req[p].got : KeyAge(k) < FreshAge + 1
    BY <1>3, JWKSTypes
  <1>5. PICK r \in J!Validation : req' = [req EXCEPT ![p] = r] /\ r # J!Idle /\ Sound(r)
    BY <1>1, <1>3, <1>4, Resolved
  <1>6. /\ jwksCache'.keys \subseteq 1 .. fetched /\ jwksCache'.fetchedAt \in -StaleAge .. now
        /\ \A k \in jwksCache'.keys : jwksCache'.fetchedAt - 1 <= lastSeen[k]
    BY <1>1, <1>3, JWKSTypes DEF KeyAge
  <1>7. QED
    BY <1>1, <1>5, <1>6, OneMoves

LEMMA JWKSDoneKeeps == ASSUME JWKSInv, NEW p \in Proc, J!Done(p) PROVE JWKSInv'
  BY OneMoves, CacheStays DEF J!Done, J!Validation

LEMMA PublishKeeps == ASSUME JWKSInv, J!Publish PROVE JWKSInv'
  <1>1. /\ fetched' = fetched + 1 /\ published' = published \cup {fetched + 1}
        /\ lastSeen' = [k \in 1 .. fetched + 1 |-> IF k \in published' THEN now ELSE lastSeen[k]]
        /\ fetched + 1 \in J!Key
        /\ UNCHANGED <<jwksCache, req, now>>
    BY JWKSTypes DEF J!Publish, J!Key
  <1>2. /\ \A k \in 1 .. fetched : k \in 1 .. fetched + 1 /\ lastSeen'[k] = lastSeen[k]
        /\ \A k \in 1 .. fetched + 1 : k = fetched + 1 \/ k \in 1 .. fetched
        /\ \A k \in published' : lastSeen'[k] = now
    BY <1>1, JWKSTypes DEF JWKSInv
  <1>3. J!TypeOK'
    <2>1. lastSeen' \in [1 .. fetched' -> 0 .. now']
      BY <1>1, JWKSTypes DEF JWKSInv, J!TypeOK
    <2>2. published' \subseteq 1 .. fetched' /\ jwksCache'.keys \subseteq 1 .. fetched'
      BY <1>1, <1>2, JWKSTypes
    <2>3. QED
      BY <1>1, <2>1, <2>2 DEF JWKSInv, J!TypeOK
  <1>4. ASSUME NEW p \in Proc, req[p] # J!Idle PROVE Sound(req[p])'
    <2>1. Sound(req[p])
      BY <1>4 DEF JWKSInv
    <2>2. QED
      BY <1>1, <1>2, <2>1 DEF Sound, KeyAge
  <1>5. QED
    BY <1>1, <1>2, <1>3, <1>4, JWKSTypes DEF JWKSInv

LEMMA WithdrawKeeps == ASSUME JWKSInv, NEW k \in J!Key, J!Withdraw(k) PROVE JWKSInv'
  <1>1. /\ published' = published \ {k} /\ UNCHANGED <<lastSeen, jwksCache, fetched, now>>
        /\ req' = [p \in Proc |-> IF req[p] # J!Idle /\ req[p].kid = k
                                     THEN [req[p] EXCEPT !.throughout = FALSE] ELSE req[p]]
    BY DEF J!Withdraw
  <1>2. ASSUME NEW p \in Proc
        PROVE  /\ req'[p] \in J!Validation /\ (req'[p] = J!Idle <=> req[p] = J!Idle)
               /\ req'[p] # J!Idle => Sound(req'[p])
               /\ req'[p] # J!Idle => (req'[p].throughout => req'[p].kid # k)
    <2>0. PICK o : o = req[p]
      OBVIOUS
    <2> DEFINE s == [o EXCEPT !.throughout = FALSE]
    <2>1. o \in J!Validation /\ (o # J!Idle => Sound(o))
      BY <2>0, JWKSTypes DEF JWKSInv
    <2>2. req'[p] = IF o # J!Idle /\ o.kid = k THEN s ELSE o
      BY <1>1, <2>0
    <2>3. o # J!Idle =>
             /\ s \in J!Validation /\ s # J!Idle /\ ~s.throughout /\ s.kid = o.kid /\ s.key = o.key
             /\ s.pc = o.pc /\ s.got = o.got /\ s.age = o.age /\ s.failed = o.failed /\ s.force = o.force
      BY <2>1 DEF J!Validation, J!Idle
    <2> HIDE DEF s
    <2>4. o # J!Idle => Sound(s)
      BY <2>1, <2>3 DEF Sound
    <2>5. QED
      BY <2>0, <2>1, <2>2, <2>3, <2>4
  <1>3. J!TypeOK'
    BY <1>1, <1>2 DEF JWKSInv, J!TypeOK
  <1>4. ASSUME NEW p \in Proc, req'[p] # J!Idle PROVE Sound(req[p])'
    <2>1. PICK o : o = req'[p]
      OBVIOUS
    <2>2. Sound(o) /\ (o.throughout => o.kid \in published')
      <3>1. Sound(o) /\ (o.throughout => o.kid # k)
        BY <1>2, <1>4, <2>1
      <3>2. QED
        BY <1>1, <3>1 DEF Sound
    <2>3. Sound(o)'
      BY <1>1, <2>2 DEF Sound, KeyAge
    <2>4. QED
      BY <2>1, <2>3 DEF Sound, KeyAge
  <1>5. QED
    BY <1>1, <1>3, <1>4 DEF JWKSInv

LEMMA JWKSTickKeeps == ASSUME JWKSInv, J!Tick PROVE JWKSInv'
  <1>1. /\ now' = now + 1 /\ now' \in 0 .. MaxJWKSTime
        /\ lastSeen' = [k \in 1 .. fetched |-> IF k \in published THEN now + 1 ELSE lastSeen[k]]
        /\ req' = [p \in Proc |-> IF req[p] = J!Idle THEN J!Idle ELSE [req[p] EXCEPT !.age = 1]]
        /\ UNCHANGED <<published, jwksCache, fetched>>
        /\ \A p \in Proc : req[p] # J!Idle => req[p].age = 0
    BY JWKSTypes DEF J!Tick
  <1>2. \A k \in 1 .. fetched : /\ KeyAge(k)' \in Nat /\ KeyAge(k)' <= KeyAge(k) + 1
                               /\ lastSeen[k] <= lastSeen'[k] /\ lastSeen'[k] \in 0 .. now'
    BY <1>1, JWKSTypes DEF KeyAge, JWKSInv
  <1>3. ASSUME NEW p \in Proc
        PROVE req'[p] \in J!Validation /\ (req'[p] # J!Idle => Sound(req[p])')
    <2>0. PICK o : o = req[p]
      OBVIOUS
    <2> DEFINE s == [o EXCEPT !.age = 1]
    <2>1. o \in J!Validation /\ (o # J!Idle => Sound(o) /\ o.age = 0)
      BY <1>1, <2>0, JWKSTypes DEF JWKSInv
    <2>2. req'[p] = IF o = J!Idle THEN J!Idle ELSE s
      BY <1>1, <2>0
    <2>3. o # J!Idle =>
             /\ s \in J!Validation /\ s.throughout = o.throughout /\ s.kid = o.kid /\ s.key = o.key
             /\ s.pc = o.pc /\ s.got = o.got /\ s.age = 1 /\ s.failed = o.failed /\ s.force = o.force
      BY <2>1 DEF J!Validation, J!Idle
    <2>4. CASE o = J!Idle
      BY <2>2, <2>4 DEF J!Validation
    <2>5. CASE o # J!Idle
      <3>1. req'[p] = s
        BY <2>2, <2>5
      <3>2. /\ s.kid \in {s.key, NoKid} /\ s.key \in 1 .. fetched
            /\ s.throughout => s.kid \in published
            /\ s.pc = "lookup" => ~s.force
            /\ s.pc = "rejected" /\ s.kid # NoKid => ~s.throughout \/ s.failed
        BY <2>1, <2>3, <2>5 DEF Sound
      <3>3. s.pc = "store" =>
              /\ s.got \subseteq 1 .. fetched /\ (s.throughout => s.kid \in s.got)
              /\ \A k \in s.got : KeyAge(k)' <= 1
        BY <1>2, <2>1, <2>3, <2>5, JWKSTypes DEF Sound
      <3>4. s.pc = "accepted" =>
              KeyAge(o.key)' < (IF s.failed THEN StaleAge ELSE FreshAge) + 1 + 1
        <4>1. /\ o.key \in 1 .. fetched /\ KeyAge(o.key) \in Nat /\ KeyAge(o.key)' \in Nat
              /\ KeyAge(o.key)' <= KeyAge(o.key) + 1
          BY <1>2, <2>1, <2>5, JWKSTypes DEF Sound
        <4>2. s.pc = "accepted" => KeyAge(o.key) < (IF s.failed THEN StaleAge ELSE FreshAge) + 1
          BY <2>1, <2>3, <2>5, JWKSTypes DEF Sound
        <4>3. QED
          BY <4>1, <4>2, JWKSTypes
      <3>5. s.pc = "accepted" =>
              now' - lastSeen'[s.key] < (IF s.failed THEN StaleAge ELSE FreshAge) + 1 + s.age
        BY <2>3, <2>5, <3>4 DEF KeyAge
      <3>6. Sound(s)'
        BY <1>1, <2>3, <2>5, <3>2, <3>3, <3>5 DEF Sound, KeyAge
      <3>7. s \in J!Validation
        BY <2>3, <2>5
      <3> HIDE DEF s
      <3>8. Sound(req[p])'
        BY <3>1, <3>6 DEF Sound, KeyAge
      <3>9. QED
        BY <3>1, <3>7, <3>8
    <2>6. QED
      BY <2>4, <2>5
  <1>4. J!TypeOK'
    <2>1. lastSeen' \in [1 .. fetched -> 0 .. now']
      BY <1>1, <1>2
    <2>2. jwksCache.fetchedAt \in -StaleAge .. now'
      BY <1>1, JWKSTypes DEF JWKSInv, J!TypeOK
    <2>3. req' \in [Proc -> J!Validation]
      BY <1>1, <1>3
    <2>4. QED
      BY <1>1, <2>1, <2>2, <2>3 DEF JWKSInv, J!TypeOK
  <1>5. /\ \A k \in published' : lastSeen'[k] = now'
        /\ \A k \in jwksCache'.keys : jwksCache'.fetchedAt - 1 <= lastSeen'[k]
    <2>1. \A k \in jwksCache.keys : k \in 1 .. fetched /\ jwksCache.fetchedAt - 1 <= lastSeen[k]
      BY JWKSTypes DEF JWKSInv
    <2>2. \A k \in 1 .. fetched : lastSeen[k] \in Nat /\ lastSeen'[k] \in Nat
      BY <1>2, JWKSTypes
    <2>3. \A k \in jwksCache.keys : jwksCache.fetchedAt - 1 <= lastSeen'[k]
      BY <1>2, <2>1, <2>2, JWKSTypes
    <2>4. QED
      BY <1>1, <2>3, JWKSTypes
  <1>6. QED
    BY <1>3, <1>4, <1>5 DEF JWKSInv

LEMMA JWKSStepKeeps == ASSUME JWKSInv, J!Next PROVE JWKSInv'
  BY PublishKeeps, WithdrawKeeps, ValidateKeeps, LookupKeeps, FetchKeeps, FetchFailsKeeps,
     JWKSStoreKeeps, JWKSDoneKeeps, JWKSTickKeeps DEF J!Next

-----------------------------------------------------------------------------
(* Providers *)

Somebody == Provider \cup {NoProvider}
Cell == [of : Somebody, uri : Somebody]
Room == P!Watched + SpareCells
Search ==
    {P!Idle} \cup
    [pc : {"scan", "lookup", "resolve", "discover", "keep", "fetch", "fallback", "verify",
           "accepted", "rejected", "unknown"},
     issuer : Provider, at : 1 .. P!Watched + 1, asked : Somebody, keys : Somebody,
     audience : Somebody, again : BOOLEAN, overlapped : BOOLEAN]

TableTypes ==
    /\ cells \in [1 .. Room -> Cell] /\ size \in 0 .. Room
    /\ DOMAIN keysOf \subseteq Somebody /\ keysOf \in [DOMAIN keysOf -> Somebody]
    /\ moving \in [of : Somebody, read : Nat, write : Nat]
    /\ moving # P!Still =>
          /\ moving.of \in Provider /\ shared
          /\ 0 < moving.write /\ moving.write <= moving.read /\ moving.read <= size + 1
    /\ kept \subseteq Provider /\ mixed \in BOOLEAN /\ shared \in BOOLEAN
    /\ tableEdits \in 0 .. MaxProviderEdits

\* Addresses and keys are those of the provider they are filed under.
FiledRight ==
    ~mixed =>
        /\ \A i \in 1 .. Room : cells[i].uri \in {NoProvider, cells[i].of}
        /\ \A x \in DOMAIN keysOf : keysOf[x] = x

\* Cells of the table: the part that a removal has written and the one it has
\* still to read.
InTable(i) ==
    /\ i \in 1 .. P!Watched
    /\ shared => IF moving = P!Still THEN i <= size
                 ELSE i < moving.write \/ (moving.read <= i /\ i <= size)

KeptAreListed ==
    /\ \A k \in kept : \E i \in 1 .. P!Watched : InTable(i) /\ cells[i].of = k
    /\ moving.of \notin kept

\* A search that no edit overlaps has not passed its issuer.  One that points
\* to a provider points to its issuer, and holds that issuer's keys.
SearchInv(r) ==
    /\ r.pc \notin {"scan", "unknown"} => r.at \in 1 .. P!Watched
    /\ r.pc = "scan" /\ ~r.overlapped =>
          moving = P!Still /\ \A j \in 1 .. r.at - 1 : cells[j].of # r.issuer
    /\ r.pc = "unknown" /\ ~r.overlapped => r.issuer \notin kept
    /\ ~mixed =>
          /\ r.pc \notin {"scan", "unknown"} => cells[r.at].of = r.issuer
          /\ r.pc \in {"discover", "keep", "fetch"} => r.asked = r.issuer
          /\ r.pc \in {"verify", "accepted"} => r.keys = r.issuer
          /\ r.pc = "accepted" => r.audience = r.issuer

SearchesInv ==
    /\ validating \in [Caller -> Search]
    /\ \A p \in Caller : validating[p] # P!Idle => SearchInv(validating[p])

ProviderInv == TableTypes /\ FiledRight /\ KeptAreListed /\ SearchesInv

LEMMA WatchedIsNat ==
    /\ P!Watched \in Nat /\ Configured \in [1 .. P!Watched -> Provider]
    /\ Room \in Nat /\ P!Watched <= Room
  <1>1. Configured \in Seq(Provider)
    BY ProviderAssumption
  <1>2. P!Watched = Len(Configured)
    BY DEF P!Watched
  <1>3. QED
    BY <1>1, <1>2, ProviderAssumption DEF Room

LEMMA ProviderInit == P!Init => ProviderInv
  <1> SUFFICES ASSUME P!Init PROVE ProviderInv
    OBVIOUS
  <1> DEFINE es == P!Entries(Configured)
             free == [i \in 1 .. SpareCells |-> P!Nobody]
  <1>1. es \in [1 .. P!Watched -> Cell] /\ \A i \in 1 .. P!Watched :
                   es[i].of = Configured[i] /\ es[i].uri \in {NoProvider, Configured[i]}
    BY WatchedIsNat DEF P!Entries, P!Entry, P!Auto, Cell, Somebody
  <1>2. free \in [1 .. SpareCells -> Cell] /\ \A i \in 1 .. SpareCells : free[i] = P!Nobody
    BY DEF P!Nobody, Cell, Somebody
  <1>3. es \in Seq(Cell) /\ Len(es) = P!Watched /\ free \in Seq(Cell) /\ Len(free) = SpareCells
    BY <1>1, <1>2, WatchedIsNat, ProviderAssumption
  <1>4. cells = es \o free
    BY DEF P!Init
  <1> HIDE DEF es, free
  <1>5. /\ cells \in [1 .. Room -> Cell]
        /\ \A i \in 1 .. P!Watched : cells[i] = es[i]
        /\ \A i \in P!Watched + 1 .. Room : cells[i] = P!Nobody
    <2>1. /\ Len(cells) = Len(es) + Len(free)
          /\ \A i \in 1 .. Len(es) + Len(free) :
                cells[i] = IF i <= Len(es) THEN es[i] ELSE free[i - Len(es)]
      BY <1>3, <1>4, ConcatProperties
    <2>2. Len(cells) = Room
      BY <1>3, <2>1, WatchedIsNat, ProviderAssumption DEF Room
    <2>3. \A i \in P!Watched + 1 .. Room : i - P!Watched \in 1 .. SpareCells
      BY WatchedIsNat, ProviderAssumption DEF Room
    <2>4. \A i \in P!Watched + 1 .. Room : cells[i] = P!Nobody
      BY <1>2, <1>3, <2>1, <2>2, <2>3, WatchedIsNat
    <2>5. \A i \in 1 .. P!Watched : cells[i] = es[i]
      BY <1>3, <2>1, <2>2, WatchedIsNat
    <2>6. cells \in Seq(Cell)
      BY <1>3, <1>4, ConcatProperties
    <2>7. QED
      BY <2>2, <2>4, <2>5, <2>6
  <1>6. size = P!Watched /\ shared = TRUE /\ moving = P!Still /\ mixed = FALSE /\ tableEdits = 0
    BY DEF P!Init
  <1>7. kept = {Configured[i] : i \in 1 .. P!Watched} /\ DOMAIN keysOf = {}
    BY DEF P!Init, P!EmptyMap
  <1>8. TableTypes
    <2>1. keysOf \in [DOMAIN keysOf -> Somebody]
      BY DEF P!Init, P!EmptyMap
    <2>2. moving \in [of : Somebody, read : Nat, write : Nat]
      BY <1>6 DEF P!Still, Somebody
    <2>3. kept \subseteq Provider
      BY <1>7, WatchedIsNat
    <2>4. size \in 0 .. Room /\ tableEdits \in 0 .. MaxProviderEdits
      BY <1>6, WatchedIsNat, ProviderAssumption
    <2>5. DOMAIN keysOf \subseteq Somebody /\ mixed \in BOOLEAN /\ shared \in BOOLEAN
      BY <1>6, <1>7
    <2>6. QED
      BY <1>5, <1>6, <2>1, <2>2, <2>3, <2>4, <2>5 DEF TableTypes
  <1>9. FiledRight
    <2>1. \A i \in 1 .. Room : cells[i].uri \in {NoProvider, cells[i].of}
      <3> SUFFICES ASSUME NEW i \in 1 .. Room PROVE cells[i].uri \in {NoProvider, cells[i].of}
        OBVIOUS
      <3>1. CASE i <= P!Watched
        BY <1>1, <1>5, <3>1, WatchedIsNat
      <3>2. CASE i > P!Watched
        BY <1>5, <3>2, WatchedIsNat DEF P!Nobody
      <3>3. QED
        BY <3>1, <3>2, WatchedIsNat
    <2>2. QED
      BY <1>7, <2>1 DEF FiledRight
  <1>10. KeptAreListed
    <2>1. moving.of = NoProvider
      BY <1>6 DEF P!Still
    <2>2. \A i \in 1 .. P!Watched : InTable(i) /\ cells[i].of = Configured[i]
      BY <1>1, <1>5, <1>6, WatchedIsNat DEF InTable
    <2>3. QED
      BY <1>7, <2>1, <2>2, WatchedIsNat, ProviderAssumption DEF KeptAreListed
  <1>11. SearchesInv
    BY DEF P!Init, SearchesInv, Search
  <1>12. QED
    BY <1>8, <1>9, <1>10, <1>11 DEF ProviderInv

LEMMA ProviderSafe == ProviderInv => P!TypeOK /\ P!VerifiedByItsIssuer
  <1> SUFFICES ASSUME ProviderInv PROVE P!TypeOK /\ P!VerifiedByItsIssuer
    OBVIOUS
  <1>1. Len(cells) = Room /\ DOMAIN cells = 1 .. Room
    BY WatchedIsNat DEF ProviderInv, TableTypes
  <1>2. P!TypeOK
    BY <1>1 
    DEF ProviderInv, TableTypes, SearchesInv, SearchInv, P!TypeOK, P!Locked, P!Pointing, P!Idle, Cell,
        Somebody, Search
  <1>3. P!VerifiedByItsIssuer
    BY DEF ProviderInv, SearchesInv, SearchInv, P!VerifiedByItsIssuer, P!Idle
  <1>4. QED
    BY <1>2, <1>3

Unedited == UNCHANGED <<cells, size, own, shared, moving, kept, mixed, tableEdits>>

\* A step of one search.
LEMMA OneSearches ==
    ASSUME ProviderInv, NEW p \in Caller, NEW r \in Search,
           validating' = [validating EXCEPT ![p] = r], r # P!Idle => SearchInv(r),
           Unedited, keysOf' = keysOf
    PROVE  ProviderInv'
  <1>1. TableTypes' /\ FiledRight' /\ KeptAreListed'
    BY DEF ProviderInv, TableTypes, FiledRight, KeptAreListed, InTable, Unedited
  <1>2. \A s \in Search : SearchInv(s) => SearchInv(s)'
    BY DEF SearchInv, Unedited
  <1>3. SearchesInv'
    BY <1>2 DEF ProviderInv, SearchesInv
  <1>4. QED
    BY <1>1, <1>3 DEF ProviderInv

\* What a search that points to a cell finds there.
LEMMA Pointed ==
    ASSUME ProviderInv, NEW p \in Caller, validating[p] # P!Idle
    PROVE  /\ validating[p] \in Search \ {P!Idle} /\ SearchInv(validating[p])
           /\ P!There(p) = cells[validating[p].at]
           /\ validating[p].pc \notin {"scan", "unknown"} =>
                 /\ validating[p].at \in 1 .. Room /\ P!There(p) \in Cell
                 /\ ~mixed => P!There(p).uri \in {NoProvider, P!There(p).of}
           /\ \A x \in DOMAIN keysOf : keysOf[x] \in Somebody /\ (~mixed => keysOf[x] = x)
  BY WatchedIsNat DEF ProviderInv, SearchesInv, SearchInv, TableTypes, FiledRight, Search, P!There,
                         P!Idle

LEMMA SearchStarts ==
    ASSUME ProviderInv, NEW p \in Caller, NEW issuer \in Provider, P!Validate(p, issuer)
    PROVE  ProviderInv'
  <1> DEFINE r == [pc |-> "scan", issuer |-> issuer, at |-> 1, asked |-> P!Auto, keys |-> P!Auto,
                   audience |-> P!Auto, again |-> FALSE, overlapped |-> moving # P!Still]
  <1>1. validating' = [validating EXCEPT ![p] = r] /\ Unedited /\ keysOf' = keysOf
    BY DEF P!Validate, Unedited, P!table, P!history
  <1>2. r \in Search
    BY WatchedIsNat DEF Search, Somebody, P!Auto
  <1>3. r.pc = "scan" /\ r.at = 1 /\ (r.overlapped <=> moving # P!Still)
    OBVIOUS
  <1> HIDE DEF r
  <1>4. SearchInv(r)
    BY <1>3 DEF SearchInv
  <1>5. QED
    BY <1>1, <1>2, <1>4, OneSearches

LEMMA SearchFinds ==
    ASSUME ProviderInv, NEW p \in Caller, P!FindProvider(p)
    PROVE  ProviderInv'
  <1>1. PICK o : o = validating[p]
    OBVIOUS
  <1>2. /\ o.pc = "scan" /\ Unedited /\ keysOf' = keysOf
        /\ \/ /\ P!There(p).of = o.issuer /\ o.at <= P!Watched
              /\ validating' = [validating EXCEPT ![p] = [o EXCEPT !.pc = "lookup"]]
           \/ /\ P!There(p).of # o.issuer /\ o.at <= P!Watched
              /\ validating' = [validating EXCEPT ![p] = [o EXCEPT !.at = o.at + 1]]
           \/ /\ ~(o.at <= P!Watched)
              /\ validating' = [validating EXCEPT ![p] = [o EXCEPT !.pc = "unknown"]]
    BY <1>1 DEF P!FindProvider, P!To, Unedited, P!table, P!history
  <1>3. /\ validating[p] # P!Idle /\ o \in Search /\ SearchInv(o) /\ P!There(p) = cells[o.at]
    BY <1>1, <1>2, Pointed DEF P!Idle
  <1>4. CASE /\ P!There(p).of = o.issuer /\ o.at <= P!Watched
             /\ validating' = [validating EXCEPT ![p] = [o EXCEPT !.pc = "lookup"]]
    <2> DEFINE r == [o EXCEPT !.pc = "lookup"]
    <2>1. /\ r \in Search /\ r.pc = "lookup" /\ r.at = o.at /\ r.issuer = o.issuer
          /\ r.at \in 1 .. P!Watched
      BY <1>2, <1>3, <1>4, WatchedIsNat DEF Search, P!Idle
    <2> HIDE DEF r
    <2>2. SearchInv(r)
      BY <1>3, <1>4, <2>1 DEF SearchInv
    <2>3. QED
      BY <1>2, <1>4, <2>1, <2>2, OneSearches DEF r
  <1>5. CASE /\ P!There(p).of # o.issuer /\ o.at <= P!Watched
             /\ validating' = [validating EXCEPT ![p] = [o EXCEPT !.at = o.at + 1]]
    <2> DEFINE r == [o EXCEPT !.at = o.at + 1]
    <2>1. /\ r \in Search /\ r.pc = "scan" /\ r.at = o.at + 1 /\ r.issuer = o.issuer
          /\ r.overlapped = o.overlapped
      BY <1>2, <1>3, <1>5, WatchedIsNat DEF Search, P!Idle
    <2> HIDE DEF r
    <2>2. o.at \in Nat
      BY <1>2, <1>3, WatchedIsNat DEF Search, P!Idle
    <2>3. SearchInv(r)
      BY <1>2, <1>3, <1>5, <2>1, <2>2 DEF SearchInv
    <2>4. QED
      BY <1>2, <1>5, <2>1, <2>3, OneSearches DEF r
  <1>6. CASE /\ ~(o.at <= P!Watched)
             /\ validating' = [validating EXCEPT ![p] = [o EXCEPT !.pc = "unknown"]]
    <2> DEFINE r == [o EXCEPT !.pc = "unknown"]
    <2>1. /\ r \in Search /\ r.pc = "unknown" /\ r.issuer = o.issuer
          /\ r.overlapped = o.overlapped
      BY <1>2, <1>3 DEF Search, P!Idle
    <2> HIDE DEF r
    <2>2. o.at = P!Watched + 1
      BY <1>2, <1>3, <1>6, WatchedIsNat DEF Search, P!Idle
    <2>3. ~o.overlapped => o.issuer \notin kept
      BY <1>2, <1>3, <2>2, WatchedIsNat DEF SearchInv, ProviderInv, KeptAreListed
    <2>4. SearchInv(r)
      BY <2>1, <2>3 DEF SearchInv
    <2>5. QED
      BY <1>2, <1>6, <2>1, <2>4, OneSearches DEF r
  <1>7. QED
    BY <1>2, <1>4, <1>5, <1>6

\* A search that has found its provider goes on.
LEMMA SearchGoesOn ==
    ASSUME ProviderInv, NEW p \in Caller, NEW o, o = validating[p],
           o.pc \notin {"idle", "scan", "unknown"},
           NEW r \in Search, validating' = [validating EXCEPT ![p] = r],
           Unedited, keysOf' = keysOf,
           r.pc \notin {"idle", "scan", "unknown"}, r.issuer = o.issuer, r.at = o.at,
           ~mixed =>
              /\ r.pc \in {"discover", "keep", "fetch"} => r.asked = r.issuer
              /\ r.pc \in {"verify", "accepted"} => r.keys = r.issuer
              /\ r.pc = "accepted" => r.audience = r.issuer
    PROVE  ProviderInv'
  <1>1. o # P!Idle
    BY DEF P!Idle
  <1>2. SearchInv(o)
    BY <1>1, Pointed
  <1>3. SearchInv(r)
    BY <1>2 DEF SearchInv
  <1>4. QED
    BY <1>3, OneSearches

LEMMA LookupFinds ==
    ASSUME ProviderInv, NEW p \in Caller, P!Lookup(p)
    PROVE  ProviderInv'
  <1>1. PICK o : o = validating[p]
    OBVIOUS
  <1>2. o.pc = "lookup" /\ Unedited /\ keysOf' = keysOf
    BY <1>1 DEF P!Lookup, Unedited, P!table, P!history
  <1>3. /\ o \in Search /\ o # P!Idle /\ SearchInv(o) /\ P!There(p) = cells[o.at]
        /\ \A x \in DOMAIN keysOf : keysOf[x] \in Somebody /\ (~mixed => keysOf[x] = x)
    BY <1>1, <1>2, Pointed DEF P!Idle
  <1>4. CASE /\ P!There(p).of \in DOMAIN keysOf
             /\ validating' = [validating EXCEPT ![p] =
                   [o EXCEPT !.pc = "verify", !.keys = keysOf[P!There(p).of]]]
    <2> DEFINE r == [o EXCEPT !.pc = "verify", !.keys = keysOf[P!There(p).of]]
    <2>1. /\ r \in Search /\ r.pc = "verify" /\ r.at = o.at /\ r.issuer = o.issuer
          /\ r.keys = keysOf[P!There(p).of]
      BY <1>2, <1>3, <1>4 DEF Search, P!Idle
    <2> HIDE DEF r
    <2>2. ~mixed => r.keys = r.issuer
      BY <1>2, <1>3, <1>4, <2>1 DEF SearchInv
    <2>3. QED
      BY <1>1, <1>2, <1>4, <2>1, <2>2, SearchGoesOn DEF r
  <1>5. CASE validating' = [validating EXCEPT ![p] = [o EXCEPT !.pc = "resolve"]]
    <2> DEFINE r == [o EXCEPT !.pc = "resolve"]
    <2>1. r \in Search /\ r.pc = "resolve" /\ r.at = o.at /\ r.issuer = o.issuer
      BY <1>2, <1>3 DEF Search, P!Idle
    <2> HIDE DEF r
    <2>2. QED
      BY <1>1, <1>2, <1>5, <2>1, SearchGoesOn DEF r
  <1>6. QED
    BY <1>1, <1>4, <1>5 DEF P!Lookup, P!To, P!CachedKeys

LEMMA AddressResolves ==
    ASSUME ProviderInv, NEW p \in Caller, P!ResolveJWKSURI(p)
    PROVE  ProviderInv'
  <1>1. PICK o : o = validating[p]
    OBVIOUS
  <1>2. PICK t : t = P!There(p)
    OBVIOUS
  <1> DEFINE pc == IF t.uri = P!Auto THEN "discover" ELSE "fetch"
             asked == IF t.uri = P!Auto THEN t.of ELSE t.uri
             r == [o EXCEPT !.pc = pc, !.asked = asked]
  <1>3. /\ o.pc = "resolve" /\ Unedited /\ keysOf' = keysOf
        /\ validating' = [validating EXCEPT ![p] = r]
    BY <1>1, <1>2 DEF P!ResolveJWKSURI, Unedited, P!table, P!history
  <1>4. /\ o \in Search /\ o # P!Idle /\ SearchInv(o) /\ t = cells[o.at]
        /\ t \in Cell /\ (~mixed => t.uri \in {NoProvider, t.of})
    BY <1>1, <1>2, <1>3, Pointed DEF P!Idle
  <1>5. pc \in {"discover", "fetch"} /\ asked \in Somebody /\ (~mixed => asked = t.of)
    BY <1>4 DEF Cell, P!Auto
  <1> HIDE DEF pc, asked
  <1>6. r \in Search /\ r.pc = pc /\ r.at = o.at /\ r.issuer = o.issuer /\ r.asked = asked
    BY <1>3, <1>4, <1>5 DEF Search, P!Idle
  <1> HIDE DEF r
  <1>7. ~mixed => r.asked = r.issuer
    BY <1>3, <1>4, <1>5, <1>6 DEF SearchInv
  <1>8. QED
    BY <1>1, <1>3, <1>5, <1>6, <1>7, SearchGoesOn

LEMMA DiscoveryChecks ==
    ASSUME ProviderInv, NEW p \in Caller, P!Discover(p)
    PROVE  ProviderInv'
  <1>1. PICK o : o = validating[p]
    OBVIOUS
  <1> DEFINE pc == IF o.asked = P!There(p).of THEN "keep" ELSE "fallback"
             r == [o EXCEPT !.pc = pc]
  <1>2. /\ o.pc = "discover" /\ Unedited /\ keysOf' = keysOf
        /\ validating' = [validating EXCEPT ![p] = r]
    BY <1>1 DEF P!Discover, P!To, Unedited, P!table, P!history
  <1>3. o \in Search /\ o # P!Idle /\ SearchInv(o)
    BY <1>1, <1>2, Pointed DEF P!Idle
  <1>4. pc \in {"keep", "fallback"}
    OBVIOUS
  <1> HIDE DEF pc
  <1>5. r \in Search /\ r.pc = pc /\ r.at = o.at /\ r.issuer = o.issuer /\ r.asked = o.asked
    BY <1>2, <1>3, <1>4 DEF Search, P!Idle
  <1> HIDE DEF r
  <1>6. ~mixed => r.asked = r.issuer
    BY <1>2, <1>3, <1>5 DEF SearchInv
  <1>7. QED
    BY <1>1, <1>2, <1>4, <1>5, <1>6, SearchGoesOn

\* A search that gives up, or goes on without a cached answer.
LEMMA SearchTurns ==
    ASSUME ProviderInv, NEW p \in Caller, NEW o, o = validating[p],
           o.pc \notin {"idle", "scan", "unknown"}, NEW pc \in {"fallback", "rejected"},
           validating' = [validating EXCEPT ![p] = [o EXCEPT !.pc = pc]],
           Unedited, keysOf' = keysOf
    PROVE  ProviderInv'
  <1> DEFINE r == [o EXCEPT !.pc = pc]
  <1>1. o \in Search /\ o # P!Idle
    BY Pointed DEF P!Idle
  <1>2. r \in Search /\ r.pc = pc /\ r.at = o.at /\ r.issuer = o.issuer
    BY <1>1 DEF Search, P!Idle
  <1> HIDE DEF r
  <1>3. validating' = [validating EXCEPT ![p] = r]
    BY DEF r
  <1>4. r.pc \notin {"idle", "scan", "unknown", "discover", "keep", "fetch", "verify", "accepted"}
    BY <1>2
  <1>5. QED
    BY <1>2, <1>3, <1>4, SearchGoesOn

LEMMA CacheFallsBack ==
    ASSUME ProviderInv, NEW p \in Caller, P!FallbackCache(p)
    PROVE  ProviderInv'
  <1>1. PICK o : o = validating[p]
    OBVIOUS
  <1>2. o.pc = "fallback" /\ Unedited /\ keysOf' = keysOf
    BY <1>1 DEF P!FallbackCache, Unedited, P!table, P!history
  <1>3. /\ o \in Search /\ o # P!Idle /\ SearchInv(o) /\ P!There(p) = cells[o.at]
        /\ \A x \in DOMAIN keysOf : keysOf[x] \in Somebody /\ (~mixed => keysOf[x] = x)
    BY <1>1, <1>2, Pointed DEF P!Idle
  <1>4. CASE /\ P!There(p).of \in DOMAIN keysOf
             /\ validating' = [validating EXCEPT ![p] =
                   [o EXCEPT !.pc = "verify", !.keys = keysOf[P!There(p).of]]]
    <2> DEFINE r == [o EXCEPT !.pc = "verify", !.keys = keysOf[P!There(p).of]]
    <2>1. /\ r \in Search /\ r.pc = "verify" /\ r.at = o.at /\ r.issuer = o.issuer
          /\ r.keys = keysOf[P!There(p).of]
      BY <1>2, <1>3, <1>4 DEF Search, P!Idle
    <2> HIDE DEF r
    <2>2. ~mixed => r.keys = r.issuer
      BY <1>2, <1>3, <1>4, <2>1 DEF SearchInv
    <2>3. QED
      BY <1>1, <1>2, <1>4, <2>1, <2>2, SearchGoesOn DEF r
  <1>5. CASE validating' = [validating EXCEPT ![p] = [o EXCEPT !.pc = "rejected"]]
    BY <1>1, <1>2, <1>5, SearchTurns
  <1>6. QED
    BY <1>1, <1>4, <1>5 DEF P!FallbackCache, P!To, P!CachedKeys

LEMMA SearchFails ==
    ASSUME ProviderInv, NEW p \in Caller, P!Unreachable(p) \/ P!Refuse(p)
    PROVE  ProviderInv'
  <1>1. PICK o : o = validating[p]
    OBVIOUS
  <1>2. PICK pc \in {"fallback", "rejected"} :
            /\ o.pc \notin {"idle", "scan", "unknown"} /\ Unedited /\ keysOf' = keysOf
            /\ validating' = [validating EXCEPT ![p] = [o EXCEPT !.pc = pc]]
    BY <1>1 DEF P!Unreachable, P!Refuse, P!To, Unedited, P!table, P!history
  <1>3. QED
    BY <1>1, <1>2, SearchTurns

LEMMA KeyIsSoughtAgain ==
    ASSUME ProviderInv, NEW p \in Caller, P!ResolveKey(p)
    PROVE  ProviderInv'
  <1>1. PICK o : o = validating[p]
    OBVIOUS
  <1> DEFINE r == [o EXCEPT !.pc = "resolve", !.again = TRUE]
  <1>2. /\ o.pc = "verify" /\ Unedited /\ keysOf' = keysOf
        /\ validating' = [validating EXCEPT ![p] = r]
    BY <1>1 DEF P!ResolveKey, Unedited, P!table, P!history
  <1>3. o \in Search \ {P!Idle}
    BY <1>1, <1>2, Pointed DEF P!Idle
  <1>4. r \in Search /\ r.pc = "resolve" /\ r.at = o.at /\ r.issuer = o.issuer
    BY <1>3 DEF Search
  <1> HIDE DEF r
  <1>5. QED
    BY <1>1, <1>2, <1>4, SearchGoesOn

LEMMA AudienceMatches ==
    ASSUME ProviderInv, NEW p \in Caller, P!AudienceMatch(p)
    PROVE  ProviderInv'
  <1>1. PICK o : o = validating[p]
    OBVIOUS
  <1>2. PICK t : t = P!There(p)
    OBVIOUS
  <1> DEFINE r == [o EXCEPT !.pc = "accepted", !.audience = t.of]
  <1>3. /\ o.pc = "verify" /\ Unedited /\ keysOf' = keysOf
        /\ validating' = [validating EXCEPT ![p] = r]
    BY <1>1, <1>2 DEF P!AudienceMatch, Unedited, P!table, P!history
  <1>4. o \in Search /\ o # P!Idle /\ SearchInv(o) /\ t = cells[o.at] /\ t.of \in Somebody
    BY <1>1, <1>2, <1>3, Pointed DEF P!Idle, Cell
  <1>5. /\ r \in Search /\ r.pc = "accepted" /\ r.at = o.at /\ r.issuer = o.issuer
        /\ r.keys = o.keys /\ r.audience = t.of
    BY <1>3, <1>4 DEF Search, P!Idle
  <1> HIDE DEF r
  <1>6. ~mixed => r.keys = r.issuer /\ r.audience = r.issuer
    BY <1>3, <1>4, <1>5 DEF SearchInv
  <1>7. QED
    BY <1>1, <1>3, <1>5, <1>6, SearchGoesOn

LEMMA SearchReturns ==
    ASSUME ProviderInv, NEW p \in Caller, P!Return(p)
    PROVE  ProviderInv'
  <1>1. validating' = [validating EXCEPT ![p] = P!Idle] /\ Unedited /\ keysOf' = keysOf
    BY DEF P!Return, Unedited, P!table, P!history
  <1>2. P!Idle \in Search
    BY DEF Search
  <1>3. QED
    BY <1>1, <1>2, OneSearches

\* The address is kept, and the keys are stored, where the search points.
LEMMA AddressIsKept ==
    ASSUME ProviderInv, NEW p \in Caller, P!KeepURI(p)
    PROVE  ProviderInv'
  <1>1. PICK o : o = validating[p]
    OBVIOUS
  <1> DEFINE r == [o EXCEPT !.pc = "fetch"]
             c == [cells[o.at] EXCEPT !.uri = o.asked]
  <1>2. /\ o.pc = "keep" /\ keysOf' = keysOf
        /\ UNCHANGED <<size, own, shared, moving, kept, mixed, tableEdits>>
        /\ validating' = [validating EXCEPT ![p] = r]
        /\ cells' = [cells EXCEPT ![o.at] = c]
    BY <1>1 DEF P!KeepURI, P!To, P!history
  <1>3. /\ o \in Search \ {P!Idle} /\ SearchInv(o) /\ o.at \in 1 .. Room
        /\ cells[o.at] \in Cell
    BY <1>1, <1>2, Pointed DEF P!Idle
  <1>4. /\ r \in Search /\ r.pc = "fetch" /\ r.at = o.at /\ r.issuer = o.issuer
        /\ r.asked = o.asked
    BY <1>3 DEF Search
  <1>5. o.asked \in Somebody
    BY <1>3 DEF Search
  <1>6. c \in Cell /\ c.of = cells[o.at].of /\ c.uri = o.asked
    BY <1>3, <1>5 DEF Cell
  <1> HIDE DEF r, c
  <1>7. /\ cells' \in [1 .. Room -> Cell] /\ \A i \in 1 .. Room : cells'[i].of = cells[i].of
        /\ \A i \in 1 .. Room : cells'[i].uri = cells[i].uri \/ (i = o.at /\ cells'[i].uri = o.asked)
    BY <1>2, <1>3, <1>6 DEF ProviderInv, TableTypes
  <1>8. TableTypes'
    BY <1>2, <1>7 DEF ProviderInv, TableTypes
  <1>9. FiledRight'
    BY <1>2, <1>3, <1>7 DEF ProviderInv, FiledRight, SearchInv
  <1>10. KeptAreListed'
    BY <1>2, <1>7, WatchedIsNat DEF ProviderInv, KeptAreListed, InTable
  <1>11. SearchInv(r)
    BY <1>2, <1>3, <1>4 DEF SearchInv
  <1>12. ASSUME NEW s \in Search \ {P!Idle}, SearchInv(s) PROVE SearchInv(s)'
    <2>1. /\ s.pc \notin {"scan", "unknown"} => s.at \in 1 .. Room
          /\ \A j \in 1 .. s.at - 1 : j \in 1 .. Room
      BY <1>12, WatchedIsNat DEF Search, SearchInv
    <2>2. QED
      BY <1>2, <1>7, <1>12, <2>1 DEF SearchInv
  <1>13. SearchesInv'
    BY <1>2, <1>4, <1>11, <1>12 DEF ProviderInv, SearchesInv, P!Idle
  <1>14. QED
    BY <1>8, <1>9, <1>10, <1>13 DEF ProviderInv

LEMMA KeysAreStored ==
    ASSUME ProviderInv, NEW p \in Caller, P!Fetch(p)
    PROVE  ProviderInv'
  <1>1. PICK o : o = validating[p]
    OBVIOUS
  <1>2. PICK x : x = P!There(p).of
    OBVIOUS
  <1> DEFINE r == [o EXCEPT !.pc = "verify", !.keys = o.asked]
  <1>3. /\ o.pc = "fetch" /\ Unedited /\ keysOf' = P!Put(keysOf, x, o.asked)
        /\ validating' = [validating EXCEPT ![p] = r]
    BY <1>1, <1>2 DEF P!Fetch, P!table, P!history, Unedited
  <1>4. /\ o \in Search \ {P!Idle} /\ SearchInv(o) /\ x = cells[o.at].of /\ x \in Somebody
    BY <1>1, <1>2, <1>3, Pointed DEF P!Idle, Cell
  <1>5. /\ r \in Search /\ r.pc = "verify" /\ r.at = o.at /\ r.issuer = o.issuer
        /\ r.keys = o.asked /\ o.asked \in Somebody
    BY <1>4 DEF Search
  <1> HIDE DEF r
  <1>6. /\ DOMAIN keysOf' = DOMAIN keysOf \cup {x}
        /\ \A y \in DOMAIN keysOf' : keysOf'[y] = IF y = x THEN o.asked ELSE keysOf[y]
        /\ keysOf' \in [DOMAIN keysOf' -> Somebody]
    BY <1>3, <1>5 DEF P!Put, ProviderInv, TableTypes
  <1>7. TableTypes'
    BY <1>3, <1>4, <1>6 DEF ProviderInv, TableTypes, Unedited
  <1>8. FiledRight'
    BY <1>3, <1>4, <1>6 DEF ProviderInv, FiledRight, SearchInv, Unedited
  <1>9. KeptAreListed'
    BY <1>3 DEF ProviderInv, KeptAreListed, InTable, Unedited
  <1>10. SearchInv(r)
    BY <1>3, <1>4, <1>5 DEF SearchInv
  <1>11. \A s \in Search : SearchInv(s) => SearchInv(s)'
    BY <1>3 DEF SearchInv, Unedited
  <1>12. SearchesInv'
    BY <1>3, <1>5, <1>10, <1>11 DEF ProviderInv, SearchesInv
  <1>13. QED
    BY <1>7, <1>8, <1>9, <1>12 DEF ProviderInv

\* Every search in progress is marked as overlapped.
Marked(s) == IF s = P!Idle THEN P!Idle ELSE [s EXCEPT !.overlapped = TRUE]

LEMMA MarkedIs ==
    ASSUME NEW s \in Search \ {P!Idle}
    PROVE  /\ Marked(s) \in Search \ {P!Idle} /\ Marked(s).overlapped
           /\ Marked(s).pc = s.pc /\ Marked(s).issuer = s.issuer /\ Marked(s).at = s.at
           /\ Marked(s).asked = s.asked /\ Marked(s).keys = s.keys
           /\ Marked(s).audience = s.audience
  <1>1. /\ Marked(s) = [s EXCEPT !.overlapped = TRUE]
        /\ s \in Search \ {P!Idle}
    BY DEF Marked
  <1>2. Marked(s) \in Search /\ Marked(s).overlapped = TRUE
    BY <1>1 DEF Search
  <1>3. /\ Marked(s).pc = s.pc /\ Marked(s).issuer = s.issuer /\ Marked(s).at = s.at
        /\ Marked(s).asked = s.asked /\ Marked(s).keys = s.keys
        /\ Marked(s).audience = s.audience /\ s.pc # "idle"
    BY <1>1 DEF Search
  <1>4. QED
    BY <1>2, <1>3 DEF P!Idle

\* A write to a cell under the searches: none of them is misled, or mixed is set.
LEMMA Overwritten ==
    ASSUME ProviderInv, NEW i \in 1 .. Room, NEW e \in Cell, P!Overwrite(i, e),
           kept' = kept
    PROVE  SearchesInv' /\ mixed' \in BOOLEAN
  <1>1. /\ cells' = [cells EXCEPT ![i] = e]
        /\ validating' = [q \in Caller |-> Marked(validating[q])]
        /\ mixed' = (mixed \/ \E q \in Caller :
                        P!Pointing(q) /\ validating[q].at = i /\ cells[i].of # e.of)
    BY DEF P!Overwrite, Marked
  <1>2. cells \in [1 .. Room -> Cell] /\ mixed \in BOOLEAN
    BY DEF ProviderInv, TableTypes
  <1>3. validating' \in [Caller -> Search]
    BY <1>1, MarkedIs DEF ProviderInv, SearchesInv, Marked, Search
  <1>4. ASSUME NEW q \in Caller, validating'[q] # P!Idle PROVE SearchInv(validating[q])'
    <2>1. PICK s : s = validating[q]
      OBVIOUS
    <2>2. PICK r : r = Marked(s)
      OBVIOUS
    <2>3. validating'[q] = r /\ s \in Search \ {P!Idle} /\ SearchInv(s)
      BY <1>1, <1>4, <2>1, <2>2 DEF ProviderInv, SearchesInv, Marked
    <2>4. /\ r.overlapped /\ r.pc = s.pc /\ r.issuer = s.issuer /\ r.at = s.at
          /\ r.asked = s.asked /\ r.keys = s.keys /\ r.audience = s.audience
      BY <2>2, <2>3, MarkedIs
    <2>5. (s.pc \notin {"scan", "unknown"} => s.at \in 1 .. Room) /\ s.pc # "idle"
      BY <2>3, WatchedIsNat DEF Search, SearchInv
    <2>6. ~mixed' /\ s.pc \notin {"scan", "unknown"} => ~mixed /\ cells'[s.at].of = cells[s.at].of
      BY <1>1, <1>2, <2>1, <2>5 DEF P!Pointing
    <2>7. ~mixed' => ~mixed
      BY <1>1
    <2>8. SearchInv(r)'
      BY <2>3, <2>4, <2>6, <2>7 DEF SearchInv
    <2>9. QED
      BY <2>3, <2>8
  <1>5. QED
    BY <1>1, <1>3, <1>4 DEF SearchesInv

\* While a removal goes on it holds the lock: no other edit is made.
LEMMA ProviderAdded ==
    ASSUME ProviderInv, NEW x \in Provider, P!AddProvider(x)
    PROVE  ProviderInv'
  <1> DEFINE e == P!Entry(x)
  <1>1. /\ moving = P!Still /\ tableEdits < MaxProviderEdits /\ tableEdits' = tableEdits + 1
        /\ UNCHANGED <<moving, keysOf, kept>>
    BY DEF P!AddProvider, P!Edit, P!Locked
  <1>2. e \in Cell /\ e.uri \in {NoProvider, e.of}
    BY DEF P!Entry, P!Auto, Cell, Somebody
  <1>3. Len(cells) = Room /\ Room \in Nat /\ tableEdits \in 0 .. MaxProviderEdits
    BY WatchedIsNat DEF ProviderInv, TableTypes
  <1>4. tableEdits' \in 0 .. MaxProviderEdits
    BY <1>1, <1>3, ProviderAssumption
  <1>5. CASE shared /\ size < Len(cells)
    <2>1. P!Overwrite(size + 1, e) /\ size' = size + 1 /\ UNCHANGED <<own, shared>>
      BY <1>5 DEF P!AddProvider
    <2>2. size + 1 \in 1 .. Room /\ size \in 0 .. Room
      BY <1>3, <1>5 DEF ProviderInv, TableTypes
    <2>3. SearchesInv' /\ mixed' \in BOOLEAN
      BY <1>1, <1>2, <2>1, <2>2, Overwritten
    <2>4. cells' = [cells EXCEPT ![size + 1] = e] /\ (~mixed' => ~mixed)
      BY <2>1 DEF P!Overwrite
    <2> HIDE DEF e
    <2>5. TableTypes'
      BY <1>1, <1>2, <1>3, <1>4, <2>1, <2>2, <2>3, <2>4 DEF ProviderInv, TableTypes
    <2>6. FiledRight'
      BY <1>1, <1>2, <2>2, <2>4 DEF ProviderInv, TableTypes, FiledRight
    <2>7. KeptAreListed'
      <3>1. \A i : InTable(i) => i # size + 1 /\ InTable(i)'
        BY <1>1, <1>5, <2>1, <2>2, WatchedIsNat DEF InTable
      <3>2. \A i \in 1 .. P!Watched : i # size + 1 => cells'[i] = cells[i]
        BY <2>4, WatchedIsNat DEF ProviderInv, TableTypes
      <3>3. QED
        BY <1>1, <3>1, <3>2 DEF ProviderInv, KeptAreListed
    <2>8. QED
      BY <2>3, <2>5, <2>6, <2>7 DEF ProviderInv
  <1>6. CASE ~(shared /\ size < Len(cells))
    <2>1. shared' = FALSE /\ UNCHANGED <<cells, size, validating, mixed>>
      BY <1>6 DEF P!AddProvider
    <2>2. TableTypes'
      BY <1>1, <1>4, <2>1 DEF ProviderInv, TableTypes
    <2>3. FiledRight'
      BY <1>1, <2>1 DEF ProviderInv, FiledRight
    <2>4. KeptAreListed'
      BY <1>1, <2>1 DEF ProviderInv, KeptAreListed, InTable
    <2>5. \A s \in Search : SearchInv(s) => SearchInv(s)'
      BY <1>1, <2>1 DEF SearchInv
    <2>6. SearchesInv'
      BY <2>1, <2>5 DEF ProviderInv, SearchesInv
    <2>7. QED
      BY <2>2, <2>3, <2>4, <2>6 DEF ProviderInv
  <1>7. QED
    BY <1>5, <1>6

LEMMA BackupRestored ==
    ASSUME ProviderInv, NEW ps \in Backups, P!Restore(ps)
    PROVE  ProviderInv'
  <1>1. /\ moving = P!Still /\ tableEdits < MaxProviderEdits /\ tableEdits' = tableEdits + 1
        /\ shared' = FALSE /\ UNCHANGED <<cells, size, moving, keysOf, validating, kept, mixed>>
    BY DEF P!Restore, P!Edit, P!Locked, P!history
  <1>2. tableEdits' \in 0 .. MaxProviderEdits
    BY <1>1, ProviderAssumption DEF ProviderInv, TableTypes
  <1>3. TableTypes'
    BY <1>1, <1>2 DEF ProviderInv, TableTypes
  <1>4. FiledRight'
    BY <1>1 DEF ProviderInv, FiledRight
  <1>5. KeptAreListed'
    BY <1>1 DEF ProviderInv, KeptAreListed, InTable
  <1>6. \A s \in Search : SearchInv(s) => SearchInv(s)'
    BY <1>1 DEF SearchInv
  <1>7. SearchesInv'
    BY <1>1, <1>6 DEF ProviderInv, SearchesInv
  <1>8. QED
    BY <1>3, <1>4, <1>5, <1>7 DEF ProviderInv

LEMMA RemovalBegins ==
    ASSUME ProviderInv, NEW x \in Provider, P!RemoveProvider(x)
    PROVE  ProviderInv'
  <1>1. /\ moving = P!Still /\ tableEdits < MaxProviderEdits /\ tableEdits' = tableEdits + 1
        /\ kept' = kept \ {x} /\ UNCHANGED <<cells, size, shared, keysOf, mixed>>
    BY DEF P!RemoveProvider, P!Edit, P!Locked
  <1>2. tableEdits' \in 0 .. MaxProviderEdits
    BY <1>1, ProviderAssumption DEF ProviderInv, TableTypes
  <1>3. FiledRight'
    BY <1>1 DEF ProviderInv, FiledRight
  <1>4. size \in 0 .. Room /\ Room \in Nat
    BY WatchedIsNat DEF ProviderInv, TableTypes
  <1>5. CASE shared
    <2>1. /\ moving' = [of |-> x, read |-> 1, write |-> 1]
          /\ validating' = [q \in Caller |-> Marked(validating[q])]
      BY <1>5 DEF P!RemoveProvider, Marked
    <2>2. moving' # P!Still
      BY <2>1, ProviderAssumption DEF P!Still
    <2>3. /\ moving' \in [of : Somebody, read : Nat, write : Nat]
          /\ moving'.of = x /\ moving'.read = 1 /\ moving'.write = 1
      BY <2>1 DEF Somebody
    <2>4. TableTypes'
      BY <1>1, <1>2, <1>4, <1>5, <2>2, <2>3 DEF ProviderInv, TableTypes
    <2>5. \A i : InTable(i) => InTable(i)'
      BY <1>1, <1>4, <1>5, <2>2, <2>3, WatchedIsNat DEF InTable
    <2>6. KeptAreListed'
      BY <1>1, <2>3, <2>5 DEF ProviderInv, KeptAreListed
    <2>7. \A s \in Search \ {P!Idle} : SearchInv(s) => SearchInv(Marked(s))'
      <3> SUFFICES ASSUME NEW s \in Search \ {P!Idle}, SearchInv(s) PROVE SearchInv(Marked(s))'
        OBVIOUS
      <3>1. PICK r : r = Marked(s)
        OBVIOUS
      <3>2. /\ r.overlapped /\ r.pc = s.pc /\ r.issuer = s.issuer /\ r.at = s.at
            /\ r.asked = s.asked /\ r.keys = s.keys /\ r.audience = s.audience
        BY <3>1, MarkedIs
      <3>3. SearchInv(r)'
        BY <1>1, <3>2 DEF SearchInv
      <3>4. QED
        BY <3>1, <3>3
    <2>8. SearchesInv'
      <3>1. validating' \in [Caller -> Search]
        BY <2>1, MarkedIs DEF ProviderInv, SearchesInv, Marked, Search
      <3>2. ASSUME NEW q \in Caller, validating'[q] # P!Idle PROVE SearchInv(validating[q])'
        <4>1. PICK s : s = validating[q]
          OBVIOUS
        <4>2. validating'[q] = Marked(s) /\ s \in Search \ {P!Idle} /\ SearchInv(s)
          BY <2>1, <3>2, <4>1 DEF ProviderInv, SearchesInv, Marked
        <4>3. PICK r : r = Marked(s)
          OBVIOUS
        <4>4. SearchInv(r)'
          BY <2>7, <4>2, <4>3
        <4>5. QED
          BY <4>2, <4>3, <4>4
      <3>3. QED
        BY <3>1, <3>2 DEF SearchesInv
    <2>9. QED
      BY <1>3, <2>4, <2>6, <2>8 DEF ProviderInv
  <1>6. CASE ~shared
    <2>1. moving' = moving
      BY <1>6 DEF P!RemoveProvider
    <2>2. validating' = validating
      BY <1>6 DEF P!RemoveProvider, ProviderInv, SearchesInv
    <2>3. TableTypes'
      BY <1>1, <1>2, <2>1 DEF ProviderInv, TableTypes
    <2>4. KeptAreListed'
      BY <1>1, <2>1 DEF ProviderInv, KeptAreListed, InTable
    <2>5. \A s \in Search : SearchInv(s) => SearchInv(s)'
      BY <1>1, <2>1 DEF SearchInv
    <2>6. SearchesInv'
      BY <2>2, <2>5 DEF ProviderInv, SearchesInv
    <2>7. QED
      BY <1>3, <2>3, <2>4, <2>6 DEF ProviderInv
  <1>7. QED
    BY <1>5, <1>6

\* One round of the loop that removes a provider: whoever stays is in the part
\* that is written or in the part that is yet to be read.
LEMMA ProviderMoved == ASSUME ProviderInv, P!Move PROVE ProviderInv'
  <1>1. PICK m : m = moving
    OBVIOUS
  <1>2. /\ m # P!Still /\ m.of \in Provider /\ shared /\ m.read \in Nat /\ m.write \in Nat
        /\ 0 < m.write /\ m.write <= m.read /\ m.read <= size /\ size \in 0 .. Room
        /\ Room \in Nat /\ m \in [of : Somebody, read : Nat, write : Nat]
    BY <1>1, WatchedIsNat DEF P!Move, P!Locked, ProviderInv, TableTypes
  <1>3. UNCHANGED <<size, shared, keysOf, kept, tableEdits>>
    BY DEF P!Move
  <1>4. m.read \in 1 .. Room /\ m.write \in 1 .. Room /\ cells \in [1 .. Room -> Cell]
    BY <1>2 DEF ProviderInv, TableTypes
  <1>5. CASE cells[m.read].of = m.of
    <2>1. moving' = [m EXCEPT !.read = m.read + 1] /\ UNCHANGED <<cells, validating, mixed>>
      BY <1>1, <1>5 DEF P!Move
    <2>2. /\ moving' \in [of : Somebody, read : Nat, write : Nat]
          /\ moving'.of = m.of /\ moving'.read = m.read + 1 /\ moving'.write = m.write
      BY <1>2, <2>1
    <2>3. moving' # P!Still
      BY <1>2, <2>2, ProviderAssumption DEF P!Still
    <2>4. TableTypes'
      BY <1>2, <1>3, <2>1, <2>2, <2>3 DEF ProviderInv, TableTypes
    <2>5. FiledRight'
      BY <1>3, <2>1 DEF ProviderInv, FiledRight
    <2>6. \A i : InTable(i) /\ i # m.read => InTable(i)'
      BY <1>1, <1>2, <1>3, <2>2, <2>3, WatchedIsNat DEF InTable
    <2>7. KeptAreListed'
      BY <1>1, <1>3, <1>5, <2>1, <2>2, <2>6 DEF ProviderInv, KeptAreListed
    <2>8. \A s \in Search : SearchInv(s) => SearchInv(s)'
      BY <1>1, <1>2, <1>3, <2>1 DEF SearchInv
    <2>9. SearchesInv'
      BY <2>1, <2>8 DEF ProviderInv, SearchesInv
    <2>10. QED
      BY <2>4, <2>5, <2>7, <2>9 DEF ProviderInv
  <1>6. CASE cells[m.read].of # m.of
    <2>1. PICK e : e = cells[m.read]
      OBVIOUS
    <2>2. /\ P!Overwrite(m.write, e)
          /\ moving' = [m EXCEPT !.read = m.read + 1, !.write = m.write + 1]
      BY <1>1, <1>6, <2>1 DEF P!Move, P!Copy
    <2>3. e \in Cell
      BY <1>4, <2>1
    <2>4. SearchesInv' /\ mixed' \in BOOLEAN
      BY <1>3, <1>4, <2>2, <2>3, Overwritten
    <2>5. cells' = [cells EXCEPT ![m.write] = e] /\ (~mixed' => ~mixed)
      BY <2>2 DEF P!Overwrite
    <2>6. /\ moving' \in [of : Somebody, read : Nat, write : Nat]
          /\ moving'.of = m.of /\ moving'.read = m.read + 1 /\ moving'.write = m.write + 1
      <3>1. m \in [of : Somebody, read : Nat, write : Nat] /\ m.read + 1 \in Nat /\ m.write + 1 \in Nat
        BY <1>2
      <3>2. moving' = [m EXCEPT !.read = m.read + 1, !.write = m.write + 1]
        BY <2>2
      <3>3. QED
        BY <3>1, <3>2
    <2>7. moving' # P!Still
      BY <1>2, <2>6, ProviderAssumption DEF P!Still
    <2>8. TableTypes'
      BY <1>2, <1>3, <1>4, <2>3, <2>4, <2>5, <2>6, <2>7 DEF ProviderInv, TableTypes
    <2>9. FiledRight'
      BY <1>3, <1>4, <2>1, <2>5 DEF ProviderInv, FiledRight
    <2>10. /\ \A i : InTable(i) /\ i # m.read => i # m.write /\ InTable(i)'
           /\ InTable(m.read) => InTable(m.write)'
      BY <1>1, <1>2, <1>3, <2>6, <2>7, WatchedIsNat DEF InTable
    <2>11. \A i \in 1 .. P!Watched : cells'[i] = IF i = m.write THEN e ELSE cells[i]
      BY <1>4, <2>5, WatchedIsNat
    <2>12. m.write \in 1 .. P!Watched \/ m.read \notin 1 .. P!Watched
      BY <1>2, WatchedIsNat
    <2>13. ASSUME NEW k \in kept PROVE \E i \in 1 .. P!Watched : InTable(i)' /\ cells'[i].of = k
      <3>1. PICK i \in 1 .. P!Watched : InTable(i) /\ cells[i].of = k
        BY DEF ProviderInv, KeptAreListed
      <3>2. CASE i = m.read
        BY <2>1, <2>10, <2>11, <2>12, <3>1, <3>2
      <3>3. CASE i # m.read
        BY <2>10, <2>11, <3>1, <3>3
      <3>4. QED
        BY <3>2, <3>3
    <2>14. KeptAreListed'
      BY <1>1, <1>3, <2>6, <2>13 DEF ProviderInv, KeptAreListed
    <2>15. QED
      BY <2>4, <2>8, <2>9, <2>14 DEF ProviderInv
  <1>7. QED
    BY <1>5, <1>6

LEMMA RemovalEnds == ASSUME ProviderInv, P!Removed PROVE ProviderInv'
  <1>1. PICK m : m = moving
    OBVIOUS
  <1>2. /\ m # P!Still /\ shared /\ m.read \in Nat /\ m.write \in Nat
        /\ 0 < m.write /\ m.write <= m.read /\ m.read > size /\ m.read <= size + 1
        /\ size \in 0 .. Room /\ Room \in Nat
    BY <1>1, WatchedIsNat DEF P!Removed, P!Locked, ProviderInv, TableTypes
  <1>3. /\ size' = m.write - 1 /\ moving' = P!Still
        /\ UNCHANGED <<cells, own, shared, keysOf, validating, kept, mixed, tableEdits>>
    BY <1>1 DEF P!Removed, P!history
  <1>4. P!Still \in [of : Somebody, read : Nat, write : Nat] /\ P!Still.of = NoProvider
    BY DEF P!Still, Somebody
  <1>5. TableTypes'
    BY <1>2, <1>3, <1>4 DEF ProviderInv, TableTypes
  <1>6. FiledRight'
    BY <1>3 DEF ProviderInv, FiledRight
  <1>7. \A i : InTable(i) => InTable(i)'
    BY <1>1, <1>2, <1>3, WatchedIsNat DEF InTable
  <1>8. KeptAreListed'
    BY <1>3, <1>4, <1>7, ProviderAssumption DEF ProviderInv, TableTypes, KeptAreListed
  <1>9. \A s \in Search : SearchInv(s) => SearchInv(s)'
    BY <1>3 DEF SearchInv
  <1>10. SearchesInv'
    BY <1>3, <1>9 DEF ProviderInv, SearchesInv
  <1>11. QED
    BY <1>5, <1>6, <1>8, <1>10 DEF ProviderInv

LEMMA ProviderStepKeeps == ASSUME ProviderInv, P!Next PROVE ProviderInv'
  <1>1. CASE \E p \in Caller :
                \/ \E issuer \in Provider : P!Validate(p, issuer)
                \/ P!FindProvider(p) \/ P!Lookup(p) \/ P!ResolveJWKSURI(p) \/ P!Discover(p)
                \/ P!KeepURI(p) \/ P!Fetch(p) \/ P!Unreachable(p) \/ P!FallbackCache(p)
                \/ P!ResolveKey(p) \/ P!AudienceMatch(p) \/ P!Refuse(p) \/ P!Return(p)
    BY <1>1, SearchStarts, SearchFinds, LookupFinds, AddressResolves, DiscoveryChecks,
       AddressIsKept, KeysAreStored, SearchFails, CacheFallsBack, KeyIsSoughtAgain,
       AudienceMatches, SearchReturns
  <1>2. CASE \E p \in Provider : P!AddProvider(p) \/ P!RemoveProvider(p)
    BY <1>2, ProviderAdded, RemovalBegins
  <1>3. CASE P!Move \/ P!Removed
    BY <1>3, ProviderMoved, RemovalEnds
  <1>4. CASE \E ps \in Backups : P!Restore(ps)
    BY <1>4, BackupRestored
  <1>5. QED
    BY <1>1, <1>2, <1>3, <1>4 DEF P!Next

LEMMA PutIs ==
    ASSUME NEW m, NEW k, NEW v
    PROVE  LET f == S!Put(m, k, v)
           IN /\ DOMAIN f = DOMAIN m \cup {k} /\ f[k] = v
              /\ \A x \in DOMAIN m : x # k => f[x] = m[x]
  BY DEF S!Put

-----------------------------------------------------------------------------
(* APIKeys *)

Use ==
    {S!Idle} \cup
    [pc : {"check", "touch", "served", "refused"}, id : S!Id, raced : BOOLEAN,
     revoked : BOOLEAN]
KeyRecord == [client : Client, lastUsed : Nat \cup {S!Never}, revoked : BOOLEAN]

\* What a validation read of the key still holds; who was let through while the
\* key was being revoked, was so within this tick.
UseOfKey(p) ==
    /\ req[p].revoked => apiKeys[req[p].id].revoked
    /\ req[p].pc = "check" /\ apiKeys[req[p].id].revoked => req[p].revoked \/ req[p].raced
    /\ req[p].pc \in {"touch", "served"} /\ req[p].id \in DOMAIN revokedAt =>
          revokedAt[req[p].id] = now

KeysAreNumbered == \E n \in Nat : DOMAIN apiKeys = 1 .. n

KeyInv ==
    /\ S!TypeOK /\ S!RevokedKeyRefused
    /\ req \in [Proc -> Use] /\ apiKeys \in [DOMAIN apiKeys -> KeyRecord]
    /\ KeysAreNumbered
    /\ \A id \in DOMAIN revokedAt : apiKeys[id].revoked /\ revokedAt[id] \in 0 .. now
    /\ \A p \in Proc : req[p] # S!Idle => UseOfKey(p)

LEMMA KeyInit == S!Init => KeyInv
  BY APIKeyAssumption
  DEF S!Init, KeyInv, S!TypeOK, S!RevokedKeyRefused, Use, KeyRecord, S!EmptyMap, KeysAreNumbered,
      S!Idle, S!Id

\* The key generated next is a new one.
LEMMA NewKeyIsNew ==
    ASSUME KeyInv PROVE LET id == Cardinality(DOMAIN apiKeys) + 1
                        IN id \notin DOMAIN apiKeys /\ \E n \in Nat : DOMAIN apiKeys \cup {id} = 1 .. n
  <1>1. PICK n \in Nat : DOMAIN apiKeys = 1 .. n
    BY DEF KeyInv, KeysAreNumbered
  <1>2. Cardinality(1 .. n) = n
    BY FS_Interval
  <1>3. DOMAIN apiKeys \cup {n + 1} = 1 .. n + 1
    BY <1>1
  <1>4. QED
    BY <1>1, <1>2, <1>3

LEMMA GenerateKeeps ==
    ASSUME KeyInv, NEW c \in Client, S!Generate(c) PROVE KeyInv'
  <1> DEFINE id == S!Cardinality(DOMAIN apiKeys) + 1
             r == [client |-> c, lastUsed |-> S!Never, revoked |-> FALSE]
  <1>0. id = Cardinality(DOMAIN apiKeys) + 1
    BY DEF S!Cardinality, Cardinality
  <1>1. apiKeys' = S!Put(apiKeys, id, r) /\ id \in S!Id /\ UNCHANGED <<revokedAt, req, now>>
    BY DEF S!Generate
  <1>2. id \notin DOMAIN apiKeys /\ \E n \in Nat : DOMAIN apiKeys \cup {id} = 1 .. n
    BY <1>0, NewKeyIsNew
  <1> HIDE DEF id
  <1>3. /\ DOMAIN apiKeys' = DOMAIN apiKeys \cup {id} /\ apiKeys'[id] = r
        /\ \A x \in DOMAIN apiKeys : apiKeys'[x] = apiKeys[x]
    BY <1>1, <1>2 DEF S!Put
  <1>3a. apiKeys' \in [DOMAIN apiKeys' -> KeyRecord]
    BY <1>1, <1>3 DEF KeyInv, KeyRecord, S!Put
  <1>4. r.lastUsed <= now /\ r.client \in Client
    BY DEF S!Never, KeyInv, S!TypeOK
  <1> HIDE DEF r
  <1>5. S!TypeOK'
    BY <1>1, <1>3, <1>4 DEF S!TypeOK, KeyInv
  <1>6. S!RevokedKeyRefused'
    BY <1>1, <1>3 DEF S!RevokedKeyRefused, KeyInv, S!TypeOK, S!List
  <1>7. QED
    BY <1>1, <1>2, <1>3, <1>3a, <1>5, <1>6 DEF KeyInv, KeysAreNumbered, UseOfKey, S!TypeOK

LEMMA RevokeKeeps ==
    ASSUME KeyInv, NEW id \in S!Id, S!Revoke(id) PROVE KeyInv'
  <1>1. id \in DOMAIN apiKeys /\ now' = now
    BY DEF S!Revoke
  <1>2. /\ DOMAIN apiKeys' = DOMAIN apiKeys /\ apiKeys'[id].revoked
        /\ apiKeys' \in [DOMAIN apiKeys' -> KeyRecord]
        /\ \A x \in DOMAIN apiKeys :
              /\ apiKeys'[x].client = apiKeys[x].client
              /\ apiKeys'[x].lastUsed = apiKeys[x].lastUsed
              /\ x # id => apiKeys'[x] = apiKeys[x]
    BY <1>1 DEF S!Revoke, KeyInv, KeyRecord
  <1>3. /\ DOMAIN revokedAt' = DOMAIN revokedAt \cup {id}
        /\ \A x \in DOMAIN revokedAt : revokedAt'[x] = revokedAt[x]
        /\ id \notin DOMAIN revokedAt => revokedAt'[id] = now
    BY DEF S!Revoke, S!Get, S!Put
  <1>4. /\ req' \in [Proc -> Use]
        /\ \A p \in Proc :
              /\ (req'[p] = S!Idle) = (req[p] = S!Idle)
              /\ req'[p].pc = req[p].pc
              /\ req[p] # S!Idle =>
                    /\ req'[p].id = req[p].id /\ req'[p].revoked = req[p].revoked
                    /\ req[p].raced \/ req[p].id = id => req'[p].raced
    BY DEF S!Revoke, KeyInv, Use, S!Idle
  <1>5. S!TypeOK'
    BY <1>1, <1>2, <1>3, <1>4 DEF S!TypeOK, KeyInv
  <1>6. now \in Nat /\ \A x \in DOMAIN apiKeys : apiKeys[x].lastUsed <= now
    BY APIKeyAssumption DEF KeyInv, S!TypeOK
  <1>7. \A x \in DOMAIN revokedAt' :
           /\ apiKeys'[x].revoked /\ revokedAt'[x] \in 0 .. now'
           /\ apiKeys'[x].lastUsed <= revokedAt'[x]
    BY <1>1, <1>2, <1>3, <1>6 DEF KeyInv, S!TypeOK, S!RevokedKeyRefused
  <1>8. S!RevokedKeyRefused'
    BY <1>4, <1>7 DEF S!RevokedKeyRefused, KeyInv, S!List
  <1>9. \A p \in Proc : req'[p] # S!Idle => UseOfKey(p)'
    <2> TAKE p \in Proc
    <2> SUFFICES ASSUME req[p] # S!Idle PROVE UseOfKey(p)'
      BY <1>4
    <2>1. UseOfKey(p) /\ req[p].id \in DOMAIN apiKeys
      BY DEF KeyInv, S!TypeOK
    <2>2. QED
      BY <1>1, <1>2, <1>3, <1>4, <2>1 DEF UseOfKey
  <1>10. QED
    BY <1>2, <1>4, <1>5, <1>7, <1>8, <1>9 DEF KeyInv, KeysAreNumbered

LEMMA UseKeeps ==
    ASSUME KeyInv, NEW p \in Proc,
           \/ \E id \in S!Id : S!Present(p, id)
           \/ S!Check(p) \/ S!Return(p)
    PROVE  KeyInv'
  <1>1. UNCHANGED <<apiKeys, revokedAt, now>>
    BY DEF S!Present, S!Check, S!Return
  <1>2. /\ req' \in [Proc -> Use]
        /\ \A q \in Proc : q # p => req'[q] = req[q]
        /\ req'[p] # S!Idle =>
              /\ req'[p].id \in DOMAIN apiKeys
              /\ UseOfKey(p)'
              /\ req'[p].pc \in {"touch", "served"} => ~req'[p].revoked
              /\ req'[p].pc = "refused" => req'[p].revoked \/ req'[p].raced
    <2>1. CASE \E id \in S!Id : S!Present(p, id)
      <3>1. PICK id \in S!Id : S!Present(p, id)
        BY <2>1
      <3> DEFINE r == [pc |-> "check", id |-> id, raced |-> FALSE, revoked |-> apiKeys[id].revoked]
      <3>2. req' = [req EXCEPT ![p] = r] /\ id \in DOMAIN apiKeys
        BY <3>1 DEF S!Present
      <3>3. r \in Use
        BY <3>2 DEF Use, KeyInv, KeyRecord
      <3>4. r.id = id /\ r.revoked = apiKeys[id].revoked /\ r.pc = "check"
        OBVIOUS
      <3> HIDE DEF r
      <3>5. req' \in [Proc -> Use] /\ req'[p] = r /\ \A q \in Proc : q # p => req'[q] = req[q]
        BY <3>2, <3>3 DEF KeyInv
      <3>6. QED
        BY <3>2, <3>4, <3>5, <1>1 DEF UseOfKey
    <2>2. CASE S!Check(p)
      <3> DEFINE pc == IF S!Live(req[p].id) THEN "touch" ELSE "refused"
      <3>1. req' = [req EXCEPT ![p].pc = pc] /\ req[p].pc = "check" /\ req[p] # S!Idle
        BY <2>2 DEF S!Check, S!Idle
      <3>2. pc = IF apiKeys[req[p].id].revoked THEN "refused" ELSE "touch"
        BY DEF S!Live
      <3> HIDE DEF pc
      <3>3. pc \in {"touch", "refused"}
        BY <3>2
      <3>4. /\ req' \in [Proc -> Use] /\ \A q \in Proc : q # p => req'[q] = req[q]
            /\ req'[p].pc = pc /\ req'[p].id = req[p].id
            /\ req'[p].raced = req[p].raced /\ req'[p].revoked = req[p].revoked
        BY <3>1, <3>3 DEF KeyInv, Use, S!Idle
      <3>5. UseOfKey(p) /\ req[p].id \in DOMAIN apiKeys
        BY <3>1 DEF KeyInv, S!TypeOK
      <3>6. QED
        BY <1>1, <3>1, <3>2, <3>4, <3>5 DEF UseOfKey, KeyInv
    <2>3. CASE S!Return(p)
      BY <2>3 DEF S!Return, KeyInv, Use
    <2>4. QED
      BY <2>1, <2>2, <2>3
  <1>3. S!TypeOK'
    BY <1>1, <1>2 DEF S!TypeOK, KeyInv
  <1>4. S!RevokedKeyRefused'
    BY <1>1, <1>2 DEF S!RevokedKeyRefused, KeyInv, S!List
  <1>5. \A q \in Proc : req'[q] # S!Idle => UseOfKey(q)'
    BY <1>1, <1>2 DEF UseOfKey, KeyInv
  <1>6. QED
    BY <1>1, <1>2, <1>3, <1>4, <1>5 DEF KeyInv, KeysAreNumbered

LEMMA TouchKeeps == ASSUME KeyInv, NEW p \in Proc, S!Touch(p) PROVE KeyInv'
  <1> DEFINE id == req[p].id
  <1>1. UseOfKey(p) /\ id \in DOMAIN apiKeys /\ req[p].pc = "touch" /\ req[p] # S!Idle
        /\ UNCHANGED <<revokedAt, now>> /\ ~req[p].revoked /\ now \in Nat
    BY APIKeyAssumption DEF S!Touch, KeyInv, S!TypeOK, S!Idle, S!RevokedKeyRefused
  <1>2. /\ DOMAIN apiKeys' = DOMAIN apiKeys /\ apiKeys'[id].lastUsed = now
        /\ apiKeys' \in [DOMAIN apiKeys' -> KeyRecord]
        /\ \A x \in DOMAIN apiKeys :
              /\ apiKeys'[x].client = apiKeys[x].client
              /\ apiKeys'[x].revoked = apiKeys[x].revoked
              /\ x # id => apiKeys'[x] = apiKeys[x]
    BY <1>1 DEF S!Touch, KeyInv, KeyRecord
  <1>3. /\ req' \in [Proc -> Use] /\ \A q \in Proc : q # p => req'[q] = req[q]
        /\ req'[p] # S!Idle /\ req'[p].pc = "served" /\ req'[p].id = id
        /\ req'[p].raced = req[p].raced /\ req'[p].revoked = req[p].revoked
    BY <1>1 DEF S!Touch, KeyInv, Use, S!Idle
  <1>4. id \in DOMAIN revokedAt => revokedAt[id] = now
    BY <1>1 DEF UseOfKey
  <1> HIDE DEF id
  <1>5. S!TypeOK'
    BY <1>1, <1>2, <1>3 DEF S!TypeOK, KeyInv
  <1>6. S!RevokedKeyRefused'
    BY <1>1, <1>2, <1>3, <1>4 DEF S!RevokedKeyRefused, KeyInv, S!TypeOK, S!List
  <1>7. \A q \in Proc : req'[q] # S!Idle => UseOfKey(q)'
    BY <1>1, <1>2, <1>3, <1>4 DEF UseOfKey, KeyInv, S!TypeOK, id
  <1>8. QED
    BY <1>1, <1>2, <1>3, <1>5, <1>6, <1>7 DEF KeyInv, KeysAreNumbered, S!TypeOK

LEMMA KeyTickKeeps == ASSUME KeyInv, S!Tick PROVE KeyInv'
  <1>1. /\ now \in Nat /\ now < MaxKeyUses /\ now' = now + 1
        /\ UNCHANGED <<apiKeys, revokedAt, req>> /\ \A p \in Proc : req[p] = S!Idle
    BY APIKeyAssumption DEF S!Tick, KeyInv, S!TypeOK
  <1>2. \A id \in DOMAIN apiKeys : apiKeys[id].lastUsed \in Int
    BY DEF KeyInv, KeyRecord, S!Never
  <1>3. S!TypeOK'
    BY <1>1, <1>2, APIKeyAssumption DEF S!TypeOK, KeyInv
  <1>4. QED
    BY <1>1, <1>3 DEF KeyInv, KeysAreNumbered, S!RevokedKeyRefused, S!List

LEMMA KeyStep == ASSUME KeyInv, S!Next PROVE KeyInv'
  BY GenerateKeeps, RevokeKeeps, UseKeeps, TouchKeeps, KeyTickKeeps DEF S!Next
=============================================================================
