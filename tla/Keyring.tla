------------------------------- MODULE Keyring ------------------------------
(***************************************************************************)
(* The signing keys of the proxy (internal/keyring/keyring.go) and the     *)
(* JWTs signed with them (signJWT in internal/token/manager.go).  A        *)
(* rotation generates a key first and swaps it in later, so a scheduled    *)
(* and a forced rotation overlap; signJWT takes the current key first and  *)
(* signs later.  The n-th key generated is the key n.                      *)
(***************************************************************************)
EXTENDS AdmissionParameters

VARIABLES
    current, previous,   \* Ring.current, Ring.previous; NoKey is nil
    rotating,            \* rotator -> the key it has generated, or NoKey
    signing,             \* signer -> [key, expires] it is about to sign, or NoKey
    live,                \* the [key, expires] of tokens signed and not expired
    keys,                \* keys generated so far
    forced,              \* forced rotations so far
    sinceTick,           \* time since the ticker fired
    now

ring == <<current, previous>>
vars == <<ring, rotating, signing, live, keys, forced, sinceTick, now>>

NoKey == 0
Key == 1 .. MaxKeys
Nothing == [key |-> NoKey, expires |-> 0]
JWT == [key : Key, expires : 0 .. MaxKeyTime + Lifetime]

TypeOK ==
    /\ current \in 1 .. keys /\ previous \in 0 .. keys /\ current # previous
    /\ rotating \in [Rotator -> 0 .. keys]
    /\ signing \in [Signer -> JWT \cup {Nothing}]
    /\ live \subseteq JWT
    /\ keys \in Key /\ forced \in 0 .. MaxForced
    /\ sinceTick \in 0 .. Interval /\ now \in 0 .. MaxKeyTime

\* New rotates once and starts the ticker.
Init ==
    /\ current = 1 /\ previous = NoKey
    /\ rotating = [x \in Rotator |-> NoKey]
    /\ signing = [s \in Signer |-> Nothing]
    /\ live = {}
    /\ keys = 1 /\ forced = 0 /\ sinceTick = 0 /\ now = 0

-----------------------------------------------------------------------------
RepeatKey == UNCHANGED keys                    \* mutant
NewKey == keys' = keys + 1

\* rsa.GenerateKey
Generate(x) ==
    /\ rotating[x] = NoKey
    /\ keys < MaxKeys
    /\ NewKey
    /\ rotating' = [rotating EXCEPT ![x] = keys + 1]

\* rotateLoop
Scheduling ==
    /\ sinceTick = Interval
    /\ Generate(Scheduled)
    /\ sinceTick' = 0
    /\ UNCHANGED <<ring, signing, live, forced, now>>

\* Rotate
Force(x) ==
    /\ x # Scheduled
    /\ forced < MaxForced
    /\ forced' = forced + 1
    /\ Generate(x)
    /\ UNCHANGED <<ring, signing, live, sinceTick, now>>

\* The critical section of rotate.
SwapOnly(k) == current' = k /\ UNCHANGED previous   \* mutant: the old key is dropped
Swap(k) == previous' = current /\ current' = k

Install(x) ==
    /\ rotating[x] # NoKey
    /\ Swap(rotating[x])
    /\ rotating' = [rotating EXCEPT ![x] = NoKey]
    /\ UNCHANGED <<signing, live, keys, forced, sinceTick, now>>

\* signJWT: Current, ...
TakeKey(s) ==
    /\ signing[s] = Nothing
    /\ signing' = [signing EXCEPT ![s] = [key |-> current, expires |-> now + Lifetime]]
    /\ UNCHANGED <<ring, rotating, live, keys, forced, sinceTick, now>>

\* ... and the signature.
Sign(s) ==
    /\ signing[s] # Nothing
    /\ live' = live \cup {signing[s]}
    /\ signing' = [signing EXCEPT ![s] = Nothing]
    /\ UNCHANGED <<ring, rotating, keys, forced, sinceTick, now>>

\* A key is generated, and a token signed, within a tick of the clock.
Tick ==
    /\ now < MaxKeyTime
    /\ sinceTick < Interval
    /\ rotating[Scheduled] = NoKey
    /\ \A s \in Signer : signing[s] = Nothing \/ signing[s].expires = now + Lifetime
    /\ now' = now + 1
    /\ sinceTick' = sinceTick + 1
    /\ live' = {t \in live : t.expires >= now + 1}
    /\ UNCHANGED <<ring, rotating, signing, keys, forced>>

Next ==
    \/ Scheduling
    \/ \E x \in Rotator : Force(x) \/ Install(x)
    \/ \E s \in Signer : TakeKey(s) \/ Sign(s)
    \/ Tick

Spec == Init /\ [][Next]_vars

-----------------------------------------------------------------------------
(* Properties *)

\* JWKSHandler
JWKS == {current, previous} \ {NoKey}

\* keyring.go: "The previous key remains available in JWKS for tokens signed
\* before the rotation."  A verifier finds the key of every live token, also of
\* one that was signed while the keys were being rotated.  Only two keys are
\* kept: it takes an interval longer than a token lives, which
\* OAUTH4OS_KEY_ROTATE_HOURS may undercut, and no forced rotation next to another.
LiveTokensVerify == Lifetime < Interval /\ forced = 0 => \A t \in live : t.key \in JWKS
=============================================================================
