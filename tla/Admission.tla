------------------------------ MODULE Admission -----------------------------
(***************************************************************************)
(* What a request passes on its way through the proxy, side by side: the   *)
(* keys its token is signed with (Keyring) and verified with (JWKSCache),  *)
(* the provider they are of (Providers), API keys (APIKeys), its roles and *)
(* the policies (Authorization), the rate limiter (RateLimiter), the       *)
(* caches of answers (AnswerCache) and the upstreams (Forwarding).  They   *)
(* share no state: a behaviour here is one of a component, chosen at the   *)
(* start.                                                                  *)
(***************************************************************************)
EXTENDS AdmissionParameters

VARIABLES
    part,                             \* the component this behaviour runs
    current, previous, rotating, signing, live, keys, forced, sinceTick,
    published, lastSeen, jwksCache, fetched,
    cfg, file, loaded, mapper, writing, owner, policies, engines, declared, backup,
    authorizing, edits, fatal,
    limits, generation, buckets, reload, first, admitted, broken,
    cells, size, own, shared, moving, keysOf, validating, kept, mixed, tableEdits,
    apiKeys, revokedAt,
    order, fallback, forwarding, ran,
    kind, source, lastTrue, entries, stored,
    req, now                          \* of the component that runs

K == INSTANCE Keyring
J == INSTANCE JWKSCache WITH cache <- jwksCache, keys <- fetched
A == INSTANCE Authorization WITH req <- authorizing
L == INSTANCE RateLimiter
C == INSTANCE AnswerCache
P == INSTANCE Providers WITH req <- validating, edits <- tableEdits
S == INSTANCE APIKeys
F == INSTANCE Forwarding WITH req <- forwarding

keyring == <<current, previous, rotating, signing, live, keys, forced, sinceTick>>
jwks == <<published, lastSeen, jwksCache, fetched>>
authorization == <<cfg, file, loaded, mapper, writing, owner, policies, engines, declared,
                   backup, authorizing, edits, fatal>>
limiter == <<limits, generation, buckets, reload, first, admitted, broken>>
answers == <<kind, source, lastTrue, entries, stored>>
providers == <<cells, size, own, shared, moving, keysOf, validating, kept, mixed,
               tableEdits>>
apikeys == <<apiKeys, revokedAt>>
upstream == <<order, fallback, forwarding, ran>>
admission == <<keyring, jwks, authorization, limiter, answers>>
transit == <<providers, apikeys, upstream>>
vars == <<part, admission, transit, req, now>>

TypeOK ==
    /\ part = "keyring" => K!TypeOK
    /\ part = "jwks" => J!TypeOK
    /\ part = "authorization" => A!TypeOK
    /\ part = "limiter" => L!TypeOK
    /\ part = "answers" => C!TypeOK
    /\ part = "providers" => P!TypeOK
    /\ part = "apikeys" => S!TypeOK
    /\ part = "upstream" => F!TypeOK

\* A component that does not run starts in one of its initial states.
Init ==
    /\ part \in {"keyring", "jwks", "authorization", "limiter", "answers", "providers",
                "apikeys", "upstream"}
    /\ K!Init /\ J!Init /\ A!Init /\ L!Init /\ C!Init /\ P!Init /\ S!Init /\ F!Init
    /\ part # "authorization" => file = CHOOSE c \in Config : TRUE
    /\ part # "limiter" => limits = CHOOSE ls \in Limits : TRUE
    /\ part # "answers" => kind = "response"
    /\ part # "upstream" => order = CHOOSE s \in F!Listings : TRUE

KeyringStep ==
    /\ part = "keyring" /\ K!Next
    /\ UNCHANGED <<part, jwks, authorization, limiter, answers, transit, req>>
JWKSStep ==
    /\ part = "jwks" /\ J!Next
    /\ UNCHANGED <<part, keyring, authorization, limiter, answers, transit>>
AuthorizationStep ==
    /\ part = "authorization" /\ A!Next
    /\ UNCHANGED <<part, keyring, jwks, limiter, answers, transit, req, now>>
LimiterStep ==
    /\ part = "limiter" /\ L!Next
    /\ UNCHANGED <<part, keyring, jwks, authorization, answers, transit>>
AnswerStep ==
    /\ part = "answers" /\ C!Next
    /\ UNCHANGED <<part, keyring, jwks, authorization, limiter, transit>>
ProviderStep ==
    /\ part = "providers" /\ P!Next
    /\ UNCHANGED <<part, admission, apikeys, upstream, req, now>>
APIKeyStep ==
    /\ part = "apikeys" /\ S!Next
    /\ UNCHANGED <<part, admission, providers, upstream>>
UpstreamStep ==
    /\ part = "upstream" /\ F!Next
    /\ UNCHANGED <<part, admission, providers, apikeys, req, now>>

Next ==
    \/ KeyringStep \/ JWKSStep \/ AuthorizationStep \/ LimiterStep \/ AnswerStep
    \/ ProviderStep \/ APIKeyStep \/ UpstreamStep

Spec == Init /\ [][Next]_vars

-----------------------------------------------------------------------------
(* Properties; the components say what each is about. *)

\* Keyring: the key of every live token is published, rotations overlap or not.
LiveTokensVerify == part = "keyring" => K!LiveTokensVerify

\* JWKSCache: no token of a key that is published throughout is rejected.
PublishedKeyAccepted == part = "jwks" => J!PublishedKeyAccepted

\* JWKSCache: a key that was withdrawn is accepted for a bounded time.
WithdrawnKeyForgotten == part = "jwks" => J!WithdrawnKeyForgotten

\* Authorization: the engine's answer is the guide's, for one moment's policies.
DenyOverrides == part = "authorization" => A!DenyOverrides

\* Authorization: the mapper holds one configuration, and a request sees one.
RolesOfOneConfiguration == part = "authorization" => A!RolesOfOneConfiguration

\* Authorization: what Terraform has declared is in force.
DeclaredPolicyInForce == part = "authorization" => A!DeclaredPolicyInForce

\* RateLimiter: no client gets more than the burst and the rate of its bucket.
WithinRate == part = "limiter" => L!WithinRate

\* Providers and APIKeys: who is let in by a credential is let in by one that was
\* in force -- verified with the keys of the issuer it names, or not revoked.
CredentialInForce ==
    /\ part = "providers" => P!VerifiedByItsIssuer
    /\ part = "apikeys" => S!RevokedKeyRefused

\* Forwarding: retries do not run a request with its body twice.
BodyRunsOnce == part = "upstream" => F!BodyRunsOnce

\* AnswerCache: an answer that is served was right not long ago.
AnswersWithinTTL == part = "answers" => C!AnswersWithinTTL

\* AnswerCache: a retry is not run again in the time to live.
RetryIsReplayed == part = "answers" => C!RetryIsReplayed
=============================================================================
