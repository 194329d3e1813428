------------------------- MODULE AdmissionParameters ------------------------
(***************************************************************************)
(* The constants of the components that decide whether a request passes:   *)
(* the keys tokens are signed and verified with, the policies and the      *)
(* scope mapping, the rate limiter and the caches of answers.              *)
(***************************************************************************)
EXTENDS Integers, Sequences, FiniteSets

CONSTANTS
    Caller,       \* requests that are being authorized
    Proc          \* other concurrent requests

CONSTANTS         \* Keyring
    Rotator,      \* goroutines that call rotate
    Scheduled,    \* the one of the ticker; the others serve POST /admin/keys/rotate
    Signer,       \* goroutines that sign
    Interval,     \* time between two ticks (24h)
    Lifetime,     \* of a token (1h)
    MaxForced,    \* bound: forced rotations in a behaviour
    MaxKeys,      \* bound: keys generated in a behaviour
    MaxKeyTime    \* bound: clock ticks in a behaviour

CONSTANTS         \* JWKSCache
    NoKid,        \* the token's header names no key
    FreshAge,     \* age up to which the cache is used (1h)
    StaleAge,     \* age up to which it is used when a request fails (24h)
    MaxPublished, \* bound: keys the provider publishes in a behaviour
    MaxJWKSTime   \* bound: clock ticks in a behaviour

CONSTANTS         \* CedarPolicy, Authorization
    Glob,         \* the <<pattern, value>> pairs globMatch accepts
    Substring,    \* the <<part, whole>> pairs strings.Contains accepts
    Request,      \* [issuer, sub, scope, action, index, scopes]
    Config,       \* configurations: [mapping, tenants]
    Default,      \* the policies built into main
    Extra,        \* policies POST /admin/api/policies may carry
    Input,        \* bodies of POST /admin/cedar-policies: [id, effect, resource]
    Declared,     \* <<id, text>> of policies declared to Terraform
    MaxEdits      \* bound: changes of the configuration in a behaviour

CONSTANTS         \* RateLimiter
    Client,       \* the keys of buckets
    Limits,       \* tables scope -> requests per minute a configuration may have
    ScopeLists,   \* the scopes of a request
    DefaultRPM,   \* the limit when no scope has one (600)
    Minute,       \* ticks in a minute
    MaxReloads,   \* bound: SIGHUPs in a behaviour
    MaxLimiterTime   \* bound: clock ticks in a behaviour

CONSTANTS         \* AnswerCache
    Item,         \* the keys of answers
    CacheTTL,     \* how long an answer may be used
    CacheSize,    \* entries of the response cache (1000)
    MaxAnswers,   \* bound: answers a source gives to an item in a behaviour
    MaxCacheTime  \* bound: clock ticks in a behaviour

CONSTANTS         \* Providers
    Provider,     \* OIDC providers
    NoProvider,   \* no provider; a jwks_uri that is "auto"
    Configured,   \* the providers of the configuration file, in order
    Discovered,   \* those without a jwks_uri
    SpareCells,   \* room behind them in the array
    Backups,      \* the providers of backups that may be restored
    MaxProviderEdits   \* bound: changes of the table in a behaviour

CONSTANTS         \* APIKeys
    MaxAPIKeys,   \* bound: keys generated in a behaviour
    MaxKeyUses    \* bound: clock ticks in a behaviour

CONSTANTS         \* Forwarding
    Forwarded,    \* requests that are forwarded, each once
    Clusters,     \* name -> [url, indices]: the clusters of the configuration
    EngineURL,    \* the URL of upstream.engine
    Matching,     \* the <<pattern, index>> pairs the router's globMatch accepts
    Index,        \* indices of requests, NoIndex included
    NoIndex,      \* the path names no index
    MaxRetries    \* retries of a request (3)

ASSUME KeyringAssumption ==
    /\ Scheduled \in Rotator
    /\ Interval \in Nat \ {0} /\ Lifetime \in Nat \ {0}
    /\ MaxForced \in Nat /\ MaxKeys \in Nat \ {0} /\ MaxKeyTime \in Nat

ASSUME JWKSAssumption ==
    /\ FreshAge \in Nat \ {0} /\ StaleAge \in Nat /\ FreshAge <= StaleAge
    /\ MaxPublished \in Nat \ {0} /\ MaxJWKSTime \in Nat
    /\ NoKid \notin 1 .. MaxPublished

\* What a slice is.
IsSequence(s) == s \in Seq({s[i] : i \in DOMAIN s})

ASSUME AuthorizationAssumption ==
    /\ IsSequence(Default)
    /\ \A c \in Config :
          /\ DOMAIN c = {"mapping", "tenants"}
          /\ \A t \in DOMAIN c.tenants : IsSequence(c.tenants[t].policies)
    /\ MaxEdits \in Nat

ASSUME LimiterAssumption ==
    /\ \A ls \in Limits : \A s \in DOMAIN ls : ls[s] \in Nat
    /\ DefaultRPM \in Nat \ {0} /\ Minute \in Nat \ {0}
    /\ MaxReloads \in Nat /\ MaxLimiterTime \in Nat

ASSUME CacheAssumption ==
    /\ CacheTTL \in Nat \ {0} /\ CacheSize \in Nat \ {0}
    /\ MaxAnswers \in Nat \ {0} /\ MaxCacheTime \in Nat

ASSUME ProviderAssumption ==
    /\ NoProvider \notin Provider /\ Discovered \subseteq Provider
    /\ Configured \in Seq(Provider) /\ Backups \subseteq Seq(Provider)
    /\ \A i, j \in DOMAIN Configured : Configured[i] = Configured[j] => i = j
    /\ SpareCells \in Nat /\ MaxProviderEdits \in Nat

ASSUME APIKeyAssumption == MaxAPIKeys \in Nat /\ MaxKeyUses \in Nat

ASSUME ForwardingAssumption ==
    /\ NoIndex \in Index /\ IsFiniteSet(DOMAIN Clusters)
    /\ MaxRetries \in Nat
=============================================================================
