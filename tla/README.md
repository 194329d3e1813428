# A TLA+ development of oauth4os

oauth4os is an OAuth 2.0 proxy in front of OpenSearch. It issues and validates
tokens, decides per request what a token may do, and forwards what is allowed.
Nearly all of its state is kept in maps in memory, most of them behind a mutex
of their own; only the registered clients, the tenants' stores and logs are
written to disk. A request takes several of these mutexes one after the other,
and some tables are read without one, so what matters is what other requests,
administrators, tickers, timers and crashes do **between** two critical
sections. That is what these modules model: one action per critical section
(or per unlocked read), in the order of the code, with everything the section
changes.

## 1. The system

| Part | State | Operations | How it interacts |
|---|---|---|---|
| Token manager `internal/token/manager.go` | clients, tokens, refresh tokens, used refresh tokens, families | client_credentials and refresh grants, issue for a flow, revoke (3 ways), lookup, touch, cleanup | called by every flow, the bearer path, a ticker, the admin endpoints |
| Client store `internal/token/store.go` | `clients.json`, its backup | save, load | called after registrations, at shutdown, at start |
| Registration `internal/registration` | its own map of clients | register, update, delete, rotate secret | calls the token manager and the store after releasing its own mutex |
| PKCE, device, CIBA, PAR handlers | grants that wait for a user or a redemption | start, answer, redeem or poll, cleanup | call the token manager as issuer |
| Bearer path `cmd/proxy/main.go` | the goroutines of a request | shed, time out, session, binding, decide, forward | all of the middlewares below |
| Load shedder, timeout, sessions, token binding | a counter; a flag per request; two maps | see `RequestPath` | on the bearer path |
| Circuit breaker `internal/circuit` | state, failures, time | Allow, Record | around the upstream |
| Keyring `internal/keyring` | current and previous key | scheduled and forced rotation, JWKS | signs the JWTs of the token manager |
| JWT validator `internal/jwt` | providers, JWKS per provider | find the provider, discover, fetch, fall back | on the bearer path; shares the array of providers with the admin API |
| Scope mapper `internal/scope`, policy engine `internal/cedar` | two maps; a list of policies, one more per tenant | map, evaluate; add, remove | read by every request, written by the admin API and SIGHUP |
| Admin API `internal/admin` | the configuration | edit mappings, tenants, policies, providers; backup, restore | rewrites mapper, engines and provider table |
| API keys `internal/apikey` | keys | create, validate, revoke | a branch of its own before the bearer path |
| Rate limiter `internal/ratelimit` | a bucket per client | allow | a middleware; SIGHUP overwrites it |
| Federation, retry, SigV4 | clusters; the body of a request; credentials | route, send again, sign | between the proxy and the upstreams |
| Response cache, idempotency, cached introspection | answers with an expiry | look up, store, reap | a request in front of a slower source |
| Audit log and export, webhooks | ring, file, batch, queue | append, query, flush, post, stop | told by every handler |
| TLS reloader, file store | a certificate; a map and its file | poll, reload; set, delete | tickers and tenants |
| Command line, Go client, Terraform provider | cached tokens, a file, declared resources | login, use, logout; apply | clients of the proxy |

What is hard here: requests interleave at every unlock; results arrive late
(the breaker, the JWKS fetches, a handler that outlives its deadline); clocks
are read before or after a lock; tables are replaced in place under their
readers (mapper, engines, limiter, providers, credentials); a write can fail
or the process stop between two file operations; two copies of one fact are
kept in two places (the registration handler and the token manager; memory and
disk; configuration and mapper; the validator's and the admin's providers).
`PROJECT.json` lists each hazard at its line, with the properties that watch it.

What makes each part correct: a refresh token, code or request is redeemed at
most once and only as it was granted; revocation reaches everything and is
final; what was answered for survives a crash; counters, rates and limits hold
at their boundary; a breaker protects a failing upstream and lets a healthy
one come back; a live token can be verified while keys rotate, by the keys of
the issuer it names, and a withdrawn key is forgotten; a decision is that of
one moment's policies; a retry does not run a body twice; what is handed over
arrives once and in order, and Stop leaves nothing behind.

## 2. The modules

| Module | Models | Notes |
|---|---|---|
| `TokenManager` | token manager | a request is a process; `req[p].pc` is its next critical section |
| `TokenManagerProofs` | | the theorems about it, the refinement of `OneTimeGrant` included |
| `OneTimeGrant` | what a one-time credential promises | abstract: unissued, pending, ready, claimed, spent, void |
| `GrantParameters` | constants of the flows | |
| `PKCE`, `DeviceFlow`, `CIBA`, `PushedRequest` | the four handlers | each maps a grant to a phase of `OneTimeGrant`, except the device flow |
| `GrantFlows` | the four side by side | they share no state, so a behaviour runs one of them |
| `GrantFlowsProofs` | | the theorems about it, the refinement of `OneTimeGrant` included |
| `RequestPath` | shedder + timeout + session + binding + upstream | two goroutines per request |
| `RequestPathProofs` | | the theorems about it |
| `CircuitBreaker`, `CircuitBreakerProofs` | breaker and the requests it admitted | |
| `AdmissionParameters` | constants of the eight below | |
| `Keyring` | keys, rotations and the signing of tokens | |
| `JWKSCache` | the validator's cache and a provider that rotates keys | |
| `Providers` | the provider table under admin API and validator | one array, two slices of it |
| `APIKeys` | API keys | |
| `CedarPolicy` | what a policy text means and when a policy applies | no state |
| `Authorization` | mapper + engines + admin API + SIGHUP + Terraform, under requests | |
| `RateLimiter` | buckets per client, SIGHUP | |
| `AnswerCache` | response cache, idempotency store, cached introspection | the three differ in expiry, eviction and reaper |
| `Forwarding` | router and retrying transport | |
| `Admission` | the eight side by side | a behaviour runs one of them |
| `CredentialProofs` | | what `Keyring`, `JWKSCache`, `Providers` and `APIKeys` keep |
| `AuthorizationProofs` | | what `Authorization` keeps |
| `AdmissionProofs` | | the same for the other parts, and the theorems about all eight |
| `UpkeepParameters` | constants of the nine below | |
| `ClientRegistry` | registration + token manager's clients + client store | crash, failed write and damaged file at any point |
| `FileStore` | the key-value file and the tenants' table of stores | |
| `Notifier` | webhooks | |
| `AuditLog`, `AuditExport` | ring and file of the audit log; its batches | |
| `TLSReload` | certificate, its two files, the poller | |
| `AWSCredentials` | the credentials of the SigV4 transport | |
| `SDKClient`, `CLIConfig` | the Go client's token; the command line's file | |
| `Upkeep` | the nine side by side | a behaviour runs one of them |
| `UpkeepProofs` | | the theorems about it |
| `GoMaps` | Go's map operations | external to the repository |
| `MC*` | instances for TLC | |

How state corresponds to code. A Go map is a function with a changing domain
(`GoMaps`). Random ids are drawn from a counter: they never repeat. Scopes,
secrets, names and addresses are model values or short strings that are only
compared; which pattern matches which value is a parameter. A handler that
returns early without changing state is not a step. Histories (`minted`,
`registered`, `issued`, `acked`, `lost`, `lastTrue`, `first`, `ran`, ...) are
marked as such and guard nothing. `PROJECT.json` "map" gives the lines behind
every definition.

**Compositions.** `GrantFlows`, `Admission` and `Upkeep` put components side
by side that share no state: `part` says which one a behaviour runs, and the
others stay in an initial state. A step of one commutes with every step of
another, so nothing is lost that a property of one of them could see. The
components that do share state are modelled together in one module:
registration with the client store, mapper with engines and admin API, the
provider table with its two users, shedder with timeout and sessions.

**Token manager.** `ClientCredentials`, `DefaultScopes`, `ValidateScopes` and
`CreateToken` are the four critical sections of a client_credentials request;
`RefreshGrant` the authentication of a refresh request, then exactly one of
`ReuseDetected`, `RefreshRejected`, `DropExpiredRefresh`,
`RevokeExpiredFamily` and `Rotate`, then `CreateToken`. `Lookup` and
`TouchToken` are the two steps of a bearer request. `CreateTokenForClient` is
what the other flows call.

**Flows.** `PKCE` takes a consent or a code under the lock and looks at clock
and parameters later; `DeviceFlow` reads an object without the lock that both
maps point to; `CIBA` decides in one section; `PushedRequest` looks at the
clock after the lock. One TTL constant stands for 10 min, 10 min, 5 min, 60 s.

**Request path.** `outer[r]` is net/http's goroutine, `inner[r]` the one the
timeout middleware starts. After `TimeOut` the inner one runs on. Rate limit,
scopes, policies, webhook and breaker are one nondeterministic `Decide`; they
are modelled on their own in `Admission` and `CircuitBreaker`.

**Breaker.** Times are elapsed times capped at the largest value compared, so
behaviours have no length bound. `Abort` is a panic of the handler under
`Middleware`.

**Keys.** `Generate` and `Install` are the two halves of `rotate`; `TakeKey`
and `Sign` those of `signJWT`. `JWKSCache` separates lookup, fetch and store;
the answer of a fetch is stored with the time of the store.

**Providers.** `cells` is the array the configuration was loaded into, `own`
the array admin.State has once an addition did not fit or a backup was
restored. `Move` is one turn of the loop of an in-place removal; a validation holds
an index, and what is there may change under it. A provider is copied in one
step: the half-copied strings that an unlocked read could see in Go are not
modelled.

**Authorization.** A request reads the mapper in two steps, finds its engine in
a third and evaluates policy by policy under the engine's read lock. The
writers, the admin API (one at a time) and SIGHUP, install a mapper word by
word; `owner` remembers which of them did. A write to the map of engines that
meets a lookup may end the process (`fatal`), as the Go runtime does.

**Rate limiter.** A bucket counts in 1/`Minute` of a token, so that a tick adds
its capacity and no fraction is lost. `generation` is the sync.Map the limiter
has; SIGHUP replaces limits and map in either order, and may end the process
if a request holds the map's mutex (`broken`).

**Answer cache.** The n-th answer of a source is n. A lookup, the question to
the source and the store are three steps. `kind` picks the cache: whether an
answer is good at its last instant, whether there is a limit, a reaper.

**Forwarding.** The order of the clusters is any order, because main ranges
over a map. What is left of the body -- whole, spent, closed -- decides what
another attempt does, as net/http's transport does.

**Client registry.** `req[p].todo` is the list of the steps a request has
left: `manager` (registerAndSave), `save` and `write` (the two halves of Save,
under the store's lock), `respond`. `Restart` may happen anywhere and reads
back what `Recoverable` says.

**The rest of Upkeep.** `FileStore` opens the store of a tenant with the double
look at the table, changes memory, writes a temporary file and renames it, and
may fail or crash in between. `Notifier` has the channel, the flag and the
goroutine; a send on the closed channel is a panic of the caller (`panics`).
A query of `AuditLog` is the set of entries it returns: that they stand newest
first is the loop's order and is left out. `AuditExport` has three kinds of
flusher. `TLSReload` reads pair and time in
different steps while an operator writes one file after the other.
`AWSCredentials` writes and reads three fields one by one. `SDKClient` keeps
two clocks apart, the proxy's and its own. `CLIConfig` reads a whole file at
the start of a command and writes it back at its end.

## 3. The runs

| Run | Question | Bounds |
|---|---|---|
| `token_race` | Do concurrent requests of two clients keep rotation, families, reuse detection and revocation intact? Includes the refinement of `OneTimeGrant` | 2 clients, 2 requests, 1 scope, 3 tokens, clock stopped; symmetric |
| `token_time` | The same data while time passes and registrations change; is a revoked token removed? | 1 client, 1 request, 2 scopes, 2 registrations, 2 tokens, 2 ticks, lifetimes 1 |
| `flows` | Are grants redeemed once and as authorized? | 2 requests, 2 grants, lifetime 1, 3 ticks |
| `path_race` | Are slots, sessions and bindings right when handlers outlive requests? | 2 requests, 2 tokens, 2 fingerprints, capacity 1, 1 session |
| `breaker` | When does the circuit trip, probe and recover? | 3 requests, threshold 2, cooldown 2, deadline 2 |
| `admission` | What does each check of a request let through while its tables change? | see below; symmetric in requests and items |
| `upkeep` | What survives failed writes, crashes, Stop and renewals? | see below |
| `token_reuse_gap`, `device_twice`, `path_binding`, `registry_rotate_race`, `declared_policy` | the five divergences below | smallest that show them |

What the properties of the two large runs say:

* Keys: `LiveTokensVerify` (the key of every live JWT is published as long as
  nobody forces a rotation and the interval is longer than a token lives),
  `PublishedKeyAccepted`, `WithdrawnKeyForgotten`.
  Rotation interval 2, token lifetime 1, 7 ticks, 1 forced rotation; 2
  validations, 2 provider keys, fresh 1, stale 2, 3 ticks.
* Credentials: `CredentialInForce`. A token is verified with the keys and the
  audience of the issuer it names unless its provider was moved under the
  validation (3 providers, one discovered, room for one more, 2 edits); a
  revoked API key is refused, and only a validation that the revocation
  overlaps may still pass (2 keys, 2 requests).
* Decisions: `DenyOverrides` compares every completed evaluation with the
  guide's rule over one moment's list of policies; `RolesOfOneConfiguration`
  compares mapper and roles with one configuration. 1 request at a time, 2
  configurations, 2 edits; policies with exceptions and one that does not
  parse.
* Rates: `WithinRate`. 2 requests of 1 client, limits 1 and 2 a minute, a
  minute of 2 ticks, 1 SIGHUP.
* Answers: `AnswersWithinTTL` and `RetryIsReplayed`. 2 requests, 2 items, room
  for 1, time to live 2, 4 ticks.
* Upstream: `BodyRunsOnce`. 1 request with no body, a sized or a chunked one,
  3 retries, 3 clusters in every order.
* Disk: `AnsweredIsOnDisk` and `DiskNeverForgets`, for the client file (2
  requests, 2 secrets, 1 restart, 1 failed write, 1 damaged file, 1 kind of
  registration data) and for a tenant's store (2 requests, 2 keys, 2 faults).
* Events: `HandedOverOnce` for webhooks (queue of 1, 3 events, 2 callers), the
  audit log (ring of 2, 3 entries, 2 tags) and its export (3 entries, 2
  seconds); `StopDrains`, a liveness property, for webhooks and export.
* Certificate: `RenewalServed`, liveness, 2 renewals.
* Kept credentials: `KeptCredentialsHold`. AWS credentials valid for 4 ticks
  and refreshed 2 before their end, tokens for 3 with a margin of 1, 2 sets,
  4 ticks, 2 requests or commands.

Why the bounds suffice. Every property relates at most two requests, two
tokens (a parent and its successor), two writers, or one client and its
tokens; two requests are enough for every order of two critical sections, and
a third token gives a reuse of the parent a grandchild to revoke. A lifetime
of one or two ticks with a few more ticks separates fresh, expired and long
expired. Queues, caches and rings of one or two entries are full after two
steps. Three providers are the fewest with one in front of a removed one and
one behind it. For safety and the refinements the theorems of section 4 remove
the bounds; they remain for liveness.

`token_race` stops the clock because its questions are about orders and
`token_time` runs it with a single request; their product is out of reach.
The refinement and the action properties range over all steps of the modules.

**Fairness.** `TokenManager`: an accepted request runs on (goroutines are
scheduled) and the cleanup ticker fires. `CircuitBreaker`: time passes, a
handler ends by its deadline, clients keep sending. `RequestPath`: the
connection's goroutine runs and the timer fires, but nothing is assumed of
the upstream or of a handler. `Upkeep`: the notifier's goroutine and a caller
of Stop run on (a post ends after 5 seconds), a flush that has begun goes on,
the exporter's loop takes the stop sooner or later (strong fairness: `select`
picks among ready cases at random, so a ready stop is not passed over for
ever), and the poller of the certificate polls. Nothing else is fair: events,
renewals and faults come or do not come.

**Deadlock** is checked in `token_race`, `token_time`, `breaker` and the
violations of the token manager and the registry. It is not in `flows`,
`admission`, `upkeep` (a behaviour at its bounds ends, and so does the process
after a panic or a fatal error), `path_race` and `path_binding` (each request
is sent once, and a panic ends the process).

Every property of a passing run has a mutant in the modules: a definition
marked `mutant` with a plausible bug, under which TLC finds it violated.

## 4. What is proved

With TLAPS, for every value of the constants that the ASSUMEs allow.

`TokenManagerProofs`. The invariants the runs check are not inductive: that a
refresh token pays for one token needs to know that parents are *used*
refresh tokens, and that what a request read in an earlier critical section
still describes its grant. `IInv` adds `TokensAreMinted` (a stored token is
the one its history describes), `ParentsAreUsed` and `RequestsCarryGrant`.
`InitEstablishes` and `NextPreserves` have one lemma per action; `Invariance`
gives `[]IInv`, from which follow `TypeCorrect`, `SingleRedemption`,
`GrantIsKept`, `FamilyIsComplete`, `RefreshIsConsistent` and
`GrantIsRegistered`. The action properties use the same invariant:
`RevocationPermanent` (a token only becomes less usable) and `ReuseIsPunished`
(a detected reuse leaves the client no unrevoked stored token), and so does the
refinement, `RefreshTokensAreOneTime`: a refresh token cannot be usable, claimed
and paid for at once (`StagesApart`), so `RefreshPhase` never says "used twice"
and is the `Stage` that every step moves along `OneTimeGrant` or leaves
(`StageMoves`): a rotation claims the token or voids it, minting issues one and
spends its parent, and whatever else removes it from the map voids it.

`CircuitBreakerProofs`. For any number of requests, threshold, cooldown and
deadline: `Tripped` (the state is not Closed exactly when the failures since
the last success reached the threshold), `HalfOpenIsOwned` and
`OutageIsSpared`; the invariant links the elapsed times of the model.

`RequestPathProofs`. For any finite set of requests, any tokens, clients and
fingerprints, any capacity and limit. The invariant `Shape` joins `TypeOK`,
`SlotsAreCounted` and `HandlersHaveEntered` (a handler runs only for a request
that has entered). That the counter is in its range follows from the count,
which is why they are proved together: `SlotTaken`, `SlotReturned` and
`LateIsCounted` say what entering, leaving and timing out do to the two
counted sets. `TypeCorrect` and `SlotsCounted` follow. `SessionsLimited` has an
invariant of its own, `Limits`: a removal only shrinks the sets of sessions,
and Create looks at the one it is about to extend, in the same critical
section. `StrangersRefused` is an action property from `Shape`: no step of
another request moves a stranger past the check or replaces the binding.

`GrantFlowsProofs`. For any clients, redirect URIs, verifiers, secrets and
lifetimes and any number of requests. `IInv` asks an invariant of the flow
that runs: `CodeInv`, `DeviceInv`, `BackchannelInv`, `PushedInv`. Each says
that a grant has one holder -- the consent, the code, the poll or the request
that took it out of its map -- and that the issuer is called by a holder only,
with what was authorized. From it follow `TypeCorrect`, `AuthorizedOnly`,
`DeviceCodeGone`, the action property `DenialHolds`, and `OneTimeGrants`: a
code, a backchannel request and a pushed request implement `OneTimeGrant`. Its
proof maps the initial states and then every step of a handler to a step of
`OneTimeGrant` or a stutter (`StageMoves`); that the phase of a grant is well
defined needs the invariant, because it is read off several maps.

`AdmissionProofs`, with `CredentialProofs` and `AuthorizationProofs`. For any
requests, keys, providers, policies, configurations, clusters, limits and
ages. `IInv` asks of the part that runs its own invariant; each part has a
lemma per action, and the unit of the argument is what a request carries from
one critical section to the next:

* `KeyringInv`: a token that is signed or about to be is of the current key,
  or of the previous one and expires before the ticker fires again.
  `LiveTokensVerify` follows only because the two keys differ and no rotation
  starts between two ticks.
* `JWKSInv`, `Sound`: what a validation fetched is no older than the keys were
  published; a forced refresh never takes the cached set. So overwriting the
  cache with an older answer cannot reject a published key.
* `ProviderInv`: the cells a removal has shifted and those it has still to
  shift together list every kept provider (`KeptAreListed`, `InTable`), and an
  address or a set of keys is filed under its issuer until one is moved under
  a reader (`mixed`).
* `KeyInv`: who read a key before it was revoked is the last to use it, and in
  the same tick.
* `AuthorizationInv`: the loop knows what the policies before the i-th say
  (`LoopInv`), so its answer is the guide's for all of them (`Decided`); an
  owner of the mapper is its only writer, and the words it has written are of
  the configuration it installs (`MapperInv`).
* `LimiterInv`, `Account`: what a bucket let through and what it holds are at
  most its burst and what flowed in since it was made.
* `AnswerInv`: an entry was right when its request asked (`TrueSince`), and
  the idempotency store has what was stored until it is too old.
* `ForwardingInv`, `Once`: a whole body belongs to a first attempt and has not
  run, and a request that waits to be sent has run at most as often as it was
  sent.

The theorems `TypeCorrect`, `TokensVerify`, `PublishedAccepted`,
`WithdrawnForgotten`, `DenyWins`, `RolesOfOne`, `RateHolds`,
`CredentialsInForce`, `BodyOnce`, `AnswersAreFresh` and `RetriesReplay` follow
part by part. TLC checked each `IInv` as an invariant of the corresponding run
before it was proved.

`UpkeepProofs`. For any requests, clients, keys, webhooks, ring and queue sizes,
faults and ticks; again an invariant per part and a lemma per action:

* `RInv`: a request is at one of the places its operation has (`Plan`), so what
  it has brought about is known (`Kept`); and, as long as no file was damaged,
  the disk, the snapshot of the lock's holder and the manager agree on every
  client except those a failed save left behind and those some request has
  still to save (`OnDisk`). A file is renamed before it is written: that the
  backup holds the same clients meanwhile is `Renamed`. The action property
  `DiskNeverForgets` needs that a snapshot has every client of the disk.
* `FInv`: the lock's holder writes the value it put into memory, and memory has
  for every key what was answered or what was tried since.
* `NInv`: the channel is the end of what was accepted, and the attempts fill
  the table of events and webhooks row by row.
* `LInv`: the ring is the end of what was written, of the length the bound
  leaves; an entry on its way to the file is in no other hands. That a query's
  answer has no gap follows with two lemmas on finite sets (`GreatestOf`,
  `Newest`).
* `XInv`: buffer, batches, objects and losses are apart and together are all
  entries.
* `TInv`: the poller holds a file of a pair that was written.
* `AInv`: unless two refreshes have crossed, the writers write the same set,
  and without a writer the fields are one set with its expiry; what a request
  has read is one set that outlives the buffer.
* `SInv`: a token that is sent was good when it was taken, or has just come.
* `CInv`: after a logout nobody who read the file before has anything to
  write, or the history says so.

The theorems are `TypeCorrect`, `AnsweredIsDurable`, `NeverForgets`,
`HandedOver` and `CredentialsHold`. TLC checked this `IInv` too, on the run
`upkeep`.

The theorems assume of the constants what the `*Parameters` modules and
`TokenManager`, `RequestPath` and `CircuitBreaker` say under ASSUME: sizes,
bounds and lifetimes are numbers, free marks are not requests, an absent or a
damaged file is not a table of clients, a list of webhooks is a list.

What the proofs changed. The values of a run had hidden four things: the
interval of the ticker may be shorter than a token lives, which
`LiveTokensVerify` now says; a policy may have an effect that is neither permit
nor forbid, which `Plain` now says (section 5) and a third policy of the run
shows; a validator may have no provider at all, for which the search of
`Providers` read a cell that is not there; and AWS credentials could expire
under a request in `AWSCredentials` once there were three sets and eight ticks,
because a refresh could wait for a tick before it wrote and another before its
request was signed. That was the model's clock, not the code: the tick a request
may take now counts from the answer (`since`), and the buffer, five minutes in
the code, is at least two ticks. The CASE in `PhaseOf` of `PushedRequest` had
overlapping guards and became a chain of IFs; the order of the attempts in
`Notifier` is stated by event and webhook, not with a quotient and a
remainder.

Only model-checked: liveness (no ENABLED in the prover).

## 5. Where code and documents disagree

Shown by a run:

* `token_reuse_gap`: a reuse detected while the first request is between
  rotation and minting leaves the new token alive (`manager.go:294`;
  docs/oauth-flows.md:119).
* `device_twice`: overlapping polls of an approved code each get a token
  (`device/handler.go:134`; docs/oauth-flows.md:400).
* `path_binding`: concurrent first uses with different fingerprints all pass
  (`main.go:1462`; docs/adr/decisions.md:262).
* `registry_rotate_race`: concurrent rotations can leave the older secret
  valid (`registration/handler.go:211`; docs/api-reference.md:260).
* `declared_policy`: the Terraform provider sends the text of a policy in a
  field the admin API does not read, and a declared forbid becomes a permit of
  everything (`admin/admin.go:168`; terraform-provider/README.md:34).

Observed while modelling (the models contain the behaviour):

* A revoked access token's refresh token still rotates (`manager.go:271`;
  docs/security.md:227), and Cleanup drops refresh tokens an hour after issue
  (`manager.go:437`; docs/security.md:291).
* The breaker can have two probes out (`breaker.go:61`), a late success
  closes an open circuit (`breaker.go:67`), and a probe that never reports
  leaves it half open for ever (`breaker.go:105`): hence `lost` in
  `RecoversUnlessLost`.
* The error of Save is dropped (`main.go:519`); a corrupt primary file
  replaces the good backup on the next save (`token/store.go:69`); Delete
  keeps the client's tokens (`registration/handler.go:183`); the handler's map
  is not reloaded after a restart (`registration/handler.go:55`); Update does
  not reach the token manager (`registration/handler.go:242`).
* After the deadline a client may get 502 or an empty 200 instead of 504
  (`timeout/middleware.go:31`); the handlers at work can exceed the shedder's
  threshold; a failing body copy panics in a goroutine without recover
  (`timeout/middleware.go:23`).
* ForceLogout misses sessions of tokens the proxy issued itself
  (`main.go:1419`).
* Two rotations within a token's lifetime, one of them forced, withdraw a key
  in use (`keyring.go:66`), and so does an interval below the lifetime, which
  OAUTH4OS_KEY_ROTATE_HOURS may set (`main.go:680`): hence `forced = 0` and
  `Lifetime < Interval` in `LiveTokensVerify`.
* A policy is stored with whatever effect it is sent with, and one that is
  neither permit nor forbid is taken for a permit (`main.go:966`,
  `cedar/engine.go:100`): hence `Plain` in `DenyOverrides`.
* A JWKS answer that does not decode skips the fallback (`validator.go:211`).
* The validator keeps the slice of providers it was built with: one that is
  added is found only if there is room behind it in the array, and the last
  one, once removed, is accepted for ever (`admin.go:97`, `validator.go:154`).
* A condition after an "in" that holds is not looked at
  (`cedar/engine.go:176`): hence `Plain` in `DenyOverrides`. Clauses behind an
  unknown word are dropped without an error.
* A resource sent to the admin API is compared literally; a restored backup
  adds its policies to those there are, and DELETE removes the first of that
  id only; a tenant that is removed, or left without a valid policy, keeps its
  engine (`admin.go:248`); the next edit undoes what a SIGHUP loaded into the
  mapper.
* A limit of 0 counts as no limit, and so does a lower one before it in the
  list of scopes (`ratelimit/limiter.go`); the capacity of a bucket stays that
  of the client's first request.
* A request without a body may run `MaxRetries` + 1 times and one with a
  chunked body again without it (`retry/transport.go:38`); the retries go on
  sleeping after the deadline. What the router would send to its fallback goes
  to the engine of the configuration (`federation/router.go`).
* A full response cache makes room also for a key it has
  (`cache/cache.go:57`); an introspection from before a revocation can be
  stored after it and counts anew (`introspect/handler.go:138`).
* An upload that fails loses its batch, and a second flush in one second
  overwrites the first object (`auditexport/exporter.go:57`). A failed write
  ends the audit file, as the encoder keeps its error.
* A certificate written between the load and the Stat of the poller is not
  loaded (`tlsreload/reloader.go:52`): hence `missed` in `RenewalServed`.
* Two refreshes at once can leave a mixture of two sets of AWS credentials
  until it expires (`sigv4/transport.go:61`): hence `crossed`. A refresh that
  runs while another command logs out writes the credentials back
  (`cmd/cli/main.go:58`): hence `raced`.

Noticed and outside the models: docs/architecture.md:428 says that the first
matching cluster wins, but main lists the clusters by ranging over a map
(`main.go:380`), so "first" changes from start to start; docs/oauth-flows.md:292
shows a Cedar evaluation in the API key flow that the branch of `main.go:1363`
does not make; `FailOpen` of the webhook authorizer is configured and never
read (`webhook/authorizer.go:45`); `updateRateLimits` of the admin API writes a
field only a backup reads (`admin.go:222`); a token exchange's requested scope
replaces the subject's; the command line and `CreateToken` of the Go client
send no secret.

## 6. Not modelled

* Because nothing in them is stateful or concurrent: discovery, pages,
  compression, ETag, CORS, DPoP and claim checks, signatures, parsing of the
  configuration, the identity of a client certificate.
* Because no decision reads it: metrics, tracing, access logs, histograms,
  health and usage records; statistics and listings of the modelled parts.
* Token exchange: one request that looks a token up and issues another; its
  state is the token manager's.
* The webhook authorizer: one call per request, an outcome of `Decide`.
* Not wired into `cmd/proxy`: `internal/backup` (not modelled), and, though
  modelled, the idempotency middleware, the cached introspection, the stores
  in `internal/store`, the audit exporter and `Notifier.Stop`; the response
  cache is read there and never filled.
* Sessions' Touch and Cleanup, the binder's Remove, DPoP binding: nothing calls
  them, or nothing decides by them.
* Below the level of a step: torn reads of Go strings and slices, the loss of
  a rename without an fsync of the directory, the address space of a process
  (no bound on the maps), clocks that jump.
* SDKs in other languages, charts, plugins and front ends.

What would come next: token exchange together with the token manager.
