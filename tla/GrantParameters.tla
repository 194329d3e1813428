--------------------------- MODULE GrantParameters ---------------------------
(***************************************************************************)
(* The constants of the grants that wait for a user or for another         *)
(* request: authorization codes (PKCE), device codes, backchannel requests *)
(* and pushed requests.  Every flow has a lifetime of its own (TTL); it is *)
(* one constant because a behaviour of GrantFlows runs one flow.           *)
(***************************************************************************)
EXTENDS Integers, FiniteSets

CONSTANTS
    Client,       \* client ids
    Uri,          \* redirect URIs
    Registered,   \* the registered <<client, redirect URI>> pairs
    Verifier,     \* PKCE verifiers; SHA-256 is injective, the challenge of v is v
    Secret,       \* client secrets
    Known,        \* the <<client, secret>> pairs AuthenticateClient accepts
    Empty,        \* a parameter that is absent or ""
    Proc,         \* concurrent requests
    TTL,          \* lifetime of a grant: 10 min, 10 min, 5 min, 60 s
    MaxGrants,    \* bound: grants started in a behaviour
    MaxTime       \* bound: clock ticks in a behaviour

ASSUME ParameterAssumption ==
    /\ Registered \subseteq Client \X Uri
    /\ Known \subseteq Client \X Secret
    /\ Empty \notin Verifier \cup Secret
    /\ TTL \in Nat \ {0} /\ MaxGrants \in Nat /\ MaxTime \in Nat

\* The n-th grant draws the id n: ids drawn at random are taken to be distinct,
\* although the user code of a device has 32 bits only.
Id == 1 .. MaxGrants
=============================================================================
