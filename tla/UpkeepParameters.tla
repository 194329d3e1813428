-------------------------- MODULE UpkeepParameters --------------------------
(***************************************************************************)
(* The constants of the background work: registration, webhooks, the audit *)
(* trail and its export, the TLS certificate, and the credentials of the   *)
(* transports and the two clients.                                         *)
(***************************************************************************)
EXTENDS Integers, Sequences

CONSTANTS
    Meta,             \* scopes and redirect URIs of a registration
    Proc,             \* concurrent requests
    NoProc,           \* the store's mutex is free
    Absent, Corrupt,  \* contents of a file that is missing, or not JSON
    MaxSecrets,       \* bound: secrets drawn in a behaviour
    MaxRestarts,      \* bound: process restarts
    MaxFailures,      \* bound: saves that fail (disk full, I/O error)
    MaxCorruptions    \* bound: times the primary file is damaged

CONSTANTS         \* FileStore
    StoreKey,     \* keys of the store
    MaxStoreFaults   \* bound: failed writes and restarts in a behaviour

CONSTANTS         \* Notifier
    Urls,         \* the webhooks, in order
    QueueSize,    \* capacity of the channel (100)
    MaxEvents     \* bound: events emitted in a behaviour

CONSTANTS         \* AuditLog, AuditExport
    Tag,          \* what a query filters by
    RingSize,     \* entries kept in memory (10000)
    MaxEntries,   \* bound: entries written in a behaviour
    MaxExports    \* bound: seconds in which exports begin

CONSTANTS         \* TLSReload
    MaxRenewals   \* bound: certificates written in a behaviour

CONSTANTS         \* AWSCredentials, SDKClient, CLIConfig
    CredLife,     \* how long a set of container credentials is valid
    CredBuffer,   \* refreshed when it expires in less (5 minutes)
    TokenLife,    \* expires_in
    Margin,       \* a token is renewed when it expires in less (30 seconds)
    MaxIssues,    \* bound: sets or tokens issued in a behaviour
    MaxUpkeepTime \* bound: clock ticks in a behaviour

ASSUME RegistryAssumption ==
    /\ NoProc \notin Proc /\ Absent # Corrupt
    /\ \A ids \in SUBSET (1 .. MaxSecrets) :
          {Absent, Corrupt} \cap [ids -> [secret : 1 .. MaxSecrets, meta : Meta]] = {}
    /\ MaxSecrets \in Nat /\ MaxRestarts \in Nat
    /\ MaxFailures \in Nat /\ MaxCorruptions \in Nat

ASSUME UrlsAssumption == Urls \in Seq({Urls[i] : i \in DOMAIN Urls})

ASSUME UpkeepAssumption ==
    /\ "none" \notin StoreKey /\ MaxStoreFaults \in Nat
    /\ QueueSize \in Nat \ {0} /\ MaxEvents \in Nat
    /\ RingSize \in Nat \ {0} /\ MaxEntries \in Nat /\ MaxExports \in Nat
    /\ MaxRenewals \in Nat
    /\ CredBuffer \in Nat \ {0, 1} /\ CredLife \in Nat /\ CredBuffer < CredLife
    /\ Margin \in Nat /\ TokenLife \in Nat
    /\ MaxIssues \in Nat \ {0} /\ MaxUpkeepTime \in Nat
=============================================================================
