------------------------------- MODULE Upkeep -------------------------------
(***************************************************************************)
(* What runs beside the requests, side by side: registration and the       *)
(* client file (ClientRegistry), the tenants' stores (FileStore), webhooks *)
(* (Notifier), the audit log and its export (AuditLog, AuditExport), the   *)
(* certificate (TLSReload), and the credentials the transports and the two *)
(* clients keep (AWSCredentials, SDKClient, CLIConfig).  They share no     *)
(* state: a behaviour here is one of a component, chosen at the start.     *)
(***************************************************************************)
EXTENDS UpkeepParameters

VARIABLES
    part,                             \* the component this behaviour runs
    app, listed, manager, main, bak, lock, snapshot, req, drawn, faults, acked, unsaved,
    tenant, memory, disk, storeLock, storeCall, storeAcked, tried, storeFaults,
    ch, stopped, closed, done, post, call, accepted, attempts, panics, emitted,
    tags, ring, logFile, fileState, emit,
    buf, flush, objects, lost, exportStopped, second, added,
    newest, cert, key, loaded, modTime, poll, missed, clock,
    issued, fields, credsExp, signing, crossed,
    token, tokenLock, doing,
    config, run, loggedOut, raced,
    now                               \* of the credentials that run

R == INSTANCE ClientRegistry
F == INSTANCE FileStore WITH lock <- storeLock, call <- storeCall, acked <- storeAcked,
                             faults <- storeFaults
N == INSTANCE Notifier
L == INSTANCE AuditLog WITH file <- logFile
X == INSTANCE AuditExport WITH stopped <- exportStopped
T == INSTANCE TLSReload
A == INSTANCE AWSCredentials WITH req <- signing
S == INSTANCE SDKClient WITH lock <- tokenLock, call <- doing
C == INSTANCE CLIConfig WITH file <- config

registry == <<app, listed, manager, main, bak, lock, snapshot, req, drawn, faults, acked, unsaved>>
store == <<tenant, memory, disk, storeLock, storeCall, storeAcked, tried, storeFaults>>
notifier == <<ch, stopped, closed, done, post, call, accepted, attempts, panics, emitted>>
log == <<tags, ring, logFile, fileState, emit>>
export == <<buf, flush, objects, lost, exportStopped, second, added>>
tls == <<newest, cert, key, loaded, modTime, poll, missed, clock>>
aws == <<issued, fields, credsExp, signing, crossed>>
sdk == <<token, tokenLock, doing>>
cli == <<config, run, loggedOut, raced>>
files == <<registry, store>>
events == <<notifier, log, export, tls>>
credentials == <<aws, sdk, cli>>
vars == <<part, files, events, credentials, now>>

TypeOK ==
    /\ part = "registry" => R!TypeOK
    /\ part = "store" => F!TypeOK
    /\ part = "notifier" => N!TypeOK
    /\ part = "log" => L!TypeOK
    /\ part = "export" => X!TypeOK
    /\ part = "tls" => T!TypeOK
    /\ part = "aws" => A!TypeOK
    /\ part = "sdk" => S!TypeOK
    /\ part = "cli" => C!TypeOK

Init ==
    /\ part \in {"registry", "store", "notifier", "log", "export", "tls", "aws", "sdk", "cli"}
    /\ R!Init /\ F!Init /\ N!Init /\ L!Init /\ X!Init /\ T!Init /\ A!Init /\ S!Init /\ C!Init

-----------------------------------------------------------------------------
\* A step of one component leaves the others as they are.
Registry(step) == part = "registry" /\ step /\ UNCHANGED <<part, store, events, credentials, now>>
Store(step) == part = "store" /\ step /\ UNCHANGED <<part, registry, events, credentials, now>>
Webhooks(step) == part = "notifier" /\ step /\ UNCHANGED <<part, files, log, export, tls, credentials, now>>
Audit(step) == part = "log" /\ step /\ UNCHANGED <<part, files, notifier, export, tls, credentials, now>>
Export(step) == part = "export" /\ step /\ UNCHANGED <<part, files, notifier, log, tls, credentials, now>>
Certificate(step) == part = "tls" /\ step /\ UNCHANGED <<part, files, notifier, log, export, credentials, now>>
AWS(step) == part = "aws" /\ step /\ UNCHANGED <<part, files, events, sdk, cli>>
SDK(step) == part = "sdk" /\ step /\ UNCHANGED <<part, files, events, aws, cli>>
CLI(step) == part = "cli" /\ step /\ UNCHANGED <<part, files, events, aws, sdk>>

Next ==
    \/ Registry(R!Next) \/ Store(F!Next)
    \/ Webhooks(N!Next) \/ Audit(L!Next) \/ Export(X!Next) \/ Certificate(T!Next)
    \/ AWS(A!Next) \/ SDK(S!Next) \/ CLI(C!Next)

(* Goroutines that can go on do: drain and who called Stop (a post ends     *)
(* after 5 seconds), the exporter's flushes and its loop, which select lets *)
(* take the stop sooner or later, and the poller of the certificate.        *)
Fairness ==
    /\ WF_vars(Webhooks(N!Drain))
    /\ \A p \in Proc : WF_vars(Webhooks(N!Close(p))) /\ WF_vars(Webhooks(N!Stopped(p)))
    /\ \A f \in X!Flusher : WF_vars(Export(X!Take(f)))
                         /\ WF_vars(Export(X!Upload(f) \/ X!UploadFails(f)))
    /\ SF_vars(Export(X!End))
    /\ WF_vars(Certificate(T!Poll))

Spec == Init /\ [][Next]_vars /\ Fairness

-----------------------------------------------------------------------------
(* Properties; the components say what each is about. *)

\* ClientRegistry, FileStore: what was answered for can be read back from disk.
AnsweredIsOnDisk ==
    /\ part = "registry" => R!DurableAck
    /\ part = "store" => F!AnsweredIsOnDisk

\* ClientRegistry: no save loses a client that can be read back.
DiskNeverForgets == [][part = "registry" => R!KeepsClients]_vars

\* ClientRegistry: after a rotation was answered no older secret is accepted.
RotatedSecretHolds == part = "registry" => R!RotatedSecretHolds

\* What is handed over in order arrives in order, and once: an event at every
\* webhook (Notifier), an entry in the answer to a query and in the file
\* (AuditLog), and in one place on its way to the store (AuditExport).
HandedOverOnce ==
    /\ part = "notifier" => N!AttemptedOnceInOrder
    /\ part = "log" => L!NewestWithoutGaps
    /\ part = "export" => X!EachEntryInOnePlace

\* Credentials that are kept can be used: one whole set of AWS credentials, an
\* access token that lives when it arrives (SDKClient), and none at all after a
\* logout (CLIConfig).
KeptCredentialsHold ==
    /\ part = "aws" => A!SignedWithOneSet
    /\ part = "sdk" => S!ValidOnArrival
    /\ part = "cli" => C!LogoutHolds

\* Notifier, AuditExport: Stop returns, and what was there is sent.
StopDrains == N!StopReturns /\ X!StopFlushes

\* TLSReload: a renewed certificate is served in the end.
RenewalServed == T!RenewalServed
=============================================================================
