--------------------------- MODULE ClientRegistry ---------------------------
(***************************************************************************)
(* Dynamic client registration and its persistence: the handler of         *)
(* /oauth/register (internal/registration/handler.go), the client table of *)
(* the token manager it writes to, and the file store both are saved with  *)
(* (internal/token/store.go), wired together in cmd/proxy/main.go.         *)
(*                                                                         *)
(* A request takes the handler's mutex, the manager's mutex and the        *)
(* store's mutex one after the other; req[p].todo lists the steps it still *)
(* has to take.  The process can stop at any point and starts again from   *)
(* what is on disk.                                                        *)
(*                                                                         *)
(* Random values never repeat: the n-th draw is the secret n, and the n-th *)
(* draw of a registration is its client id too.                            *)
(***************************************************************************)
EXTENDS UpkeepParameters, GoMaps

VARIABLES
    app,       \* the handler's Response objects; they outlive their map entry
    listed,    \* the keys of Handler.clients
    manager,   \* Manager.clients: client id -> registration
    main,      \* data/clients.json
    bak,       \* data/clients.json.bak
    lock,      \* the holder of ClientStore.mu
    snapshot,  \* what the holder of the lock is writing
    req,       \* the requests in progress
    drawn,     \* secrets drawn so far, the last one is the newest
    faults,    \* restarts, failed saves and corruptions so far
    acked,     \* history: client id -> newest secret returned to a caller
    unsaved    \* history: changed since the last successful save, a save failed

disk == <<main, bak>>
store == <<lock, snapshot>>
history == <<acked, unsaved>>
vars == <<app, listed, manager, disk, store, req, drawn, faults, history>>

Client == 1 .. MaxSecrets
NoClient == 0
Registration == [secret : 1 .. MaxSecrets, meta : Meta]
Step == {"manager", "save", "write", "respond"}
Op == {"none", "register", "rotate", "update", "delete", "shutdown"}
Idle == [op |-> "none", id |-> NoClient, secret |-> 0, todo |-> <<>>]

IsTable(t) == \E ids \in SUBSET Client : t \in [ids -> Registration]
IsFile(f) == f \in {Absent, Corrupt} \/ IsTable(f)

TypeOK ==
    /\ IsTable(app) /\ IsTable(manager) /\ IsTable(snapshot)
    /\ listed \subseteq DOMAIN app
    /\ IsFile(main) /\ IsFile(bak)
    /\ lock \in Proc \cup {NoProc}
    /\ \A p \in Proc :
          /\ req[p].op \in Op /\ req[p].id \in Client \cup {NoClient}
          /\ req[p].secret \in 0 .. drawn
          /\ \A i \in DOMAIN req[p].todo : req[p].todo[i] \in Step
    /\ drawn \in 0 .. MaxSecrets
    /\ acked \in [Client -> 0 .. drawn]
    /\ unsaved \subseteq Client

Init ==
    /\ app = EmptyMap /\ listed = {} /\ manager = EmptyMap
    /\ main = Absent /\ bak = Absent
    /\ lock = NoProc /\ snapshot = EmptyMap
    /\ req = [p \in Proc |-> Idle]
    /\ drawn = 0
    /\ faults = [restarts |-> 0, failures |-> 0, corruptions |-> 0]
    /\ acked = [c \in Client |-> 0]
    /\ unsaved = {}

-----------------------------------------------------------------------------
Begin(p, op, c, secret, todo) ==
    /\ req[p] = Idle
    /\ req' = [req EXCEPT ![p] = [op |-> op, id |-> c, secret |-> secret, todo |-> todo]]

Ready(p, step) == req[p].todo # <<>> /\ Head(req[p].todo) = step
Done(p) ==
    LET r == req[p]
    IN req' = [req EXCEPT ![p] = IF Len(r.todo) = 1 THEN Idle ELSE [r EXCEPT !.todo = Tail(r.todo)]]

\* randomHex
RepeatSecret == UNCHANGED drawn            \* mutant: the error of rand.Read is dropped
DrawSecret == drawn' = drawn + 1

\* Register: a fresh id and secret, first in the handler's map.
Register(p, meta) ==
    LET c == drawn + 1
    IN /\ drawn < MaxSecrets
       /\ app' = Put(app, c, [secret |-> c, meta |-> meta])
       /\ listed' = listed \cup {c}
       /\ DrawSecret
       /\ Begin(p, "register", c, c, <<"manager", "save", "respond">>)
       /\ UNCHANGED <<manager, disk, store, faults, history>>

\* RotateSecret: the new secret is set under the handler's lock; saveClients
\* saves once more after the handler.
RotateSecret(p, c) ==
    /\ drawn < MaxSecrets
    /\ c \in listed
    /\ app' = [app EXCEPT ![c].secret = drawn + 1]
    /\ DrawSecret
    /\ Begin(p, "rotate", c, drawn + 1, <<"manager", "save", "respond", "save">>)
    /\ UNCHANGED <<listed, manager, disk, store, faults, history>>

\* Update changes the handler's object only.
Update(p, c, meta) ==
    /\ c \in listed
    /\ app' = [app EXCEPT ![c].meta = meta]
    /\ Begin(p, "update", c, 0, <<"respond", "save">>)
    /\ UNCHANGED <<listed, manager, disk, store, drawn, faults, history>>

\* Delete removes the handler's entry only.
Delete(p, c) ==
    /\ c \in listed
    /\ listed' = listed \ {c}
    /\ Begin(p, "delete", c, 0, <<"respond", "save">>)
    /\ UNCHANGED <<app, manager, disk, store, drawn, faults, history>>

\* The graceful shutdown saves the clients; the process may end meanwhile.
Shutdown(p) ==
    /\ Begin(p, "shutdown", NoClient, 0, <<"save">>)
    /\ UNCHANGED <<app, listed, manager, disk, store, drawn, faults, history>>

\* tokenMgr.RegisterClient, by registerAndSave: the secret the request drew,
\* and scopes and redirect URIs as the object has them by now.
RegisterClient(p) ==
    /\ Ready(p, "manager")
    /\ manager' = Put(manager, req[p].id,
                      [secret |-> req[p].secret, meta |-> app[req[p].id].meta])
    /\ Done(p)
    /\ UNCHANGED <<app, listed, disk, store, drawn, faults, history>>

\* The answer to the caller.
Respond(p) ==
    /\ Ready(p, "respond")
    /\ IF req[p].op \in {"register", "rotate"}
         THEN acked' = [acked EXCEPT ![req[p].id] = IF @ < req[p].secret THEN req[p].secret ELSE @]
         ELSE UNCHANGED acked
    /\ Done(p)
    /\ UNCHANGED <<app, listed, manager, disk, store, drawn, faults, unsaved>>

-----------------------------------------------------------------------------
\* Save: the lock is taken, the clients are read, and an existing file is
\* renamed to the backup.
DiscardOld == main' = Absent /\ UNCHANGED bak   \* mutant: removed, not renamed
Backup == IF main = Absent THEN UNCHANGED disk ELSE bak' = main /\ main' = Absent

SnapshotListed == snapshot' = Restrict(manager, listed \cap DOMAIN manager)   \* mutant: the handler's list
Snapshot == snapshot' = manager

SaveStart(p) ==
    /\ Ready(p, "save")
    /\ lock = NoProc
    /\ lock' = p
    /\ Snapshot
    /\ Backup
    /\ req' = [req EXCEPT ![p].todo = <<"write">> \o Tail(@)]
    /\ UNCHANGED <<app, listed, manager, drawn, faults, history>>

\* The temporary file is written and renamed.
SaveWrite(p) ==
    /\ Ready(p, "write")
    /\ lock' = NoProc /\ snapshot' = EmptyMap
    /\ main' = snapshot
    /\ unsaved' = unsaved \ DOMAIN snapshot
    /\ Done(p)
    /\ UNCHANGED <<app, listed, manager, bak, drawn, faults, acked>>

\* NewClientStore: the file, or the backup if the file does not load, or none.
Loads(f) == f \notin {Absent, Corrupt}
Recoverable == IF Loads(main) THEN main ELSE IF Loads(bak) THEN bak ELSE EmptyMap

\* WriteFile or Rename fails: Save returns an error that no caller looks at.
SaveFails(p) ==
    /\ Ready(p, "write")
    /\ faults.failures < MaxFailures
    /\ faults' = [faults EXCEPT !.failures = @ + 1]
    /\ lock' = NoProc /\ snapshot' = EmptyMap
    /\ unsaved' = unsaved \cup {c \in DOMAIN snapshot :
                                c \notin DOMAIN Recoverable \/ Recoverable[c] # snapshot[c]}
    /\ Done(p)
    /\ UNCHANGED <<app, listed, manager, disk, drawn, acked>>

\* The process stops anywhere and starts again; the handler's map is not
\* loaded from anywhere.
Restart ==
    /\ faults.restarts < MaxRestarts
    /\ faults' = [faults EXCEPT !.restarts = @ + 1]
    /\ manager' = Recoverable
    /\ app' = EmptyMap /\ listed' = {}
    /\ lock' = NoProc /\ snapshot' = EmptyMap
    /\ req' = [p \in Proc |-> Idle]
    /\ UNCHANGED <<disk, drawn, acked, unsaved>>

\* The primary file is damaged on disk.
CorruptFile ==
    /\ faults.corruptions < MaxCorruptions
    /\ Loads(main)
    /\ faults' = [faults EXCEPT !.corruptions = @ + 1]
    /\ main' = Corrupt
    /\ UNCHANGED <<app, listed, manager, bak, store, req, drawn, history>>

Next ==
    \/ \E p \in Proc :
          \/ \E c \in Client :
                \/ \E meta \in Meta : Update(p, c, meta)
                \/ RotateSecret(p, c)
                \/ Delete(p, c)
          \/ \E meta \in Meta : Register(p, meta)
          \/ Shutdown(p)
          \/ RegisterClient(p) \/ Respond(p)
          \/ SaveStart(p) \/ SaveWrite(p) \/ SaveFails(p)
    \/ Restart
    \/ CorruptFile

-----------------------------------------------------------------------------
(* Properties *)

Answered(c) == acked[c] > 0
Changing(c) ==
    \E p \in Proc : req[p].id = c /\ req[p].todo # <<>> /\ req[p].todo # <<"respond">>

\* Whatever saves, rotations and crashes interleave, a client whose
\* registration was answered can be read back from disk, and what is read
\* back is what the token manager accepts, unless a save failed.
DurableAck ==
    faults.corruptions = 0 =>
        \A c \in Client :
            Answered(c) /\ c \notin unsaved =>
                /\ c \in DOMAIN Recoverable
                /\ ~Changing(c) => c \in DOMAIN manager /\ Recoverable[c] = manager[c]

\* A client that can be read back from disk can be read back for ever: no
\* save, finished, failed or cut off by a crash, loses it.
KeepsClients == faults'.corruptions = 0 => DOMAIN Recoverable \subseteq DOMAIN Recoverable'

\* docs/api-reference.md: "Returns the new secret; the old one is immediately
\* invalidated."  After a rotation was answered no older secret is accepted.
RotatedSecretHolds ==
    \A c \in DOMAIN manager : manager[c].secret >= acked[c]
=============================================================================
