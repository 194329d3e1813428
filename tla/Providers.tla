------------------------------ MODULE Providers -----------------------------
(***************************************************************************)
(* The table of OIDC providers, changed by the admin API                   *)
(* (internal/admin/admin.go) and read by the validator                     *)
(* (internal/jwt/validator.go).  Both hold a slice of the array the        *)
(* configuration was loaded into, and only admin.State locks.  A removal   *)
(* moves the providers behind it forward in that array, one by one; an     *)
(* addition is written behind them while there is room.  findProvider      *)
(* returns a pointer into the array: what it points to may be another      *)
(* provider by the time it is used.  A full array, or a restored backup,   *)
(* gives admin.State an array of its own that the validator never sees.    *)
(***************************************************************************)
EXTENDS AdmissionParameters, SequencesExt, GoMaps

VARIABLES
    cells,        \* the array: [of, uri]; the validator's slice is the first Watched
    size,         \* providers of cfg.Providers while it is a slice of cells
    own,          \* cfg.Providers as a slice of another array
    shared,       \* cfg.Providers is a slice of cells
    moving,       \* the removal in progress: [of, read, write]
    keysOf,       \* jwksCache: issuer -> the issuer whose keys are there
    req,          \* the validations in progress
    kept,         \* history: providers configured from the start and never removed
    mixed,        \* history: a cell that a validation points to was overwritten
    edits         \* changes of the table so far

table == <<cells, size, own, shared, moving>>
history == <<kept, mixed>>
vars == <<table, keysOf, req, history, edits>>

Still == [of |-> NoProvider, read |-> 0, write |-> 0]
Nobody == [of |-> NoProvider, uri |-> NoProvider]
Idle == [pc |-> "idle"]

\* A provider is its issuer; its jwks_uri is "auto" or known, and is written as
\* the issuer it belongs to.
Auto == NoProvider
Entry(p) == [of |-> p, uri |-> IF p \in Discovered THEN Auto ELSE p]
Entries(ps) == [i \in DOMAIN ps |-> Entry(ps[i])]

\* NewValidator takes the slice, not the configuration.
Watched == Len(Configured)

Init ==
    /\ cells = Entries(Configured) \o [i \in 1 .. SpareCells |-> Nobody]
    /\ size = Watched /\ shared = TRUE /\ own = <<>>
    /\ moving = Still
    /\ keysOf = EmptyMap
    /\ req = [p \in Caller |-> Idle]
    /\ kept = {Configured[i] : i \in 1 .. Watched} /\ mixed = FALSE
    /\ edits = 0

-----------------------------------------------------------------------------
(* A validation *)

Pointing(p) == req[p].pc \notin {"idle", "scan", "unknown"}
There(p) == cells[req[p].at]
To(p, pc) == req' = [req EXCEPT ![p].pc = pc]

\* A token arrives; its issuer is read without verifying it.
Validate(p, issuer) ==
    /\ req[p] = Idle
    /\ req' = [req EXCEPT ![p] = [pc |-> "scan", issuer |-> issuer, at |-> 1, asked |-> Auto,
                keys |-> Auto, audience |-> Auto, again |-> FALSE, overlapped |-> moving # Still]]
    /\ UNCHANGED <<table, keysOf, history, edits>>

\* findProvider: one cell, or the end of the slice.
FindProvider(p) ==
    /\ req[p].pc = "scan"
    /\ IF req[p].at <= Watched
         THEN \/ There(p).of = req[p].issuer /\ To(p, "lookup")
              \/ There(p).of # req[p].issuer /\ req' = [req EXCEPT ![p].at = @ + 1]
         ELSE To(p, "unknown")
    /\ UNCHANGED <<table, keysOf, history, edits>>

\* getJWKS: the cached keys, unless there are none or they are too old.
CachedKeys(p) == keysOf[There(p).of]

Lookup(p) ==
    /\ req[p].pc = "lookup"
    /\ \/ There(p).of \in DOMAIN keysOf
             /\ req' = [req EXCEPT ![p] = [@ EXCEPT !.pc = "verify", !.keys = CachedKeys(p)]]
       \/ To(p, "resolve")
    /\ UNCHANGED <<table, keysOf, history, edits>>

\* resolveJWKSURI: the address is known, or the issuer is asked for it, ...
ResolveJWKSURI(p) ==
    /\ req[p].pc = "resolve"
    /\ req' = [req EXCEPT ![p] =
          IF There(p).uri = Auto THEN [@ EXCEPT !.pc = "discover", !.asked = There(p).of]
                                 ELSE [@ EXCEPT !.pc = "fetch", !.asked = There(p).uri]]
    /\ UNCHANGED <<table, keysOf, history, edits>>

\* ... which must be the issuer still, ...
Discover(p) ==
    /\ req[p].pc = "discover"
    /\ To(p, IF req[p].asked = There(p).of THEN "keep" ELSE "fallback")
    /\ UNCHANGED <<table, keysOf, history, edits>>

\* ... and the address is kept where the pointer points.
KeepURI(p) ==
    /\ req[p].pc = "keep"
    /\ cells' = [cells EXCEPT ![req[p].at].uri = req[p].asked]
    /\ To(p, "fetch")
    /\ UNCHANGED <<size, own, shared, moving, keysOf, history, edits>>

\* The keys at that address, stored under the issuer the pointer points to now.
Fetch(p) ==
    /\ req[p].pc = "fetch"
    /\ keysOf' = Put(keysOf, There(p).of, req[p].asked)
    /\ req' = [req EXCEPT ![p] = [@ EXCEPT !.pc = "verify", !.keys = req[p].asked]]
    /\ UNCHANGED <<table, history, edits>>

\* A request of discovery or of the keys fails, or what it got is no set of keys.
Unreachable(p) ==
    /\ \/ req[p].pc \in {"discover", "fetch"} /\ To(p, "fallback")
       \/ req[p].pc = "fetch" /\ To(p, "rejected")
    /\ UNCHANGED <<table, keysOf, history, edits>>

\* fallbackCache
FallbackCache(p) ==
    /\ req[p].pc = "fallback"
    /\ \/ There(p).of \in DOMAIN keysOf
             /\ req' = [req EXCEPT ![p] = [@ EXCEPT !.pc = "verify", !.keys = CachedKeys(p)]]
       \/ To(p, "rejected")
    /\ UNCHANGED <<table, keysOf, history, edits>>

\* resolveKey: the key is not among them, once.
ResolveKey(p) ==
    /\ req[p].pc = "verify" /\ ~req[p].again
    /\ req' = [req EXCEPT ![p] = [@ EXCEPT !.pc = "resolve", !.again = TRUE]]
    /\ UNCHANGED <<table, keysOf, history, edits>>

\* The signature, and the audience of the provider the pointer points to.
AudienceMatch(p) ==
    /\ req[p].pc = "verify"
    /\ req' = [req EXCEPT ![p] = [@ EXCEPT !.pc = "accepted", !.audience = There(p).of]]
    /\ UNCHANGED <<table, keysOf, history, edits>>

Refuse(p) ==
    /\ req[p].pc = "verify"
    /\ To(p, "rejected")
    /\ UNCHANGED <<table, keysOf, history, edits>>

Return(p) ==
    /\ req[p].pc \in {"accepted", "rejected", "unknown"}
    /\ req' = [req EXCEPT ![p] = Idle]
    /\ UNCHANGED <<table, keysOf, history, edits>>

-----------------------------------------------------------------------------
(* The admin API, under State.mu *)

Locked == moving # Still
Edit == ~Locked /\ edits < MaxProviderEdits /\ edits' = edits + 1
Table == IF shared THEN SubSeq(cells, 1, size) ELSE own
Lists(p) == \E i \in DOMAIN Table : Table[i].of = p

\* What validations see of a write to cell i: it overlaps them, and the pointers
\* of some lead to another provider.
Overwrite(i, e) ==
    /\ cells' = [cells EXCEPT ![i] = e]
    /\ req' = [p \in Caller |-> IF req[p] = Idle THEN Idle ELSE [req[p] EXCEPT !.overlapped = TRUE]]
    /\ mixed' = (mixed \/ \E p \in Caller : Pointing(p) /\ req[p].at = i /\ cells[i].of # e.of)

\* addProvider; a name that is there is refused.  append writes in place if it can.
AddProvider(p) ==
    /\ ~Lists(p)
    /\ Edit
    /\ IF shared /\ size < Len(cells)
         THEN /\ Overwrite(size + 1, Entry(p))
              /\ size' = size + 1
              /\ UNCHANGED <<own, shared>>
         ELSE /\ own' = Append(Table, Entry(p)) /\ shared' = FALSE
              /\ UNCHANGED <<cells, size, req, mixed>>
    /\ UNCHANGED <<moving, keysOf, kept>>

\* removeProvider: filtered := cfg.Providers[:0].  It is not found: nothing moves.
RemoveProvider(p) ==
    /\ Edit
    /\ Lists(p)
    /\ kept' = kept \ {p}
    /\ IF shared
         THEN moving' = [of |-> p, read |-> 1, write |-> 1] /\ UNCHANGED own
         ELSE own' = SelectSeq(own, LAMBDA e : e.of # p) /\ UNCHANGED moving
    /\ req' = [q \in Caller |-> IF req[q] = Idle \/ ~shared THEN req[q]
                                                         ELSE [req[q] EXCEPT !.overlapped = TRUE]]
    /\ UNCHANGED <<cells, size, shared, keysOf, mixed>>

\* One round of its loop; a provider is copied whole.
NameOnly(i, e) == [cells[i] EXCEPT !.of = e.of]   \* mutant: the address is not copied
Copy(i, e) == e

Move ==
    /\ Locked /\ moving.read <= size
    /\ IF cells[moving.read].of = moving.of
         THEN moving' = [moving EXCEPT !.read = @ + 1] /\ UNCHANGED <<cells, req, mixed>>
         ELSE /\ Overwrite(moving.write, Copy(moving.write, cells[moving.read]))
              /\ moving' = [moving EXCEPT !.read = @ + 1, !.write = @ + 1]
    /\ UNCHANGED <<size, own, shared, keysOf, kept, edits>>

\* cfg.Providers = filtered: what is behind it stays in the array.
Removed ==
    /\ Locked /\ moving.read > size
    /\ size' = moving.write - 1
    /\ moving' = Still
    /\ UNCHANGED <<cells, own, shared, keysOf, req, history, edits>>

\* importBackup: the validator keeps the array of before.
Restore(ps) ==
    /\ Edit
    /\ own' = Entries(ps) /\ shared' = FALSE
    /\ UNCHANGED <<cells, size, moving, keysOf, req, history>>

-----------------------------------------------------------------------------
Next ==
    \/ \E p \in Caller :
          \/ \E issuer \in Provider : Validate(p, issuer)
          \/ FindProvider(p) \/ Lookup(p) \/ ResolveJWKSURI(p) \/ Discover(p) \/ KeepURI(p)
          \/ Fetch(p) \/ Unreachable(p) \/ FallbackCache(p) \/ ResolveKey(p)
          \/ AudienceMatch(p) \/ Refuse(p) \/ Return(p)
    \/ \E p \in Provider : AddProvider(p) \/ RemoveProvider(p)
    \/ Move \/ Removed
    \/ \E ps \in Backups : Restore(ps)

Spec == Init /\ [][Next]_vars

-----------------------------------------------------------------------------
(* Properties *)

TypeOK ==
    /\ size \in 0 .. Len(cells)
    /\ \A i \in DOMAIN cells : cells[i] \in [of : Provider \cup {NoProvider},
                                             uri : Provider \cup {NoProvider}]
    /\ Locked => moving.write <= moving.read /\ moving.read <= size + 1 /\ shared
    /\ DOMAIN keysOf \subseteq Provider \cup {NoProvider}
    /\ \A p \in Caller : Pointing(p) => req[p].at \in 1 .. Watched
    /\ edits \in 0 .. MaxProviderEdits

\* As long as no provider was moved away under a validation that points to it,
\* a token is verified with the keys, and against the audience, of the issuer
\* it names, although the tables hold addresses and keys under other providers'
\* positions; and a provider that is never removed is found by every
\* validation that no edit overlaps, whatever is added, removed or restored.
VerifiedByItsIssuer ==
    \A p \in Caller :
        /\ req[p].pc = "accepted" /\ ~mixed =>
              req[p].keys = req[p].issuer /\ req[p].audience = req[p].issuer
        /\ req[p].pc = "unknown" /\ ~req[p].overlapped => req[p].issuer \notin kept
=============================================================================
