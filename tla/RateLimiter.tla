----------------------------- MODULE RateLimiter ----------------------------
(***************************************************************************)
(* Token buckets per client (internal/ratelimit/limiter.go).  A request    *)
(* takes the limit from its scopes and the bucket from a sync.Map; a       *)
(* SIGHUP writes a new limiter over the one that requests are using.  A    *)
(* bucket counts tokens in 1/Minute, so that a tick adds its capacity.     *)
(***************************************************************************)
EXTENDS AdmissionParameters, SequencesExt, GoMaps

VARIABLES
    limits,       \* Limiter.limits: scope -> requests per minute
    generation,   \* which buckets map the limiter has: one per SIGHUP
    buckets,      \* <<generation, client>> -> Bucket
    reload,       \* words of the new limiter that SIGHUP has still to write
    req,          \* requests in progress
    first,        \* history: <<generation, client>> -> [capacity, at] of its bucket
    admitted,     \* history: <<generation, client>> -> requests let through
    broken,       \* the sync.Map was overwritten in use: the process may end
    now

limiter == <<limits, generation, reload>>
vars == <<limiter, buckets, req, first, admitted, broken, now>>

Idle == [pc |-> "idle"]
Generation == 0 .. MaxReloads
Least(a, b) == IF a <= b THEN a ELSE b

Init ==
    /\ limits \in Limits
    /\ generation = 0 /\ buckets = EmptyMap
    /\ reload = [left |-> {}, limits |-> limits]
    /\ req = [p \in Proc |-> Idle]
    /\ first = EmptyMap /\ admitted = EmptyMap
    /\ broken = FALSE /\ now = 0

-----------------------------------------------------------------------------
\* resolveRPM: the lowest limit of the scopes.  A limit of 0 counts as none, and
\* so does what was found before it.
ResolveRPM(scopes) ==
    LET Of(i) == limits[scopes[i]]
        limited == {i \in DOMAIN scopes : scopes[i] \in DOMAIN limits}
        counted == {i \in limited : \A j \in limited : Of(j) = 0 => j < i}
    IN IF counted = {} THEN DefaultRPM ELSE Min({Of(i) : i \in counted})

\* Allow, Middleware: the limit, ...
Begin(p, c, scopes) ==
    /\ req[p] = Idle
    /\ req' = [req EXCEPT ![p] = [pc |-> "load", client |-> c, rpm |-> ResolveRPM(scopes)]]
    /\ UNCHANGED <<limiter, buckets, first, admitted, broken, now>>

\* ... then getBucket: Load, and when there is none a bucket of its own, full, ...
Load(p) ==
    /\ req[p].pc = "load"
    /\ LET b == <<generation, req[p].client>>
       IN req' = [req EXCEPT ![p] =
             IF b \in DOMAIN buckets THEN [pc |-> "allow", bucket |-> b]
             ELSE [pc |-> "store", client |-> @.client, rpm |-> @.rpm, at |-> now]]
    /\ UNCHANGED <<limiter, buckets, first, admitted, broken, now>>

\* ... which LoadOrStore keeps unless another request was first.
Create(p) == [capacity |-> req[p].rpm, tokens |-> req[p].rpm * Minute, lastFill |-> req[p].at]
Overwrite(p, b) ==                             \* mutant: Store
    buckets' = Put(buckets, b, Create(p))
Keep(p, b) ==
    buckets' = IF b \in DOMAIN buckets THEN buckets ELSE Put(buckets, b, Create(p))

LoadOrStore(p) ==
    /\ req[p].pc = "store"
    /\ LET b == <<generation, req[p].client>>
       IN /\ Keep(p, b)
          /\ first' = IF b \in DOMAIN buckets THEN first
                      ELSE Put(first, b, [capacity |-> req[p].rpm, at |-> req[p].at])
          /\ req' = [req EXCEPT ![p] = [pc |-> "allow", bucket |-> b]]
    /\ UNCHANGED <<limiter, admitted, broken, now>>

\* allow
Filled(b) == Least(b.capacity * Minute, b.tokens + (now - b.lastFill) * b.capacity)

Allow(p) ==
    /\ req[p].pc = "allow"
    /\ LET b == req[p].bucket
           full == Filled(buckets[b])
           ok == full >= Minute
       IN /\ buckets' = [buckets EXCEPT ![b] = [@ EXCEPT !.lastFill = now,
                            !.tokens = IF ok THEN full - Minute ELSE full]]
          /\ admitted' = IF ok THEN Put(admitted, b, Get(admitted, b, 0) + 1) ELSE admitted
    /\ req' = [req EXCEPT ![p] = Idle]
    /\ UNCHANGED <<limiter, first, broken, now>>

-----------------------------------------------------------------------------
(* SIGHUP: *limiter = *ratelimit.New(newCfg.RateLimits, 600) *)

Hangup(ls) ==
    /\ reload.left = {}
    /\ generation < MaxReloads
    /\ reload' = [left |-> {"limits", "buckets"}, limits |-> ls]
    /\ UNCHANGED <<limits, generation, buckets, req, first, admitted, broken, now>>

WriteLimits ==
    /\ "limits" \in reload.left
    /\ limits' = reload.limits
    /\ reload' = [reload EXCEPT !.left = @ \ {"limits"}]
    /\ UNCHANGED <<generation, buckets, req, first, admitted, broken, now>>

\* The map goes with its mutex: a request inside LoadOrStore unlocks one that
\* is not locked, which ends the process.
WriteBuckets ==
    /\ "buckets" \in reload.left
    /\ generation' = generation + 1
    /\ reload' = [reload EXCEPT !.left = @ \ {"buckets"}]
    /\ broken' \in {FALSE, \E p \in Proc : req[p].pc = "store"}
    /\ UNCHANGED <<limits, buckets, req, first, admitted, now>>

Tick ==
    /\ now < MaxLimiterTime
    /\ now' = now + 1
    /\ UNCHANGED <<limiter, buckets, req, first, admitted, broken>>

Next ==
    /\ ~broken
    /\ \/ \E p \in Proc :
             \/ \E c \in Client, scopes \in ScopeLists : Begin(p, c, scopes)
             \/ Load(p) \/ LoadOrStore(p) \/ Allow(p)
       \/ \E ls \in Limits : Hangup(ls)
       \/ WriteLimits \/ WriteBuckets
       \/ Tick

Spec == Init /\ [][Next]_vars

-----------------------------------------------------------------------------
(* Properties *)

TypeOK ==
    /\ limits \in Limits /\ generation \in Generation /\ now \in 0 .. MaxLimiterTime
    /\ DOMAIN buckets = DOMAIN first /\ DOMAIN admitted \subseteq DOMAIN buckets
    /\ \A b \in DOMAIN buckets : buckets[b].tokens \in 0 .. buckets[b].capacity * Minute
    /\ \A p \in Proc : req[p].pc = "allow" => req[p].bucket \in DOMAIN buckets

\* Between two SIGHUPs a client gets no more than the burst and the rate of the
\* limit it was first seen with, however many requests create its bucket at
\* once and whatever the scopes of its later requests say.
WithinRate ==
    \A b \in DOMAIN admitted :
        admitted[b] * Minute <= first[b].capacity * (Minute + now - first[b].at)
=============================================================================
