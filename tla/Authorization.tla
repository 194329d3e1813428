---------------------------- MODULE Authorization ---------------------------
(***************************************************************************)
(* Scope mapping and policy evaluation of a request (cmd/proxy/main.go,    *)
(* internal/scope/mapper.go, internal/cedar) while the admin API and the   *)
(* SIGHUP handler change what they read.  An engine is read under its      *)
(* RWMutex, policy by policy; the mapper and the map of tenant engines are *)
(* read without a lock.  The mapper is two maps, and *mapper = *new writes *)
(* one word after the other, in either order.                              *)
(***************************************************************************)
EXTENDS CedarPolicy, GoMaps

VARIABLES
    cfg,          \* admin.State.cfg: ScopeMapping, Tenants
    file,         \* the configuration file
    loaded,       \* the configuration of the last SIGHUP
    mapper,       \* scope.Mapper: global, tenants
    writing,      \* writer ("admin", "hup") -> what it has still to do
    owner,        \* history: the writer of the mapper, "mixed" if two overlapped
    policies,     \* the global engine
    engines,      \* TenantEngine.tenants: issuer -> policies of its engine
    declared,     \* what Terraform has created and not destroyed: id -> text
    backup,       \* the last GET /admin/backup
    req,          \* the requests in progress
    edits,        \* changes so far
    fatal         \* the Go runtime has ended the process: concurrent map access

config == <<cfg, file, loaded, mapper, writing, owner>>
rules == <<policies, engines, declared>>
vars == <<config, rules, backup, req, edits, fatal>>

Writer == {"admin", "hup"}
Word == {"global", "tenants"}
Quiet == [add |-> <<>>, left |-> {}, to |-> 0, cedar |-> FALSE]
NoBackup == [mapping |-> EmptyMap, tenants |-> EmptyMap, policies |-> <<>>]
Idle == [pc |-> "idle"]

\* NewMultiTenantMapper: an issuer whose mapping is empty gets the global one.
NewMapper(c) ==
    LET own == {t \in DOMAIN c.tenants : DOMAIN c.tenants[t].mapping # {}}
    IN [global |-> c.mapping, tenants |-> [t \in own |-> c.tenants[t].mapping]]

\* resolve
Resolve(mapping, scopes) == UNION {mapping[s] : s \in scopes \cap DOMAIN mapping}

\* MapForIssuer
MapForIssuer(m, r) ==
    Resolve(IF r.issuer \in DOMAIN m.tenants THEN m.tenants[r.issuer] ELSE m.global, r.scopes)

\* The policies of a tenant that parse; ids are the issuer and a number.
Parsed(t, texts) ==
    LET good == {i \in DOMAIN texts : Parses(texts[i])}
        Nth(k) == CHOOSE i \in good : Cardinality({j \in good : j <= i}) = k
    IN [k \in 1 .. Cardinality(good) |-> ParsePolicy(<<t, Nth(k)>>, texts[Nth(k)])]

\* rebuildCedar: an issuer without a valid policy keeps the engine it had, and
\* so does an issuer that is not a tenant any more.
Rebuilt(tenants) ==
    LET with == {t \in DOMAIN tenants : Parsed(t, tenants[t].policies) # <<>>}
    IN [t \in with \cup DOMAIN engines |->
           IF t \in with THEN Parsed(t, tenants[t].policies) ELSE engines[t]]

Init ==
    /\ file \in Config /\ cfg = file /\ loaded = file
    /\ mapper = NewMapper(file)
    /\ writing = [w \in Writer |-> Quiet]
    /\ owner = "admin"
    /\ policies = Default
    /\ engines = [t \in {u \in DOMAIN file.tenants : Parsed(u, file.tenants[u].policies) # <<>>}
                    |-> Parsed(t, file.tenants[t].policies)]
    /\ declared = EmptyMap
    /\ backup = NoBackup
    /\ req = [p \in Caller |-> Idle]
    /\ edits = 0 /\ fatal = FALSE

-----------------------------------------------------------------------------
(* A request *)

Busy == \E w \in Writer : writing[w] # Quiet

Arrive(p, r) ==
    /\ req[p] = Idle
    /\ req' = [req EXCEPT ![p] = [pc |-> "map", request |-> r, roles |-> {}, torn |-> Busy,
                 own |-> FALSE, engine |-> <<>>, i |-> 1, permit |-> FALSE, allowed |-> FALSE]]
    /\ UNCHANGED <<config, rules, backup, edits, fatal>>

\* MapForIssuer: the tenants first, ...
ReadTenants(p) ==
    /\ req[p].pc = "map"
    /\ LET t == req[p].request.issuer
       IN req' = [req EXCEPT ![p] =
             IF t \in DOMAIN mapper.tenants
               THEN [@ EXCEPT !.pc = "mapped",
                              !.roles = Resolve(mapper.tenants[t], req[p].request.scopes)]
               ELSE [@ EXCEPT !.pc = "global"]]
    /\ UNCHANGED <<config, rules, backup, edits, fatal>>

\* ... then the global table.
ReadGlobal(p) ==
    /\ req[p].pc = "global"
    /\ req' = [req EXCEPT ![p] =
          [@ EXCEPT !.pc = "mapped", !.roles = Resolve(mapper.global, req[p].request.scopes)]]
    /\ UNCHANGED <<config, rules, backup, edits, fatal>>

\* No role: 403.
Mapped(p) ==
    /\ req[p].pc = "mapped"
    /\ req' = [req EXCEPT ![p].pc = IF req[p].roles = {} THEN "done" ELSE "lookup"]
    /\ UNCHANGED <<config, rules, backup, edits, fatal>>

\* TenantEngine.Evaluate finds the engine, Engine.Evaluate locks it.  An engine
\* of a tenant is replaced, never changed: the request keeps the one it found.
FindEngine(p) ==
    /\ req[p].pc = "lookup"
    /\ LET t == req[p].request.issuer
       IN req' = [req EXCEPT ![p] = [@ EXCEPT !.pc = "eval", !.own = t \in DOMAIN engines,
                    !.engine = Get(engines, t, policies)]]
    /\ UNCHANGED <<config, rules, backup, edits, fatal>>

Engine(p) == IF req[p].own THEN req[p].engine ELSE policies

\* The loop of Evaluate: a forbid decides at once, a permit is remembered.
Decide(q, r) ==
    IF q.effect = "forbid" THEN [r EXCEPT !.pc = "done"]
                           ELSE [r EXCEPT !.permit = TRUE, !.i = r.i + 1]

\* History: engine is what the request is decided by.
EvalPolicy(p) ==
    /\ req[p].pc = "eval"
    /\ req[p].i <= Len(Engine(p))
    /\ LET q == Engine(p)[req[p].i]
           r == [req[p] EXCEPT !.engine = Engine(p)]
       IN req' = [req EXCEPT ![p] = IF Applies(q, r.request) THEN Decide(q, r)
                                                             ELSE [r EXCEPT !.i = r.i + 1]]
    /\ UNCHANGED <<config, rules, backup, edits, fatal>>

EvalEnd(p) ==
    /\ req[p].pc = "eval"
    /\ req[p].i > Len(Engine(p))
    /\ req' = [req EXCEPT ![p] = [@ EXCEPT !.pc = "done", !.engine = Engine(p),
                                          !.allowed = req[p].permit]]
    /\ UNCHANGED <<config, rules, backup, edits, fatal>>

Done(p) ==
    /\ req[p].pc = "done"
    /\ req' = [req EXCEPT ![p] = Idle]
    /\ UNCHANGED <<config, rules, backup, edits, fatal>>

-----------------------------------------------------------------------------
(* Engine.AddPolicy, Engine.RemovePolicy *)

\* The write lock of the global engine.
NoLock == TRUE                                 \* mutant: readers are not waited for
Unlocked == \A p \in Caller : req[p].pc = "eval" => req[p].own

AddPolicy(q) == Unlocked /\ policies' = Append(policies, q)

\* The first policy of that id; an id may be there more than once.
Named(id) == {i \in DOMAIN policies : policies[i].id = id}
RemovePolicy(id) ==
    LET k == CHOOSE i \in Named(id) : \A j \in Named(id) : i <= j
    IN /\ Unlocked
       /\ policies' = IF Named(id) = {} THEN policies
                      ELSE SubSeq(policies, 1, k - 1) \o SubSeq(policies, k + 1, Len(policies))

-----------------------------------------------------------------------------
(* The admin API.  Its handlers hold State.mu; the routes under /admin/api  *)
(* call the engine directly, which comes to the same for one policy.        *)

Edit == edits < MaxEdits /\ edits' = edits + 1
Holder(w) == writing[w] # Quiet
Free == ~Holder("admin")

Taint == [p \in Caller |-> IF req[p] = Idle THEN Idle ELSE [req[p] EXCEPT !.torn = TRUE]]

\* Begin to write the mapper: policies of a backup first, tenant engines last.
Install(w, c, add, cedar) ==
    /\ writing' = [writing EXCEPT ![w] =
          [add |-> add, left |-> Word, to |-> NewMapper(c), cedar |-> cedar]]
    /\ owner' = IF \E o \in Writer \ {w} : Holder(o) THEN "mixed" ELSE w
    /\ req' = Taint

\* updateScopeMappings, updateTenant, removeTenant
PoliciesOnly(c) == UNCHANGED <<writing, owner, req>>   \* mutant: the mapper stays
Rewrite(c) == Install("admin", c, <<>>, FALSE)
Reload(c) == Install("admin", c, <<>>, TRUE)

UpdateScopeMappings(m) ==
    /\ Free /\ Edit
    /\ cfg' = [cfg EXCEPT !.mapping = m]
    /\ Rewrite(cfg')
    /\ UNCHANGED <<file, loaded, mapper, rules, backup, fatal>>

UpdateTenant(t, tenant) ==
    /\ Free /\ Edit
    /\ cfg' = [cfg EXCEPT !.tenants = Put(@, t, tenant)]
    /\ Reload(cfg')
    /\ UNCHANGED <<file, loaded, mapper, rules, backup, fatal>>

RemoveTenant(t) ==
    /\ Free /\ Edit
    /\ t \in DOMAIN cfg.tenants
    /\ cfg' = [cfg EXCEPT !.tenants = Drop(@, {t})]
    /\ Reload(cfg')
    /\ UNCHANGED <<file, loaded, mapper, rules, backup, fatal>>

\* addCedarPolicy: anything but "forbid" is a permit, no resource is any, and a
\* resource is compared literally.
AdminPolicy(b) ==
    [id |-> b.id, effect |-> IF b.effect = "forbid" THEN "forbid" ELSE "permit",
     principal |-> Any, action |-> Any,
     resource |-> IF b.resource = "" THEN Any ELSE Equals(b.resource),
     when |-> <<>>, unless |-> <<>>]

AddCedarPolicy(b) ==
    /\ Free /\ Edit
    /\ AddPolicy(AdminPolicy(b))
    /\ UNCHANGED <<config, engines, declared, backup, req, fatal>>

\* POST /admin/api/policies
PostPolicy(q) ==
    /\ Edit
    /\ AddPolicy(q)
    /\ UNCHANGED <<config, engines, declared, backup, req, fatal>>

\* removeCedarPolicy, DELETE /admin/api/policies/{id}
RemoveCedarPolicy(id) ==
    /\ Free /\ Edit
    /\ RemovePolicy(id)
    /\ UNCHANGED <<config, engines, declared, backup, req, fatal>>

\* The Terraform provider sends the id and the text of a policy; the handler
\* knows no field "policy".
Declare(id, text) ==
    /\ Free /\ Edit
    /\ AddPolicy(AdminPolicy([id |-> id, effect |-> "", resource |-> ""]))
    /\ declared' = Put(declared, id, text)
    /\ UNCHANGED <<config, engines, backup, req, fatal>>

Destroy(id) ==
    /\ Free /\ Edit
    /\ id \in DOMAIN declared
    /\ RemovePolicy(id)
    /\ declared' = Drop(declared, {id})
    /\ UNCHANGED <<config, engines, backup, req, fatal>>

ExportBackup ==
    /\ Free
    /\ backup' = [mapping |-> cfg.mapping, tenants |-> cfg.tenants, policies |-> policies]
    /\ UNCHANGED <<config, rules, req, edits, fatal>>

\* An empty table of tenants is not part of a backup, and restores nothing.
ImportBackup ==
    /\ Free /\ Edit
    /\ backup # NoBackup
    /\ cfg' = [mapping |-> backup.mapping,
               tenants |-> IF backup.tenants = EmptyMap THEN cfg.tenants ELSE backup.tenants]
    /\ Install("admin", cfg', backup.policies, TRUE)
    /\ UNCHANGED <<file, loaded, mapper, rules, backup, fatal>>

\* The policies of a backup are added to those there are, one by one.
RestorePolicy ==
    /\ writing["admin"].add # <<>>
    /\ AddPolicy(Head(writing["admin"].add))
    /\ writing' = [writing EXCEPT !["admin"].add = Tail(@)]
    /\ UNCHANGED <<cfg, file, loaded, mapper, owner, engines, declared, backup, req, edits, fatal>>

-----------------------------------------------------------------------------
(* SIGHUP *)

EditFile(c) ==
    /\ Edit
    /\ file' = c
    /\ UNCHANGED <<cfg, loaded, mapper, writing, owner, rules, backup, req, fatal>>

\* admin.State and the engines keep what they had.
Hangup ==
    /\ ~Holder("hup")
    /\ Edit
    /\ loaded' = file
    /\ Install("hup", file, <<>>, FALSE)
    /\ UNCHANGED <<cfg, file, mapper, rules, backup, fatal>>

\* One word of the mapper.  With the last one the writer is done; updateTenant,
\* removeTenant and a restore then write the map of engines, unlocked.
WriteWord(w, f) ==
    /\ writing[w].add = <<>>
    /\ f \in writing[w].left
    /\ mapper' = [mapper EXCEPT ![f] = writing[w].to[f]]
    /\ LET last == writing[w].left = {f}
           add == last /\ writing[w].cedar /\
                    \E t \in DOMAIN cfg.tenants : Parsed(t, cfg.tenants[t].policies) # <<>>
       IN /\ writing' = IF last THEN [writing EXCEPT ![w] = Quiet]
                                ELSE [writing EXCEPT ![w].left = @ \ {f}]
          /\ engines' = IF add THEN Rebuilt(cfg.tenants) ELSE engines
          /\ fatal' \in {FALSE, add /\ \E p \in Caller : req[p].pc = "lookup"}
    /\ UNCHANGED <<cfg, file, loaded, owner, policies, declared, backup, req, edits>>

-----------------------------------------------------------------------------
Serve(p) ==
    \/ \E r \in Request : Arrive(p, r)
    \/ ReadTenants(p) \/ ReadGlobal(p) \/ Mapped(p)
    \/ FindEngine(p) \/ EvalPolicy(p) \/ EvalEnd(p) \/ Done(p)

Administer ==
    \/ \E c \in Config : UpdateScopeMappings(c.mapping)
    \/ \E c \in Config : \E t \in DOMAIN c.tenants : UpdateTenant(t, c.tenants[t])
    \/ \E t \in DOMAIN cfg.tenants : RemoveTenant(t)
    \/ \E b \in Input : AddCedarPolicy(b)
    \/ \E q \in Extra : PostPolicy(q)
    \/ \E id \in {q.id : q \in Extra} \cup {policies[i].id : i \in DOMAIN policies} :
          RemoveCedarPolicy(id)
    \/ \E d \in Declared : Declare(d[1], d[2]) \/ Destroy(d[1])
    \/ ExportBackup \/ ImportBackup \/ RestorePolicy

Next ==
    /\ ~fatal
    /\ \/ \E p \in Caller : Serve(p)
       \/ Administer
       \/ \E c \in Config : EditFile(c)
       \/ Hangup
       \/ \E w \in Writer, f \in Word : WriteWord(w, f)

Spec == Init /\ [][Next]_vars

-----------------------------------------------------------------------------
(* Properties *)

TypeOK ==
    /\ cfg.mapping \in {c.mapping : c \in Config} /\ file \in Config /\ loaded \in Config
    /\ DOMAIN mapper.tenants \subseteq UNION {DOMAIN c.tenants : c \in Config}
    /\ \A w \in Writer : writing[w].left \subseteq Word /\ (writing[w].add # <<>> => w = "admin")
    /\ owner \in Writer \cup {"mixed"}
    /\ \A t \in DOMAIN engines : engines[t] # <<>>
    /\ \A p \in Caller : req[p] # Idle =>
          /\ req[p].pc \in {"map", "global", "mapped", "lookup", "eval", "done"}
          /\ req[p].i \in 1 .. Len(req[p].engine) + 1 \/ req[p].pc = "eval"
    /\ edits \in 0 .. MaxEdits

\* docs/cedar-guide.md: "If any forbid matches -> DENY ... If at least one
\* permit matches -> ALLOW ... If no policies match -> DENY".  The loop reads
\* the policies one by one while others add and remove some: its answer is the
\* guide's answer for the policies of one moment, in whatever order they stand.
\* Left out are a condition behind an "in", and an effect that is neither: it is
\* stored as it is sent, and taken for a permit (Plain).
DenyOverrides ==
    \A p \in Caller :
        /\ req[p].pc = "done" /\ req[p].roles # {}
        /\ \A i \in DOMAIN req[p].engine : Plain(req[p].engine[i])
        => req[p].allowed = Permitted(req[p].engine, req[p].request)

\* Whose configuration the mapper holds.
Owned == IF owner = "admin" THEN cfg ELSE loaded

\* Unless a SIGHUP met an edit, the mapper is the one of the configuration that
\* was installed last -- an edit brings back what a SIGHUP before it replaced --
\* and a request that no edit overlaps gets the roles of that configuration,
\* although it reads the two tables of the mapper one after the other.
RolesOfOneConfiguration ==
    owner # "mixed" =>
        /\ ~Busy => mapper = NewMapper(Owned)
        /\ \A p \in Caller :
              req[p] # Idle /\ ~req[p].torn /\ req[p].pc \notin {"map", "global"} =>
                  req[p].roles = MapForIssuer(NewMapper(Owned), req[p].request)

\* terraform-provider/README.md: a resource oauth4os_cedar_policy is a "Cedar
\* access policy", in the example forbid(*, *, .opendistro_security).
DeclaredPolicyInForce ==
    \A id \in DOMAIN declared :
        \E i \in DOMAIN policies : policies[i] = ParsePolicy(id, declared[id])
=============================================================================
