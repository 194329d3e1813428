------------------------- MODULE AuthorizationProofs ------------------------
(***************************************************************************)
(* Roles and policies for any configurations, requests, policies and edits: *)
(* a request is answered from one configuration of the mapper and by the   *)
(* policies of one moment, and a deny overrides (Authorization).           *)
(***************************************************************************)
EXTENDS Admission, FiniteSetTheorems, WellFoundedInduction, SequenceTheorems, TLAPS

\* A set of natural numbers has a least element.
LEMMA LeastExists ==
    ASSUME NEW T, T \subseteq Nat, T # {} PROVE \E x \in T : \A y \in T : x <= y
  <1>1. PICK x \in T : \A y \in T : ~(<<y, x>> \in OpToRel(<, Nat))
    BY NatLessThanWellFounded, WFMin
  <1>2. \A y \in T : ~(y < x)
    BY <1>1 DEF OpToRel
  <1>3. QED
    BY <1>2

-----------------------------------------------------------------------------
(* Authorization *)

LEMMA SequenceIs ==
    ASSUME NEW s, IsSequence(s)
    PROVE  Len(s) \in Nat /\ DOMAIN s = 1 .. Len(s) /\ s \in Seq({s[i] : i \in DOMAIN s})
  BY DEF IsSequence

LEMMA InSeqIsSequence ==
    ASSUME NEW values, NEW s \in Seq(values) PROVE IsSequence(s)
  <1>1. Len(s) \in Nat /\ s \in [1 .. Len(s) -> values]
    OBVIOUS
  <1>2. s \in [1 .. Len(s) -> {s[i] : i \in DOMAIN s}]
    BY <1>1
  <1>3. QED
    BY <1>1, <1>2 DEF IsSequence

LEMMA FunctionIsSequence ==
    ASSUME NEW n \in Nat, NEW s, s = [i \in 1 .. n |-> s[i]] PROVE IsSequence(s)
  <1>1. s \in [1 .. n -> {s[i] : i \in 1 .. n}]
    OBVIOUS
  <1>2. s \in Seq({s[i] : i \in 1 .. n})
    BY <1>1
  <1>3. QED
    BY <1>2, InSeqIsSequence

LEMMA AppendIsSequence ==
    ASSUME NEW s, NEW x, IsSequence(s) PROVE IsSequence(Append(s, x))
  <1> DEFINE values == {s[i] : i \in DOMAIN s} \cup {x}
  <1>1. s \in Seq(values)
    <2>1. Len(s) \in Nat /\ DOMAIN s = 1 .. Len(s) /\ s \in Seq({s[i] : i \in DOMAIN s})
      BY SequenceIs
    <2>2. s \in [1 .. Len(s) -> values]
      BY <2>1
    <2>3. QED
      BY <2>1, <2>2
  <1>2. x \in values
    OBVIOUS
  <1> HIDE DEF values
  <1>3. Append(s, x) \in Seq(values)
    BY <1>1, <1>2
  <1>4. QED
    BY <1>3, InSeqIsSequence

LEMMA CutIsSequence ==
    ASSUME NEW s, IsSequence(s), NEW k \in DOMAIN s
    PROVE  IsSequence(SubSeq(s, 1, k - 1) \o SubSeq(s, k + 1, Len(s)))
  <1> DEFINE values == {s[i] : i \in DOMAIN s}
  <1>1. s \in Seq(values) /\ k \in 1 .. Len(s) /\ Len(s) \in Nat
    BY SequenceIs
  <1> HIDE DEF values
  <1>2. SubSeq(s, 1, k - 1) \in Seq(values)
    <2>1. \A i \in 1 .. k - 1 : i \in 1 .. Len(s)
      BY <1>1
    <2>2. QED
      BY <1>1, <2>1, SubSeqProperties
  <1>3. SubSeq(s, k + 1, Len(s)) \in Seq(values)
    <2>1. \A i \in k + 1 .. Len(s) : i \in 1 .. Len(s)
      BY <1>1
    <2>2. QED
      BY <1>1, <2>1, SubSeqProperties
  <1>4. QED
    BY <1>2, <1>3, ConcatProperties, InSeqIsSequence

LEMMA TailIsSequence ==
    ASSUME NEW s, IsSequence(s), s # <<>> PROVE IsSequence(Tail(s))
  <1> DEFINE values == {s[i] : i \in DOMAIN s}
  <1>1. s \in Seq(values)
    BY SequenceIs
  <1> HIDE DEF values
  <1>2. Tail(s) \in Seq(values)
    BY <1>1
  <1>3. QED
    BY <1>2, InSeqIsSequence

LEMMA ParsedIsSequence ==
    ASSUME NEW t, NEW texts, IsSequence(texts) PROVE IsSequence(A!Parsed(t, texts))
  <1> DEFINE good == {i \in DOMAIN texts : A!Parses(texts[i])}
             n == Cardinality(good)
  <1>1. Len(texts) \in Nat /\ DOMAIN texts = 1 .. Len(texts)
    BY SequenceIs
  <1>2. IsFiniteSet(1 .. Len(texts))
    BY <1>1, FS_Interval
  <1>3. IsFiniteSet(good)
    BY <1>1, <1>2, FS_Subset
  <1>4. n \in Nat
    BY <1>3, FS_CardinalityType
  <1>5. A!Cardinality(good) = n
    BY DEF A!Cardinality, Cardinality
  <1>6. PICK ps : ps = A!Parsed(t, texts)
    OBVIOUS
  <1> HIDE DEF n
  <1>7. ps = [k \in 1 .. n |-> ps[k]]
    BY <1>5, <1>6 DEF A!Parsed
  <1>8. QED
    BY <1>4, <1>6, <1>7, FunctionIsSequence

Issuers == UNION {DOMAIN c.tenants : c \in Config}
Mappings == {c.mapping : c \in Config}
TenantsRight(ts) == DOMAIN ts \subseteq Issuers /\ \A t \in DOMAIN ts : IsSequence(ts[t].policies)

LEMMA ConfigsAreRight ==
    ASSUME NEW c \in Config
    PROVE  DOMAIN c = {"mapping", "tenants"} /\ c.mapping \in Mappings /\ TenantsRight(c.tenants)
  BY AuthorizationAssumption DEF Mappings, TenantsRight, Issuers

LEMMA MappersOf ==
    ASSUME NEW c
    PROVE  /\ DOMAIN A!NewMapper(c) = A!Word
           /\ A!NewMapper(c) = [f \in A!Word |-> A!NewMapper(c)[f]]
           /\ DOMAIN A!NewMapper(c).tenants \subseteq DOMAIN c.tenants
  BY DEF A!NewMapper, A!Word

-----------------------------------------------------------------------------

SettingsInv ==
    /\ file \in Config /\ loaded \in Config
    /\ DOMAIN cfg = {"mapping", "tenants"}
    /\ cfg.mapping \in Mappings /\ TenantsRight(cfg.tenants)
    /\ backup # A!NoBackup =>
          /\ backup.mapping \in Mappings /\ TenantsRight(backup.tenants)
          /\ IsSequence(backup.policies)
    /\ IsSequence(policies)
    /\ \A t \in DOMAIN engines : IsSequence(engines[t]) /\ engines[t] # <<>>
    /\ edits \in 0 .. MaxEdits

\* What a writer of the mapper has still to do.
WorkInv(w, x) ==
    /\ DOMAIN x = {"add", "left", "to", "cedar"}
    /\ IsSequence(x.add) /\ (x.add # <<>> => w = "admin")
    /\ x.left \subseteq A!Word
    /\ x # A!Quiet =>
          x.left # {} /\ DOMAIN x.to = A!Word /\ DOMAIN x.to.tenants \subseteq Issuers

\* An owner of the mapper is the only one to write it, and what it has written
\* is of the configuration it installs.
MapperInv ==
    /\ mapper = [f \in A!Word |-> mapper[f]] /\ DOMAIN mapper.tenants \subseteq Issuers
    /\ writing = [w \in A!Writer |-> writing[w]]
    /\ \A w \in A!Writer : WorkInv(w, writing[w])
    /\ owner \in A!Writer \cup {"mixed"}
    /\ owner \in A!Writer =>
          /\ \A o \in A!Writer : o # owner => writing[o] = A!Quiet
          /\ writing[owner] = A!Quiet => mapper = A!NewMapper(A!Owned)
          /\ writing[owner] # A!Quiet =>
                /\ writing[owner].to = A!NewMapper(A!Owned)
                /\ \A f \in A!Word \ writing[owner].left : mapper[f] = writing[owner].to[f]

RequestFields ==
    {"pc", "request", "roles", "torn", "own", "engine", "i", "permit", "allowed"}

\* The policies before the i-th: none that applies forbids, and permit says
\* whether one applies.
LoopInv(r, ps) ==
    /\ r.i \in 1 .. Len(ps) + 1
    /\ r.permit = TRUE <=> \E j \in 1 .. r.i - 1 : A!Applies(ps[j], r.request)
    /\ \A j \in 1 .. r.i - 1 : A!Applies(ps[j], r.request) => ps[j].effect # "forbid"

\* The decision is the one of all of them.
Decided(r) ==
    r.allowed = TRUE <=>
        /\ \E j \in DOMAIN r.engine : A!Applies(r.engine[j], r.request)
        /\ \A j \in DOMAIN r.engine :
              A!Applies(r.engine[j], r.request) => r.engine[j].effect # "forbid"

RequestInv(r) ==
    /\ DOMAIN r = RequestFields
    /\ r.pc \in {"map", "global", "mapped", "lookup", "eval", "done"}
    /\ r.allowed \in BOOLEAN /\ IsSequence(r.engine)
    /\ A!Busy => r.torn = TRUE
    /\ r.pc # "done" => r.allowed = FALSE
    /\ r.pc \in {"map", "global", "mapped", "lookup"} => r.i = 1 /\ r.permit = FALSE
    /\ r.pc = "eval" => LoopInv(r, IF r.own = TRUE THEN r.engine ELSE policies)
    /\ r.pc = "done" => r.i \in 1 .. Len(r.engine) + 1 /\ (r.roles # {} => Decided(r))
    /\ owner # "mixed" /\ r.torn = FALSE =>
          /\ r.pc = "global" => r.request.issuer \notin DOMAIN mapper.tenants
          /\ r.pc \notin {"map", "global"} =>
                r.roles = A!MapForIssuer(A!NewMapper(A!Owned), r.request)

FlagsInv(r) == r.torn \in BOOLEAN /\ r.own \in BOOLEAN /\ r.permit \in BOOLEAN

RequestsInv ==
    /\ authorizing = [p \in Caller |-> authorizing[p]]
    /\ \A p \in Caller : authorizing[p] # A!Idle =>
          RequestInv(authorizing[p]) /\ FlagsInv(authorizing[p])

AuthorizationInv == SettingsInv /\ MapperInv /\ RequestsInv

LEMMA BusyIs == A!Busy <=> \E w \in A!Writer : writing[w] # A!Quiet
  BY DEF A!Busy

LEMMA AuthorizationInit == A!Init => AuthorizationInv
  <1> SUFFICES ASSUME A!Init PROVE AuthorizationInv
    OBVIOUS
  <1>1. /\ file \in Config /\ cfg = file /\ loaded = file /\ backup = A!NoBackup
        /\ policies = Default /\ edits = 0 /\ mapper = A!NewMapper(file) /\ owner = "admin"
        /\ writing = [w \in A!Writer |-> A!Quiet]
        /\ authorizing = [p \in Caller |-> A!Idle]
    BY DEF A!Init
  <1>2. ASSUME NEW t \in DOMAIN engines PROVE IsSequence(engines[t]) /\ engines[t] # <<>>
    <2>1. /\ t \in DOMAIN file.tenants /\ engines[t] # <<>>
          /\ engines[t] = A!Parsed(t, file.tenants[t].policies)
      BY DEF A!Init
    <2>2. IsSequence(file.tenants[t].policies)
      BY <1>1, <2>1, ConfigsAreRight DEF TenantsRight
    <2>3. QED
      BY <2>1, <2>2, ParsedIsSequence
  <1>3. SettingsInv
    BY <1>1, <1>2, ConfigsAreRight, AuthorizationAssumption DEF SettingsInv
  <1>4. <<>> \in Seq({})
    OBVIOUS
  <1>5. IsSequence(<<>>)
    BY <1>4, InSeqIsSequence
  <1>6. A!Quiet.add = <<>> /\ A!Quiet.left = {} /\ DOMAIN A!Quiet = {"add", "left", "to", "cedar"}
    BY DEF A!Quiet
  <1>7. MapperInv
    <2>1. DOMAIN file.tenants \subseteq Issuers
      BY <1>1, ConfigsAreRight DEF TenantsRight
    <2>2. mapper = [f \in A!Word |-> mapper[f]] /\ DOMAIN mapper.tenants \subseteq Issuers
      BY <1>1, <2>1, MappersOf
    <2>3. \A w \in A!Writer : writing[w] = A!Quiet
      BY <1>1
    <2>4. \A w \in A!Writer : WorkInv(w, writing[w])
      BY <1>5, <1>6, <2>3 DEF WorkInv
    <2>5. mapper = A!NewMapper(A!Owned) /\ owner \in A!Writer
      BY <1>1 DEF A!Owned, A!Writer
    <2>6. QED
      BY <1>1, <2>2, <2>3, <2>4, <2>5 DEF MapperInv
  <1>8. RequestsInv
    BY <1>1 DEF RequestsInv
  <1>9. QED
    BY <1>3, <1>7, <1>8 DEF AuthorizationInv

-----------------------------------------------------------------------------
(* What the guide says is what the loop finds. *)

LEMMA PlainIsGuide ==
    ASSUME NEW q, NEW request, A!Plain(q)
    PROVE  A!Applies(q, request) <=> A!Matches(q, request)
  <1>1. ASSUME NEW conds, A!NothingBehindIn(conds)
        PROVE  A!EvalConditions(conds, request) <=> A!Every(conds, request)
    BY <1>1 DEF A!NothingBehindIn, A!EvalConditions, A!Every
  <1>2. QED
    BY <1>1 DEF A!Plain, A!Applies, A!Matches

LEMMA AuthorizationSafe ==
    AuthorizationInv => A!TypeOK /\ A!DenyOverrides /\ A!RolesOfOneConfiguration
  <1> SUFFICES ASSUME AuthorizationInv
               PROVE  A!TypeOK /\ A!DenyOverrides /\ A!RolesOfOneConfiguration
    OBVIOUS
  <1>1. A!TypeOK
    <2>1. ASSUME NEW p \in Caller, authorizing[p] # A!Idle
          PROVE  /\ authorizing[p].pc \in {"map", "global", "mapped", "lookup", "eval", "done"}
                 /\ authorizing[p].i \in 1 .. Len(authorizing[p].engine) + 1
                       \/ authorizing[p].pc = "eval"
      <3>1. PICK r : r = authorizing[p]
        OBVIOUS
      <3>2. RequestInv(r)
        BY <2>1, <3>1 DEF AuthorizationInv, RequestsInv
      <3>3. Len(r.engine) \in Nat
        BY <3>2, SequenceIs DEF RequestInv
      <3>4. QED
        BY <3>1, <3>2, <3>3 DEF RequestInv
    <2>2. QED
      BY <2>1 DEF AuthorizationInv, SettingsInv, MapperInv, WorkInv, A!TypeOK, Issuers, Mappings
  <1>2. A!DenyOverrides
    <2> SUFFICES ASSUME NEW p \in Caller, authorizing[p].pc = "done", authorizing[p].roles # {},
                        \A i \in DOMAIN authorizing[p].engine : A!Plain(authorizing[p].engine[i])
                 PROVE  authorizing[p].allowed =
                           A!Permitted(authorizing[p].engine, authorizing[p].request)
      BY DEF A!DenyOverrides
    <2>1. PICK r : r = authorizing[p]
      OBVIOUS
    <2>2. RequestInv(r)
      BY <2>1 DEF AuthorizationInv, RequestsInv, A!Idle
    <2>3. Decided(r) /\ r.allowed \in BOOLEAN
      BY <2>1, <2>2 DEF RequestInv
    <2>4. \A i \in DOMAIN r.engine :
             /\ A!Applies(r.engine[i], r.request) <=> A!Matches(r.engine[i], r.request)
             /\ r.engine[i].effect \in {"permit", "forbid"}
      BY <2>1, PlainIsGuide DEF A!Plain
    <2>5. r.allowed = TRUE <=> A!Permitted(r.engine, r.request)
      BY <2>3, <2>4 DEF Decided, A!Permitted, A!Some
    <2>6. A!Permitted(r.engine, r.request) \in BOOLEAN
      BY DEF A!Permitted
    <2>7. QED
      BY <2>1, <2>3, <2>5, <2>6
  <1>3. A!RolesOfOneConfiguration
    <2>1. owner # "mixed" /\ ~A!Busy => mapper = A!NewMapper(A!Owned)
      BY DEF AuthorizationInv, MapperInv, A!Busy
    <2>2. ASSUME NEW p \in Caller, owner # "mixed", authorizing[p] # A!Idle,
                 ~authorizing[p].torn, authorizing[p].pc \notin {"map", "global"}
          PROVE  authorizing[p].roles = A!MapForIssuer(A!NewMapper(A!Owned), authorizing[p].request)
      BY <2>2 DEF AuthorizationInv, RequestsInv, RequestInv, FlagsInv
    <2>3. QED
      BY <2>1, <2>2 DEF A!RolesOfOneConfiguration
  <1>4. QED
    BY <1>1, <1>2, <1>3

-----------------------------------------------------------------------------
(* A request *)

Unchanged == UNCHANGED <<A!config, A!rules, backup, edits>>

\* A step of one request.
LEMMA OneAuthorized ==
    ASSUME AuthorizationInv, NEW p \in Caller, NEW r,
           authorizing' = [authorizing EXCEPT ![p] = r],
           r # A!Idle => RequestInv(r) /\ FlagsInv(r), Unchanged
    PROVE  AuthorizationInv'
  <1>1. UNCHANGED <<cfg, file, loaded, mapper, writing, owner, policies, engines, backup, edits>>
    BY DEF Unchanged, A!config, A!rules
  <1>2. SettingsInv'
    BY <1>1 DEF AuthorizationInv, SettingsInv
  <1>3. MapperInv'
    BY <1>1 DEF AuthorizationInv, MapperInv, WorkInv, A!Owned
  <1>4. ASSUME NEW q, RequestInv(q) PROVE RequestInv(q)'
    BY <1>1, <1>4 DEF RequestInv, LoopInv, A!Owned, A!Busy
  <1>5. RequestsInv'
    BY <1>4 DEF AuthorizationInv, RequestsInv, FlagsInv
  <1>6. QED
    BY <1>2, <1>3, <1>5 DEF AuthorizationInv

LEMMA RequestIs ==
    ASSUME AuthorizationInv, NEW p \in Caller, authorizing[p] # A!Idle
    PROVE  RequestInv(authorizing[p]) /\ FlagsInv(authorizing[p])
  BY DEF AuthorizationInv, RequestsInv

LEMMA RequestArrives ==
    ASSUME AuthorizationInv, NEW p \in Caller, NEW q \in Request, A!Arrive(p, q)
    PROVE  AuthorizationInv'
  <1>1. PICK busy \in BOOLEAN : busy <=> A!Busy
    OBVIOUS
  <1> DEFINE r == [pc |-> "map", request |-> q, roles |-> {}, torn |-> busy,
                   own |-> FALSE, engine |-> <<>>, i |-> 1, permit |-> FALSE, allowed |-> FALSE]
  <1>2. authorizing' = [authorizing EXCEPT ![p] = r] /\ Unchanged
    <2>1. busy = A!Busy
      BY <1>1 DEF A!Busy
    <2>2. QED
      BY <2>1 DEF A!Arrive, Unchanged
  <1>3. /\ DOMAIN r = RequestFields /\ r.pc = "map" /\ r.torn = busy /\ r.engine = <<>>
        /\ r.i = 1 /\ r.permit = FALSE /\ r.allowed = FALSE /\ r.own = FALSE
    BY DEF RequestFields
  <1> HIDE DEF r
  <1>4. IsSequence(<<>>)
    <2>1. <<>> \in Seq({})
      OBVIOUS
    <2>2. QED
      BY <2>1, InSeqIsSequence
  <1>5. RequestInv(r) /\ FlagsInv(r)
    BY <1>1, <1>3, <1>4 DEF RequestInv, FlagsInv
  <1>6. QED
    BY <1>2, <1>5, OneAuthorized

LEMMA TenantsAreRead ==
    ASSUME AuthorizationInv, NEW p \in Caller, A!ReadTenants(p)
    PROVE  AuthorizationInv'
  <1>1. PICK o : o = authorizing[p]
    OBVIOUS
  <1> DEFINE t == o.request.issuer
             roles == A!Resolve(mapper.tenants[t], o.request.scopes)
  <1>2. /\ o.pc = "map" /\ Unchanged
        /\ \/ /\ t \in DOMAIN mapper.tenants
              /\ authorizing' = [authorizing EXCEPT ![p] = [o EXCEPT !.pc = "mapped", !.roles = roles]]
           \/ /\ t \notin DOMAIN mapper.tenants
              /\ authorizing' = [authorizing EXCEPT ![p] = [o EXCEPT !.pc = "global"]]
    BY <1>1 DEF A!ReadTenants, Unchanged
  <1>3. RequestInv(o) /\ FlagsInv(o)
    BY <1>1, <1>2, RequestIs DEF A!Idle
  <1>4. owner # "mixed" /\ o.torn = FALSE => mapper = A!NewMapper(A!Owned)
    BY <1>3 DEF RequestInv, AuthorizationInv, MapperInv, A!Busy
  <1>5. CASE /\ t \in DOMAIN mapper.tenants
             /\ authorizing' = [authorizing EXCEPT ![p] = [o EXCEPT !.pc = "mapped", !.roles = roles]]
    <2> DEFINE r == [o EXCEPT !.pc = "mapped", !.roles = roles]
    <2>1. /\ DOMAIN r = RequestFields /\ r.pc = "mapped" /\ r.roles = roles
          /\ r.request = o.request /\ r.torn = o.torn /\ r.own = o.own /\ r.engine = o.engine
          /\ r.i = o.i /\ r.permit = o.permit /\ r.allowed = o.allowed
      BY <1>3 DEF RequestInv, RequestFields
    <2>2. owner # "mixed" /\ o.torn = FALSE =>
             roles = A!MapForIssuer(A!NewMapper(A!Owned), o.request)
      BY <1>4, <1>5 DEF A!MapForIssuer
    <2> HIDE DEF r, roles
    <2>3. RequestInv(r) /\ FlagsInv(r)
      BY <1>2, <1>3, <2>1, <2>2 DEF RequestInv, FlagsInv
    <2>4. QED
      BY <1>2, <1>5, <2>3, OneAuthorized DEF r
  <1>6. CASE /\ t \notin DOMAIN mapper.tenants
             /\ authorizing' = [authorizing EXCEPT ![p] = [o EXCEPT !.pc = "global"]]
    <2> DEFINE r == [o EXCEPT !.pc = "global"]
    <2>1. /\ DOMAIN r = RequestFields /\ r.pc = "global"
          /\ r.request = o.request /\ r.torn = o.torn /\ r.own = o.own /\ r.engine = o.engine
          /\ r.i = o.i /\ r.permit = o.permit /\ r.allowed = o.allowed
      BY <1>3 DEF RequestInv, RequestFields
    <2> HIDE DEF r
    <2>2. RequestInv(r) /\ FlagsInv(r)
      BY <1>2, <1>3, <1>6, <2>1 DEF RequestInv, FlagsInv
    <2>3. QED
      BY <1>2, <1>6, <2>2, OneAuthorized DEF r
  <1>7. QED
    BY <1>2, <1>5, <1>6

LEMMA GlobalIsRead ==
    ASSUME AuthorizationInv, NEW p \in Caller, A!ReadGlobal(p)
    PROVE  AuthorizationInv'
  <1>1. PICK o : o = authorizing[p]
    OBVIOUS
  <1> DEFINE roles == A!Resolve(mapper.global, o.request.scopes)
             r == [o EXCEPT !.pc = "mapped", !.roles = roles]
  <1>2. o.pc = "global" /\ Unchanged /\ authorizing' = [authorizing EXCEPT ![p] = r]
    BY <1>1 DEF A!ReadGlobal, Unchanged
  <1>3. RequestInv(o) /\ FlagsInv(o)
    BY <1>1, <1>2, RequestIs DEF A!Idle
  <1>4. owner # "mixed" /\ o.torn = FALSE => mapper = A!NewMapper(A!Owned)
    BY <1>3 DEF RequestInv, AuthorizationInv, MapperInv, A!Busy
  <1>5. owner # "mixed" /\ o.torn = FALSE =>
           roles = A!MapForIssuer(A!NewMapper(A!Owned), o.request)
    BY <1>2, <1>3, <1>4 DEF A!MapForIssuer, RequestInv
  <1>6. /\ DOMAIN r = RequestFields /\ r.pc = "mapped" /\ r.roles = roles
        /\ r.request = o.request /\ r.torn = o.torn /\ r.own = o.own /\ r.engine = o.engine
        /\ r.i = o.i /\ r.permit = o.permit /\ r.allowed = o.allowed
    BY <1>3 DEF RequestInv, RequestFields
  <1> HIDE DEF r, roles
  <1>7. RequestInv(r) /\ FlagsInv(r)
    BY <1>2, <1>3, <1>5, <1>6 DEF RequestInv, FlagsInv
  <1>8. QED
    BY <1>2, <1>7, OneAuthorized

LEMMA RolesAreTested ==
    ASSUME AuthorizationInv, NEW p \in Caller, A!Mapped(p)
    PROVE  AuthorizationInv'
  <1>1. PICK o : o = authorizing[p]
    OBVIOUS
  <1> DEFINE pc == IF o.roles = {} THEN "done" ELSE "lookup"
             r == [o EXCEPT !.pc = pc]
  <1>2. o.pc = "mapped" /\ Unchanged /\ authorizing' = [authorizing EXCEPT ![p] = r]
    BY <1>1 DEF A!Mapped, Unchanged
  <1>3. RequestInv(o) /\ FlagsInv(o)
    BY <1>1, <1>2, RequestIs DEF A!Idle
  <1>4. pc = "lookup" \/ (pc = "done" /\ o.roles = {})
    OBVIOUS
  <1> HIDE DEF pc
  <1>5. /\ DOMAIN r = RequestFields /\ r.pc = pc /\ r.roles = o.roles
        /\ r.request = o.request /\ r.torn = o.torn /\ r.own = o.own /\ r.engine = o.engine
        /\ r.i = o.i /\ r.permit = o.permit /\ r.allowed = o.allowed
    BY <1>3 DEF RequestInv, RequestFields
  <1> HIDE DEF r
  <1>6. Len(r.engine) \in Nat
    BY <1>3, <1>5, SequenceIs DEF RequestInv
  <1>7. RequestInv(r) /\ FlagsInv(r)
    BY <1>2, <1>3, <1>4, <1>5, <1>6 DEF RequestInv, FlagsInv
  <1>8. QED
    BY <1>2, <1>7, OneAuthorized

LEMMA EngineIsFound ==
    ASSUME AuthorizationInv, NEW p \in Caller, A!FindEngine(p)
    PROVE  AuthorizationInv'
  <1>1. PICK o : o = authorizing[p]
    OBVIOUS
  <1>2. PICK named : named = (o.request.issuer \in DOMAIN engines)
    OBVIOUS
  <1>3. PICK ps : ps = A!Get(engines, o.request.issuer, policies)
    OBVIOUS
  <1> DEFINE r == [o EXCEPT !.pc = "eval", !.own = named, !.engine = ps]
  <1>4. o.pc = "lookup" /\ Unchanged /\ authorizing' = [authorizing EXCEPT ![p] = r]
    BY <1>1, <1>2, <1>3 DEF A!FindEngine, Unchanged
  <1>5. RequestInv(o) /\ FlagsInv(o)
    BY <1>1, <1>4, RequestIs DEF A!Idle
  <1>6. named \in BOOLEAN /\ IsSequence(ps) /\ (named = FALSE => ps = policies)
    <2>1. named \in BOOLEAN
      BY <1>2
    <2>2. named = FALSE => o.request.issuer \notin DOMAIN engines
      BY <1>2
    <2>3. /\ o.request.issuer \in DOMAIN engines => ps = engines[o.request.issuer]
          /\ o.request.issuer \notin DOMAIN engines => ps = policies
      BY <1>3 DEF A!Get
    <2>4. QED
      BY <2>1, <2>2, <2>3 DEF AuthorizationInv, SettingsInv
  <1>7. /\ DOMAIN r = RequestFields /\ r.pc = "eval" /\ r.roles = o.roles
        /\ r.request = o.request /\ r.torn = o.torn /\ r.own = named /\ r.engine = ps
        /\ r.i = o.i /\ r.permit = o.permit /\ r.allowed = o.allowed
    BY <1>5 DEF RequestInv, RequestFields
  <1> HIDE DEF r
  <1>8. LoopInv(r, ps)
    <2>1. Len(ps) \in Nat
      BY <1>6, SequenceIs
    <2>2. QED
      BY <1>4, <1>5, <1>7, <2>1 DEF LoopInv, RequestInv
  <1>9. RequestInv(r) /\ FlagsInv(r)
    BY <1>4, <1>5, <1>6, <1>7, <1>8 DEF RequestInv, FlagsInv
  <1>10. QED
    BY <1>4, <1>9, OneAuthorized

LEMMA RequestIsDone ==
    ASSUME AuthorizationInv, NEW p \in Caller, A!Done(p)
    PROVE  AuthorizationInv'
  BY OneAuthorized DEF A!Done, Unchanged

\* The policies a request is decided by.
LEMMA EngineIs ==
    ASSUME AuthorizationInv, NEW p \in Caller, authorizing[p].pc = "eval"
    PROVE  /\ RequestInv(authorizing[p]) /\ FlagsInv(authorizing[p])
           /\ IsSequence(A!Engine(p)) /\ LoopInv(authorizing[p], A!Engine(p))
           /\ A!Engine(p) = IF authorizing[p].own = TRUE THEN authorizing[p].engine ELSE policies
  <1>1. PICK r : r = authorizing[p]
    OBVIOUS
  <1>2. RequestInv(r) /\ FlagsInv(r)
    BY <1>1, RequestIs DEF A!Idle
  <1>3. A!Engine(p) = IF r.own = TRUE THEN r.engine ELSE policies
    BY <1>1, <1>2 DEF A!Engine, FlagsInv
  <1>4. QED
    BY <1>1, <1>2, <1>3 DEF RequestInv, AuthorizationInv, SettingsInv

LEMMA PolicyIsRead ==
    ASSUME AuthorizationInv, NEW p \in Caller, A!EvalPolicy(p)
    PROVE  AuthorizationInv'
  <1>1. PICK o : o = authorizing[p]
    OBVIOUS
  <1>2. PICK ps : ps = A!Engine(p)
    OBVIOUS
  <1>3. PICK q : q = ps[o.i]
    OBVIOUS
  <1>4. PICK e : e = [o EXCEPT !.engine = ps]
    OBVIOUS
  <1>5. /\ o.pc = "eval" /\ o.i <= Len(ps) /\ Unchanged
        /\ authorizing' = [authorizing EXCEPT ![p] =
              IF A!Applies(q, e.request) THEN A!Decide(q, e) ELSE [e EXCEPT !.i = e.i + 1]]
    BY <1>1, <1>2, <1>3, <1>4 DEF A!EvalPolicy, Unchanged
  <1>6. /\ RequestInv(o) /\ FlagsInv(o) /\ IsSequence(ps) /\ LoopInv(o, ps)
        /\ ps = IF o.own = TRUE THEN o.engine ELSE policies
    BY <1>1, <1>2, <1>5, EngineIs
  <1>7. /\ DOMAIN e = RequestFields /\ e.pc = "eval" /\ e.roles = o.roles
        /\ e.request = o.request /\ e.torn = o.torn /\ e.own = o.own /\ e.engine = ps
        /\ e.i = o.i /\ e.permit = o.permit /\ e.allowed = o.allowed
    BY <1>4, <1>5, <1>6 DEF RequestInv, RequestFields
  <1>8. Len(ps) \in Nat /\ DOMAIN ps = 1 .. Len(ps) /\ o.i \in 1 .. Len(ps)
    BY <1>5, <1>6, SequenceIs DEF LoopInv
  <1>9. CASE A!Applies(q, e.request) /\ q.effect = "forbid"
    <2> DEFINE r == [e EXCEPT !.pc = "done"]
    <2>1. authorizing' = [authorizing EXCEPT ![p] = r]
      BY <1>5, <1>9 DEF A!Decide
    <2>2. /\ DOMAIN r = RequestFields /\ r.pc = "done" /\ r.roles = o.roles
          /\ r.request = o.request /\ r.torn = o.torn /\ r.own = o.own /\ r.engine = ps
          /\ r.i = o.i /\ r.permit = o.permit /\ r.allowed = o.allowed
      BY <1>7 DEF RequestFields
    <2> HIDE DEF r
    <2>3. Decided(r)
      BY <1>3, <1>5, <1>6, <1>7, <1>8, <1>9, <2>2 DEF Decided, RequestInv
    <2>4. RequestInv(r) /\ FlagsInv(r)
      BY <1>5, <1>6, <1>8, <2>2, <2>3 DEF RequestInv, FlagsInv
    <2>5. QED
      BY <1>5, <2>1, <2>4, OneAuthorized
  <1>10. CASE A!Applies(q, e.request) /\ q.effect # "forbid"
    <2> DEFINE r == [e EXCEPT !.permit = TRUE, !.i = e.i + 1]
    <2>1. authorizing' = [authorizing EXCEPT ![p] = r]
      BY <1>5, <1>10 DEF A!Decide
    <2>2. /\ DOMAIN r = RequestFields /\ r.pc = "eval" /\ r.roles = o.roles
          /\ r.request = o.request /\ r.torn = o.torn /\ r.own = o.own /\ r.engine = ps
          /\ r.i = o.i + 1 /\ r.permit = TRUE /\ r.allowed = o.allowed
      BY <1>7 DEF RequestFields
    <2> HIDE DEF r
    <2>3. LoopInv(r, ps)
      <3>1. r.i - 1 = o.i /\ \A j \in 1 .. o.i : j = o.i \/ j \in 1 .. o.i - 1
        BY <1>8, <2>2
      <3>2. r.i \in 1 .. Len(ps) + 1 /\ o.i \in 1 .. o.i /\ \A j \in 1 .. o.i - 1 : j \in 1 .. o.i
        BY <1>8, <2>2
      <3>3. QED
        BY <1>3, <1>6, <1>7, <1>10, <2>2, <3>1, <3>2 DEF LoopInv
    <2>4. RequestInv(r) /\ FlagsInv(r)
      <3>1. LoopInv(r, IF r.own = TRUE THEN r.engine ELSE policies)
        BY <1>6, <2>2, <2>3
      <3>2. QED
        BY <1>5, <1>6, <2>2, <3>1 DEF RequestInv, FlagsInv
    <2>5. QED
      BY <1>5, <2>1, <2>4, OneAuthorized
  <1>11. CASE ~A!Applies(q, e.request)
    <2> DEFINE r == [e EXCEPT !.i = e.i + 1]
    <2>1. authorizing' = [authorizing EXCEPT ![p] = r]
      BY <1>5, <1>11
    <2>2. /\ DOMAIN r = RequestFields /\ r.pc = "eval" /\ r.roles = o.roles
          /\ r.request = o.request /\ r.torn = o.torn /\ r.own = o.own /\ r.engine = ps
          /\ r.i = o.i + 1 /\ r.permit = o.permit /\ r.allowed = o.allowed
      BY <1>7 DEF RequestFields
    <2> HIDE DEF r
    <2>3. LoopInv(r, ps)
      <3>1. r.i - 1 = o.i /\ \A j \in 1 .. o.i : j = o.i \/ j \in 1 .. o.i - 1
        BY <1>8, <2>2
      <3>2. r.i \in 1 .. Len(ps) + 1 /\ o.i \in 1 .. o.i /\ \A j \in 1 .. o.i - 1 : j \in 1 .. o.i
        BY <1>8, <2>2
      <3>3. QED
        BY <1>3, <1>6, <1>7, <1>11, <2>2, <3>1, <3>2 DEF LoopInv
    <2>4. RequestInv(r) /\ FlagsInv(r)
      <3>1. LoopInv(r, IF r.own = TRUE THEN r.engine ELSE policies)
        BY <1>6, <2>2, <2>3
      <3>2. QED
        BY <1>5, <1>6, <2>2, <3>1 DEF RequestInv, FlagsInv
    <2>5. QED
      BY <1>5, <2>1, <2>4, OneAuthorized
  <1>12. QED
    BY <1>9, <1>10, <1>11

LEMMA LoopEnds ==
    ASSUME AuthorizationInv, NEW p \in Caller, A!EvalEnd(p)
    PROVE  AuthorizationInv'
  <1>1. PICK o : o = authorizing[p]
    OBVIOUS
  <1>2. PICK ps : ps = A!Engine(p)
    OBVIOUS
  <1> DEFINE r == [o EXCEPT !.pc = "done", !.engine = ps, !.allowed = o.permit]
  <1>3. /\ o.pc = "eval" /\ o.i > Len(ps) /\ Unchanged
        /\ authorizing' = [authorizing EXCEPT ![p] = r]
    BY <1>1, <1>2 DEF A!EvalEnd, Unchanged
  <1>4. RequestInv(o) /\ FlagsInv(o) /\ IsSequence(ps) /\ LoopInv(o, ps)
    BY <1>1, <1>2, <1>3, EngineIs
  <1>5. /\ DOMAIN r = RequestFields /\ r.pc = "done" /\ r.roles = o.roles
        /\ r.request = o.request /\ r.torn = o.torn /\ r.own = o.own /\ r.engine = ps
        /\ r.i = o.i /\ r.permit = o.permit /\ r.allowed = o.permit
    BY <1>4 DEF RequestInv, RequestFields
  <1> HIDE DEF r
  <1>6. Len(ps) \in Nat /\ DOMAIN ps = 1 .. Len(ps) /\ o.i = Len(ps) + 1
    BY <1>3, <1>4, SequenceIs DEF LoopInv
  <1>7. 1 .. o.i - 1 = DOMAIN ps
    BY <1>6
  <1>8. Decided(r)
    BY <1>4, <1>5, <1>7 DEF Decided, LoopInv
  <1>9. RequestInv(r) /\ FlagsInv(r)
    BY <1>3, <1>4, <1>5, <1>6, <1>8 DEF RequestInv, FlagsInv
  <1>10. QED
    BY <1>3, <1>9, OneAuthorized

-----------------------------------------------------------------------------
(* Changes of the configuration *)

\* The global engine changes while no request holds its lock.
LEMMA PoliciesChange ==
    ASSUME AuthorizationInv, A!Unlocked, IsSequence(policies'), edits' \in 0 .. MaxEdits,
           UNCHANGED <<cfg, file, loaded, mapper, owner, writing, engines, backup, authorizing>>
    PROVE  AuthorizationInv'
  <1>1. SettingsInv'
    BY DEF AuthorizationInv, SettingsInv
  <1>2. MapperInv'
    BY DEF AuthorizationInv, MapperInv, WorkInv, A!Owned
  <1>3. ASSUME NEW p \in Caller, authorizing[p] # A!Idle
        PROVE  RequestInv(authorizing[p])' /\ FlagsInv(authorizing[p])'
    <2>1. PICK r : r = authorizing[p]
      OBVIOUS
    <2>2. RequestInv(r) /\ FlagsInv(r)
      BY <1>3, <2>1, RequestIs
    <2>3. r.pc = "eval" => r.own = TRUE
      BY <2>1, <2>2 DEF A!Unlocked, FlagsInv
    <2>4. RequestInv(r)'
      BY <2>2, <2>3 DEF RequestInv, A!Owned, A!Busy, LoopInv
    <2>5. authorizing'[p] = r
      BY <2>1
    <2>6. QED
      BY <2>2, <2>4, <2>5 DEF FlagsInv
  <1>4. RequestsInv'
    BY <1>3 DEF AuthorizationInv, RequestsInv
  <1>5. QED
    BY <1>1, <1>2, <1>4 DEF AuthorizationInv

LEMMA EditIsCounted ==
    ASSUME AuthorizationInv, A!Edit PROVE edits' \in 0 .. MaxEdits
  BY AuthorizationAssumption DEF A!Edit, AuthorizationInv, SettingsInv

LEMMA RemovalIsSequence ==
    ASSUME AuthorizationInv, NEW id, A!RemovePolicy(id)
    PROVE  IsSequence(policies') /\ A!Unlocked
  <1>1. IsSequence(policies)
    BY DEF AuthorizationInv, SettingsInv
  <1>2. CASE A!Named(id) = {}
    BY <1>1, <1>2 DEF A!RemovePolicy
  <1>3. CASE A!Named(id) # {}
    <2> DEFINE Least(k) == \A j \in A!Named(id) : k <= j
    <2>1. A!Named(id) \subseteq Nat
      BY <1>1, SequenceIs DEF A!Named
    <2>2. \E k \in A!Named(id) : Least(k)
      BY <1>3, <2>1, LeastExists
    <2>3. PICK k : k = CHOOSE i \in A!Named(id) : Least(i)
      OBVIOUS
    <2>4. k \in A!Named(id)
      BY <2>2, <2>3
    <2>5. policies' = SubSeq(policies, 1, k - 1) \o SubSeq(policies, k + 1, Len(policies))
      BY <1>3, <2>3 DEF A!RemovePolicy
    <2>6. QED
      BY <1>1, <2>4, <2>5, CutIsSequence DEF A!Named, A!RemovePolicy
  <1>4. QED
    BY <1>2, <1>3

LEMMA PolicyEdits ==
    ASSUME AuthorizationInv,
           \/ \E b \in Input : A!AddCedarPolicy(b)
           \/ \E q \in Extra : A!PostPolicy(q)
           \/ \E id \in {q.id : q \in Extra} \cup {policies[i].id : i \in DOMAIN policies} :
                 A!RemoveCedarPolicy(id)
           \/ \E d \in Declared : A!Declare(d[1], d[2]) \/ A!Destroy(d[1])
    PROVE  AuthorizationInv'
  <1>1. /\ UNCHANGED <<cfg, file, loaded, mapper, owner, writing, engines, backup, authorizing>>
        /\ A!Edit
        /\ (\E q : A!AddPolicy(q)) \/ (\E id : A!RemovePolicy(id))
    BY DEF A!AddCedarPolicy, A!PostPolicy, A!RemoveCedarPolicy, A!Declare, A!Destroy, A!config
  <1>2. IsSequence(policies') /\ A!Unlocked
    <2>1. ASSUME NEW q, A!AddPolicy(q) PROVE IsSequence(policies') /\ A!Unlocked
      BY <2>1, AppendIsSequence DEF A!AddPolicy, AuthorizationInv, SettingsInv
    <2>2. QED
      BY <1>1, <2>1, RemovalIsSequence
  <1>3. QED
    BY <1>1, <1>2, EditIsCounted, PoliciesChange

\* The policies of a backup, one by one.
LEMMA PolicyRestored == ASSUME AuthorizationInv, A!RestorePolicy PROVE AuthorizationInv'
  <1>1. PICK x : x = writing["admin"]
    OBVIOUS
  <1> DEFINE y == [x EXCEPT !.add = Tail(x.add)]
  <1>2. /\ x.add # <<>> /\ A!Unlocked /\ policies' = Append(policies, Head(x.add))
        /\ writing' = [writing EXCEPT !["admin"] = y]
        /\ UNCHANGED <<cfg, file, loaded, mapper, owner, engines, backup, authorizing, edits>>
    BY <1>1 DEF A!RestorePolicy, A!AddPolicy
  <1>3. "admin" \in A!Writer
    BY DEF A!Writer
  <1>4. WorkInv("admin", x) /\ x # A!Quiet
    BY <1>1, <1>2, <1>3 DEF AuthorizationInv, MapperInv, A!Quiet
  <1>5. /\ DOMAIN y = {"add", "left", "to", "cedar"} /\ y.add = Tail(x.add) /\ y.left = x.left
        /\ y.to = x.to
    BY <1>4 DEF WorkInv
  <1> HIDE DEF y
  <1>6. WorkInv("admin", y) /\ y # A!Quiet
    BY <1>2, <1>4, <1>5, TailIsSequence DEF WorkInv, A!Quiet
  <1>7. IsSequence(policies')
    BY <1>2, AppendIsSequence DEF AuthorizationInv, SettingsInv
  <1>8. SettingsInv'
    BY <1>2, <1>7 DEF AuthorizationInv, SettingsInv
  <1>9. MapperInv'
    <2>1. \A w \in A!Writer : writing'[w] = IF w = "admin" THEN y ELSE writing[w]
      BY <1>2 DEF AuthorizationInv, MapperInv
    <2>2. writing' = [w \in A!Writer |-> writing'[w]]
      BY <1>2 DEF AuthorizationInv, MapperInv
    <2>3. \A w \in A!Writer : WorkInv(w, writing[w])'
      BY <1>6, <2>1 DEF AuthorizationInv, MapperInv, WorkInv
    <2>4. A!Owned' = A!Owned
      BY <1>2 DEF A!Owned
    <2>5. \A w \in A!Writer : writing'[w] = A!Quiet <=> writing[w] = A!Quiet
      BY <1>1, <1>4, <1>6, <2>1
    <2>6. \A w \in A!Writer : writing'[w].left = writing[w].left /\ writing'[w].to = writing[w].to
      BY <1>1, <1>5, <2>1
    <2>7. ASSUME owner \in A!Writer
          PROVE  /\ \A o \in A!Writer : o # owner => writing'[o] = A!Quiet
                 /\ writing'[owner] = A!Quiet => mapper = A!NewMapper(A!Owned)
                 /\ writing'[owner] # A!Quiet =>
                       /\ writing'[owner].to = A!NewMapper(A!Owned)
                       /\ \A f \in A!Word \ writing'[owner].left :
                             mapper[f] = writing'[owner].to[f]
      BY <2>5, <2>6, <2>7 DEF AuthorizationInv, MapperInv
    <2>8. QED
      BY <1>2, <2>2, <2>3, <2>4, <2>7 DEF AuthorizationInv, MapperInv
  <1>10. A!Busy
    BY <1>1, <1>3, <1>4 DEF A!Busy
  <1>11. ASSUME NEW p \in Caller, authorizing[p] # A!Idle
        PROVE  RequestInv(authorizing[p])' /\ FlagsInv(authorizing[p])'
    <2>1. PICK r : r = authorizing[p]
      OBVIOUS
    <2>2. RequestInv(r) /\ FlagsInv(r)
      BY <1>11, <2>1, RequestIs
    <2>3. (r.pc = "eval" => r.own = TRUE) /\ r.torn = TRUE
      BY <1>2, <1>10, <2>1, <2>2 DEF A!Unlocked, FlagsInv, RequestInv
    <2>4. RequestInv(r)'
      BY <2>2, <2>3 DEF RequestInv, LoopInv
    <2>5. authorizing'[p] = r
      BY <1>2, <2>1
    <2>6. QED
      BY <2>2, <2>4, <2>5 DEF FlagsInv
  <1>12. RequestsInv'
    BY <1>2, <1>11 DEF AuthorizationInv, RequestsInv
  <1>13. QED
    BY <1>8, <1>9, <1>12 DEF AuthorizationInv

LEMMA BackupExported == ASSUME AuthorizationInv, A!ExportBackup PROVE AuthorizationInv'
  <1>1. /\ backup' = [mapping |-> cfg.mapping, tenants |-> cfg.tenants, policies |-> policies]
        /\ UNCHANGED <<cfg, file, loaded, mapper, owner, writing, engines, policies, authorizing,
                       edits>>
    BY DEF A!ExportBackup, A!config, A!rules
  <1>2. SettingsInv'
    BY <1>1 DEF AuthorizationInv, SettingsInv
  <1>3. MapperInv'
    BY <1>1 DEF AuthorizationInv, MapperInv, WorkInv, A!Owned
  <1>4. \A r : RequestInv(r) => RequestInv(r)'
    BY <1>1 DEF RequestInv, LoopInv, A!Owned, A!Busy
  <1>5. RequestsInv'
    BY <1>1, <1>4 DEF AuthorizationInv, RequestsInv, FlagsInv
  <1>6. QED
    BY <1>2, <1>3, <1>5 DEF AuthorizationInv

LEMMA FileEdited ==
    ASSUME AuthorizationInv, NEW c \in Config, A!EditFile(c) PROVE AuthorizationInv'
  <1>1. /\ file' = c /\ A!Edit
        /\ UNCHANGED <<cfg, loaded, mapper, owner, writing, engines, policies, backup, authorizing>>
    BY DEF A!EditFile, A!rules
  <1>2. SettingsInv'
    BY <1>1, EditIsCounted DEF AuthorizationInv, SettingsInv
  <1>3. MapperInv'
    BY <1>1 DEF AuthorizationInv, MapperInv, WorkInv, A!Owned
  <1>4. \A r : RequestInv(r) => RequestInv(r)'
    BY <1>1 DEF RequestInv, LoopInv, A!Owned, A!Busy
  <1>5. RequestsInv'
    BY <1>1, <1>4 DEF AuthorizationInv, RequestsInv, FlagsInv
  <1>6. QED
    BY <1>2, <1>3, <1>5 DEF AuthorizationInv

\* A writer starts to install configuration c: until it is done, it alone owns
\* the mapper, or nobody does, and every request is torn.
LEMMA WriterStarts ==
    ASSUME AuthorizationInv, SettingsInv', NEW w \in A!Writer, NEW c, NEW add, NEW cedar,
           writing[w] = A!Quiet, A!Install(w, c, add, cedar), UNCHANGED <<mapper, policies>>,
           w = "admin" => cfg' = c, w = "hup" => loaded' = c,
           DOMAIN c.tenants \subseteq Issuers, IsSequence(add), add # <<>> => w = "admin"
    PROVE  AuthorizationInv'
  <1> DEFINE x == [add |-> add, left |-> A!Word, to |-> A!NewMapper(c), cedar |-> cedar]
  <1>1. /\ writing' = [writing EXCEPT ![w] = x]
        /\ owner' = IF \E o \in A!Writer \ {w} : writing[o] # A!Quiet THEN "mixed" ELSE w
        /\ authorizing' = [p \in Caller |-> IF authorizing[p] = A!Idle THEN A!Idle
                                            ELSE [authorizing[p] EXCEPT !.torn = TRUE]]
    BY DEF A!Install, A!Holder, A!Taint
  <1>2. /\ x.add = add /\ x.left = A!Word /\ x.to = A!NewMapper(c) /\ x # A!Quiet
        /\ DOMAIN x = {"add", "left", "to", "cedar"}
    BY DEF A!Quiet, A!Word
  <1> HIDE DEF x
  <1>3. WorkInv(w, x)
    BY <1>2, MappersOf DEF WorkInv, A!Word
  <1>4. /\ \A o \in A!Writer : writing'[o] = IF o = w THEN x ELSE writing[o]
        /\ writing' = [o \in A!Writer |-> writing'[o]]
    BY <1>1 DEF AuthorizationInv, MapperInv
  <1>5. \A o \in A!Writer : WorkInv(o, writing[o])'
    BY <1>3, <1>4 DEF AuthorizationInv, MapperInv, WorkInv
  <1>6. /\ owner' \in A!Writer \cup {"mixed"} /\ "mixed" \notin A!Writer
        /\ owner' \in A!Writer =>
              owner' = w /\ \A o \in A!Writer \ {w} : writing[o] = A!Quiet
    BY <1>1 DEF A!Writer
  <1>7. owner' = w => A!Owned' = c
    BY DEF A!Owned, A!Writer
  <1>8. MapperInv'
    <2>1. UNCHANGED mapper /\ mapper = [f \in A!Word |-> mapper[f]] /\ DOMAIN mapper.tenants \subseteq Issuers
      BY DEF AuthorizationInv, MapperInv
    <2>2. ASSUME owner' \in A!Writer
          PROVE  /\ \A o \in A!Writer : o # owner' => writing'[o] = A!Quiet
                 /\ writing'[owner'] = x
                 /\ x.to = A!NewMapper(A!Owned')
      BY <1>2, <1>4, <1>6, <1>7, <2>2
    <2>3. QED
      BY <1>2, <1>4, <1>5, <1>6, <2>1, <2>2 DEF MapperInv
  <1>9. ASSUME NEW p \in Caller, authorizing'[p] # A!Idle
        PROVE  RequestInv(authorizing[p])' /\ FlagsInv(authorizing[p])'
    <2>1. PICK o : o = authorizing[p]
      OBVIOUS
    <2>2. PICK r : r = [o EXCEPT !.torn = TRUE]
      OBVIOUS
    <2>3. o # A!Idle /\ authorizing'[p] = r
      BY <1>1, <1>9, <2>1, <2>2
    <2>4. RequestInv(o) /\ FlagsInv(o)
      BY <2>1, <2>3, RequestIs
    <2>5. /\ DOMAIN r = RequestFields /\ r.pc = o.pc /\ r.roles = o.roles
          /\ r.request = o.request /\ r.torn = TRUE /\ r.own = o.own /\ r.engine = o.engine
          /\ r.i = o.i /\ r.permit = o.permit /\ r.allowed = o.allowed
      BY <2>2, <2>4 DEF RequestInv, RequestFields
    <2>6. RequestInv(r)'
      BY <2>4, <2>5 DEF RequestInv, LoopInv, Decided
    <2>7. FlagsInv(r)
      BY <2>4, <2>5 DEF FlagsInv
    <2>8. QED
      BY <2>3, <2>6, <2>7 DEF FlagsInv
  <1>10. RequestsInv'
    BY <1>1, <1>9 DEF RequestsInv
  <1>11. QED
    BY <1>8, <1>10 DEF AuthorizationInv

LEMMA SettingsChange ==
    ASSUME AuthorizationInv, A!Edit, NEW c, cfg' = c,
           DOMAIN c = {"mapping", "tenants"}, c.mapping \in Mappings, TenantsRight(c.tenants),
           UNCHANGED <<file, loaded, backup, policies, engines>>
    PROVE  SettingsInv'
  BY EditIsCounted DEF AuthorizationInv, SettingsInv

LEMMA EmptyIsSequence == IsSequence(<<>>)
  <1>1. <<>> \in Seq({})
    OBVIOUS
  <1>2. QED
    BY <1>1, InSeqIsSequence

\* An edit that only writes the mapper, or also the engines.
LEMMA ConfigEdited ==
    ASSUME AuthorizationInv, A!Free, A!Edit, NEW c, cfg' = c, NEW add, NEW cedar,
           DOMAIN c = {"mapping", "tenants"}, c.mapping \in Mappings, TenantsRight(c.tenants),
           A!Install("admin", c, add, cedar), IsSequence(add),
           UNCHANGED <<file, loaded, mapper, backup, policies, engines>>
    PROVE  AuthorizationInv'
  <1>1. "admin" \in A!Writer /\ writing["admin"] = A!Quiet
    BY DEF A!Writer, A!Free, A!Holder
  <1>2. SettingsInv'
    BY SettingsChange
  <1>3. DOMAIN c.tenants \subseteq Issuers
    BY DEF TenantsRight
  <1>4. QED
    BY <1>1, <1>2, <1>3, WriterStarts

LEMMA MappingEdited ==
    ASSUME AuthorizationInv, NEW d \in Config, A!UpdateScopeMappings(d.mapping)
    PROVE  AuthorizationInv'
  <1>1. PICK c : c = [cfg EXCEPT !.mapping = d.mapping]
    OBVIOUS
  <1>2. cfg' = c /\ A!Free /\ A!Edit /\ A!Install("admin", cfg', <<>>, FALSE)
    BY <1>1 DEF A!UpdateScopeMappings, A!Rewrite
  <1>3. A!Install("admin", c, <<>>, FALSE)
    BY <1>2 DEF A!Install
  <1>4. UNCHANGED <<file, loaded, mapper, backup, policies, engines>>
    BY DEF A!UpdateScopeMappings, A!rules
  <1>5. DOMAIN c = {"mapping", "tenants"} /\ c.mapping = d.mapping /\ c.tenants = cfg.tenants
    BY <1>1 DEF AuthorizationInv, SettingsInv
  <1>6. c.mapping \in Mappings /\ TenantsRight(c.tenants)
    BY <1>5, ConfigsAreRight DEF AuthorizationInv, SettingsInv
  <1>7. QED
    BY <1>2, <1>3, <1>4, <1>5, <1>6, EmptyIsSequence, ConfigEdited

LEMMA TenantEdited ==
    ASSUME AuthorizationInv, NEW d \in Config, NEW t \in DOMAIN d.tenants,
           A!UpdateTenant(t, d.tenants[t])
    PROVE  AuthorizationInv'
  <1>1. PICK ts : ts = A!Put(cfg.tenants, t, d.tenants[t])
    OBVIOUS
  <1>2. PICK c : c = [cfg EXCEPT !.tenants = ts]
    OBVIOUS
  <1>3. cfg' = c /\ A!Free /\ A!Edit /\ A!Install("admin", cfg', <<>>, TRUE)
    BY <1>1, <1>2 DEF A!UpdateTenant, A!Reload
  <1>4. A!Install("admin", c, <<>>, TRUE)
    BY <1>3 DEF A!Install
  <1>5. UNCHANGED <<file, loaded, mapper, backup, policies, engines>>
    BY DEF A!UpdateTenant, A!rules
  <1>6. DOMAIN c = {"mapping", "tenants"} /\ c.mapping = cfg.mapping /\ c.tenants = ts
    BY <1>2 DEF AuthorizationInv, SettingsInv
  <1>7. TenantsRight(ts)
    <2>1. TenantsRight(cfg.tenants) /\ TenantsRight(d.tenants)
      BY ConfigsAreRight DEF AuthorizationInv, SettingsInv
    <2>2. DOMAIN ts = DOMAIN cfg.tenants \cup {t}
      BY <1>1 DEF A!Put
    <2>3. \A u \in DOMAIN ts : ts[u] = IF u = t THEN d.tenants[t] ELSE cfg.tenants[u]
      BY <1>1 DEF A!Put
    <2>4. QED
      BY <2>1, <2>2, <2>3 DEF TenantsRight
  <1>8. c.mapping \in Mappings
    BY <1>6 DEF AuthorizationInv, SettingsInv
  <1>9. QED
    BY <1>3, <1>4, <1>5, <1>6, <1>7, <1>8, EmptyIsSequence, ConfigEdited

LEMMA TenantRemoved ==
    ASSUME AuthorizationInv, NEW t \in DOMAIN cfg.tenants, A!RemoveTenant(t)
    PROVE  AuthorizationInv'
  <1>1. PICK ts : ts = A!Drop(cfg.tenants, {t})
    OBVIOUS
  <1>2. PICK c : c = [cfg EXCEPT !.tenants = ts]
    OBVIOUS
  <1>3. cfg' = c /\ A!Free /\ A!Edit /\ A!Install("admin", cfg', <<>>, TRUE)
    BY <1>1, <1>2 DEF A!RemoveTenant, A!Reload
  <1>4. A!Install("admin", c, <<>>, TRUE)
    BY <1>3 DEF A!Install
  <1>5. UNCHANGED <<file, loaded, mapper, backup, policies, engines>>
    BY DEF A!RemoveTenant, A!rules
  <1>6. DOMAIN c = {"mapping", "tenants"} /\ c.mapping = cfg.mapping /\ c.tenants = ts
    BY <1>2 DEF AuthorizationInv, SettingsInv
  <1>7. TenantsRight(ts)
    <2>1. TenantsRight(cfg.tenants)
      BY DEF AuthorizationInv, SettingsInv
    <2>2. ts = [u \in DOMAIN cfg.tenants \ {t} |-> cfg.tenants[u]]
      BY <1>1 DEF A!Drop, A!Restrict
    <2>3. QED
      BY <2>1, <2>2 DEF TenantsRight
  <1>8. c.mapping \in Mappings
    BY <1>6 DEF AuthorizationInv, SettingsInv
  <1>9. QED
    BY <1>3, <1>4, <1>5, <1>6, <1>7, <1>8, EmptyIsSequence, ConfigEdited

LEMMA BackupImported == ASSUME AuthorizationInv, A!ImportBackup PROVE AuthorizationInv'
  <1>1. PICK ts : ts = IF backup.tenants = A!EmptyMap THEN cfg.tenants ELSE backup.tenants
    OBVIOUS
  <1>2. PICK c : c = [mapping |-> backup.mapping, tenants |-> ts]
    OBVIOUS
  <1>3. cfg' = c /\ A!Free /\ A!Edit /\ A!Install("admin", cfg', backup.policies, TRUE)
    BY <1>1, <1>2 DEF A!ImportBackup
  <1>4. A!Install("admin", c, backup.policies, TRUE)
    BY <1>3 DEF A!Install
  <1>5. backup # A!NoBackup /\ UNCHANGED <<file, loaded, mapper, backup, policies, engines>>
    BY DEF A!ImportBackup, A!rules
  <1>6. DOMAIN c = {"mapping", "tenants"} /\ c.mapping = backup.mapping /\ c.tenants = ts
    BY <1>2
  <1>7. TenantsRight(ts) /\ backup.mapping \in Mappings /\ IsSequence(backup.policies)
    BY <1>1, <1>5 DEF AuthorizationInv, SettingsInv
  <1>8. QED
    BY <1>3, <1>4, <1>5, <1>6, <1>7, ConfigEdited

LEMMA HangupInstalls == ASSUME AuthorizationInv, A!Hangup PROVE AuthorizationInv'
  <1>1. PICK c : c = file
    OBVIOUS
  <1>2. /\ "hup" \in A!Writer /\ writing["hup"] = A!Quiet /\ A!Edit /\ loaded' = c
        /\ A!Install("hup", c, <<>>, FALSE)
        /\ UNCHANGED <<cfg, file, mapper, policies, engines, backup>>
    BY <1>1 DEF A!Hangup, A!Holder, A!Writer, A!rules
  <1>3. SettingsInv'
    BY <1>1, <1>2, EditIsCounted DEF AuthorizationInv, SettingsInv
  <1>4. DOMAIN c.tenants \subseteq Issuers
    BY <1>1, ConfigsAreRight DEF AuthorizationInv, SettingsInv, TenantsRight
  <1>5. QED
    BY <1>2, <1>3, <1>4, EmptyIsSequence, WriterStarts

\* A writer writes one word of the mapper.  With the last one the mapper is that
\* of the configuration, if it was the only writer.
LEMMA WordIsWritten ==
    ASSUME AuthorizationInv, NEW w \in A!Writer, NEW f \in A!Word, A!WriteWord(w, f)
    PROVE  AuthorizationInv'
  <1>1. PICK x : x = writing[w]
    OBVIOUS
  <1>2. /\ f \in x.left /\ mapper' = [mapper EXCEPT ![f] = x.to[f]]
        /\ writing' = IF x.left = {f} THEN [writing EXCEPT ![w] = A!Quiet]
                      ELSE [writing EXCEPT ![w].left = x.left \ {f}]
        /\ UNCHANGED <<cfg, file, loaded, owner, policies, backup, authorizing, edits>>
        /\ engines' = engines \/ engines' = A!Rebuilt(cfg.tenants)
    BY <1>1 DEF A!WriteWord
  <1>3. /\ WorkInv(w, x) /\ x # A!Quiet /\ x.left # {} /\ DOMAIN x.to = A!Word
        /\ DOMAIN x.to.tenants \subseteq Issuers /\ x.left \subseteq A!Word
    BY <1>1, <1>2 DEF AuthorizationInv, MapperInv, WorkInv, A!Quiet
  <1> DEFINE y == IF x.left = {f} THEN A!Quiet ELSE [x EXCEPT !.left = x.left \ {f}]
  <1>4. writing' = [writing EXCEPT ![w] = y]
    BY <1>1, <1>2
  <1>5. /\ x.left = {f} => y = A!Quiet
        /\ x.left # {f} => /\ y.left = x.left \ {f} /\ y.left # {} /\ y.to = x.to /\ y.add = x.add
                           /\ DOMAIN y = {"add", "left", "to", "cedar"} /\ y # A!Quiet
    BY <1>2, <1>3 DEF WorkInv, A!Quiet
  <1> HIDE DEF y
  <1>6. WorkInv(w, y)
    <2>1. CASE x.left = {f}
      BY <1>5, <2>1, EmptyIsSequence DEF WorkInv, A!Quiet
    <2>2. CASE x.left # {f}
      BY <1>3, <1>5, <2>2 DEF WorkInv
    <2>3. QED
      BY <2>1, <2>2
  <1>7. SettingsInv'
    <2>1. ASSUME NEW t \in DOMAIN A!Rebuilt(cfg.tenants)
          PROVE  IsSequence(A!Rebuilt(cfg.tenants)[t]) /\ A!Rebuilt(cfg.tenants)[t] # <<>>
      <3> DEFINE with == {u \in DOMAIN cfg.tenants : A!Parsed(u, cfg.tenants[u].policies) # <<>>}
      <3>1. /\ t \in with \cup DOMAIN engines
            /\ A!Rebuilt(cfg.tenants)[t] = IF t \in with THEN A!Parsed(t, cfg.tenants[t].policies)
                                           ELSE engines[t]
        BY DEF A!Rebuilt
      <3>2. \A u \in DOMAIN cfg.tenants : IsSequence(cfg.tenants[u].policies)
        BY DEF AuthorizationInv, SettingsInv, TenantsRight
      <3>3. CASE t \in with
        BY <3>1, <3>2, <3>3, ParsedIsSequence
      <3>4. CASE t \notin with
        BY <3>1, <3>4 DEF AuthorizationInv, SettingsInv
      <3>5. QED
        BY <3>3, <3>4
    <2>2. \A t \in DOMAIN engines' : IsSequence(engines'[t]) /\ engines'[t] # <<>>
      BY <1>2, <2>1 DEF AuthorizationInv, SettingsInv
    <2>3. QED
      BY <1>2, <2>2 DEF AuthorizationInv, SettingsInv
  <1>8. /\ \A o \in A!Writer : writing'[o] = IF o = w THEN y ELSE writing[o]
        /\ writing' = [o \in A!Writer |-> writing'[o]]
    BY <1>4 DEF AuthorizationInv, MapperInv
  <1>9. /\ mapper' = [g \in A!Word |-> mapper'[g]]
        /\ \A g \in A!Word : mapper'[g] = IF g = f THEN x.to[g] ELSE mapper[g]
    BY <1>2 DEF AuthorizationInv, MapperInv
  <1>10. DOMAIN mapper'.tenants \subseteq Issuers
    BY <1>3, <1>9 DEF AuthorizationInv, MapperInv, A!Word
  <1>11. \A o \in A!Writer : WorkInv(o, writing[o])'
    BY <1>6, <1>8 DEF AuthorizationInv, MapperInv, WorkInv
  <1>12. PICK m : m = A!NewMapper(A!Owned)
    OBVIOUS
  <1>13. A!NewMapper(A!Owned)' = m
    BY <1>2, <1>12 DEF A!Owned
  <1>14. ASSUME owner \in A!Writer
         PROVE  /\ \A o \in A!Writer : o # owner => writing'[o] = A!Quiet
                /\ writing'[owner] = A!Quiet => mapper' = m
                /\ writing'[owner] # A!Quiet =>
                      /\ writing'[owner].to = m
                      /\ \A g \in A!Word \ writing'[owner].left :
                            mapper'[g] = writing'[owner].to[g]
    <2>1. owner = w
      BY <1>1, <1>3, <1>14 DEF AuthorizationInv, MapperInv
    <2>2. /\ \A o \in A!Writer : o # owner => writing[o] = A!Quiet
          /\ x.to = m /\ \A g \in A!Word \ x.left : mapper[g] = x.to[g]
      BY <1>1, <1>3, <1>12, <1>14, <2>1 DEF AuthorizationInv, MapperInv
    <2>3. \A o \in A!Writer : o # owner => writing'[o] = A!Quiet
      BY <1>8, <2>1, <2>2
    <2>4. CASE x.left = {f}
      <3>1. \A g \in A!Word : mapper'[g] = m[g]
        BY <1>9, <2>2, <2>4
      <3>2. m = [g \in A!Word |-> m[g]]
        BY <1>12, MappersOf
      <3>3. mapper' = m
        BY <1>9, <3>1, <3>2
      <3>4. QED
        BY <1>5, <1>8, <2>1, <2>3, <2>4, <3>3
    <2>5. CASE x.left # {f}
      <3>1. \A g \in A!Word \ y.left : mapper'[g] = x.to[g]
        BY <1>5, <1>9, <2>2, <2>5
      <3>2. QED
        BY <1>5, <1>8, <2>1, <2>2, <2>3, <2>5, <3>1
    <2>6. QED
      BY <2>4, <2>5
  <1>15. MapperInv'
    BY <1>2, <1>8, <1>9, <1>10, <1>11, <1>13, <1>14 DEF AuthorizationInv, MapperInv
  <1>16. A!Busy
    BY <1>1, <1>3 DEF A!Busy
  <1>17. \A r : RequestInv(r) => RequestInv(r)'
    BY <1>2, <1>16 DEF RequestInv, LoopInv
  <1>18. RequestsInv'
    BY <1>2, <1>17 DEF AuthorizationInv, RequestsInv, FlagsInv
  <1>19. QED
    BY <1>7, <1>15, <1>18 DEF AuthorizationInv

LEMMA AuthorizationStepKeeps == ASSUME AuthorizationInv, A!Next PROVE AuthorizationInv'
  <1>1. ASSUME NEW p \in Caller, A!Serve(p) PROVE AuthorizationInv'
    BY <1>1, RequestArrives, TenantsAreRead, GlobalIsRead, RolesAreTested, EngineIsFound,
       PolicyIsRead, LoopEnds, RequestIsDone DEF A!Serve
  <1>2. CASE A!Administer
    <2>1. CASE \E c \in Config : A!UpdateScopeMappings(c.mapping)
      BY <2>1, MappingEdited
    <2>2. CASE \E c \in Config : \E t \in DOMAIN c.tenants : A!UpdateTenant(t, c.tenants[t])
      BY <2>2, TenantEdited
    <2>3. CASE \E t \in DOMAIN cfg.tenants : A!RemoveTenant(t)
      BY <2>3, TenantRemoved
    <2>4. CASE A!ExportBackup \/ A!ImportBackup \/ A!RestorePolicy
      BY <2>4, BackupExported, BackupImported, PolicyRestored
    <2>5. CASE \/ \E b \in Input : A!AddCedarPolicy(b)
               \/ \E q \in Extra : A!PostPolicy(q)
               \/ \E id \in {q.id : q \in Extra} \cup {policies[i].id : i \in DOMAIN policies} :
                     A!RemoveCedarPolicy(id)
               \/ \E d \in Declared : A!Declare(d[1], d[2]) \/ A!Destroy(d[1])
      BY <2>5, PolicyEdits
    <2>6. QED
      BY <1>2, <2>1, <2>2, <2>3, <2>4, <2>5 DEF A!Administer
  <1>3. CASE \E c \in Config : A!EditFile(c)
    BY <1>3, FileEdited
  <1>4. CASE A!Hangup
    BY <1>4, HangupInstalls
  <1>5. CASE \E w \in A!Writer, f \in A!Word : A!WriteWord(w, f)
    BY <1>5, WordIsWritten
  <1>6. QED
    BY <1>1, <1>2, <1>3, <1>4, <1>5 DEF A!Next
=============================================================================
