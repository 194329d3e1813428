--------------------------- MODULE AdmissionProofs --------------------------
(***************************************************************************)
(* What a request passes on its way, for every value of the parameters:    *)
(* the rate limiter, the caches of answers and the forwarding, and then the *)
(* theorems about all of it, those on credentials and on policies included *)
(* (CredentialProofs, AuthorizationProofs).                                *)
(***************************************************************************)
EXTENDS CredentialProofs, AuthorizationProofs

-----------------------------------------------------------------------------
(* RateLimiter *)

LEMMA ResolvesToNat ==
    ASSUME limits \in Limits, NEW scopes PROVE L!ResolveRPM(scopes) \in Nat
  <1> DEFINE limited == {i \in DOMAIN scopes : scopes[i] \in DOMAIN limits}
             counted == {i \in limited : \A j \in limited : limits[scopes[j]] = 0 => j < i}
             counts == {limits[scopes[i]] : i \in counted}
  <1>1. counts \subseteq Nat
    BY LimiterAssumption
  <1>2. CASE counted = {}
    BY <1>2, LimiterAssumption DEF L!ResolveRPM
  <1>3. CASE counted # {}
    <2>1. counts # {}
      BY <1>3
    <2>2. PICK x \in counts : \A y \in counts : x <= y
      BY <1>1, <2>1, LeastExists
    <2>3. L!Min(counts) \in counts
      BY <2>2 DEF L!Min
    <2>4. L!ResolveRPM(scopes) = L!Min(counts)
      BY <1>3 DEF L!ResolveRPM
    <2>5. QED
      BY <1>1, <2>3, <2>4
  <1>4. QED
    BY <1>2, <1>3

Visit ==
    {L!Idle} \cup [pc : {"load"}, client : Client, rpm : Nat]
    \cup [pc : {"store"}, client : Client, rpm : Nat, at : Nat]
    \cup [pc : {"allow"}, bucket : L!Generation \X Client]
Bucket == [capacity : Nat, tokens : Nat, lastFill : Nat]
Passed(b) == L!Get(admitted, b, 0)

\* What a bucket holds and what it let through are no more than it was given.
Account(b) ==
    /\ buckets[b] \in Bucket /\ first[b] \in [capacity : Nat, at : Nat]
    /\ first[b].capacity = buckets[b].capacity
    /\ first[b].at <= buckets[b].lastFill /\ buckets[b].lastFill <= now
    /\ buckets[b].tokens <= buckets[b].capacity * Minute
    /\ Passed(b) \in Nat
    /\ Passed(b) * Minute + buckets[b].tokens
          <= first[b].capacity * (Minute + buckets[b].lastFill - first[b].at)

LimiterInv ==
    /\ L!TypeOK
    /\ req \in [Proc -> Visit]
    /\ \A p \in Proc : req[p].pc = "store" => req[p].at <= now
    /\ reload.limits \in Limits /\ reload.left \subseteq {"limits", "buckets"}
    /\ "buckets" \in reload.left => generation < MaxReloads
    /\ \A b \in DOMAIN buckets : Account(b)

LEMMA LimiterInit == L!Init => LimiterInv
  BY LimiterAssumption
  DEF L!Init, LimiterInv, L!TypeOK, Visit, L!Idle, L!EmptyMap, L!Generation

LEMMA AccountIsRate ==
    ASSUME NEW n \in Nat, NEW m \in Nat, NEW t \in Nat, NEW c \in Nat, NEW a \in Nat,
           NEW l \in Nat, NEW d \in Nat, a <= l, l <= d, n * m + t <= c * (m + l - a)
    PROVE  n * m <= c * (m + d - a)
  <1>1. PICK k \in Nat : d = l + k
    <2>1. d - l \in Nat /\ d = l + (d - l)
      OBVIOUS
    <2>2. QED
      BY <2>1
  <1>2. n * m \in Nat
    OBVIOUS
  <1>3. c * k \in Nat
    OBVIOUS
  <1>4. c * (m + d - a) = c * (m + l - a) + c * k
    BY <1>1
  <1>5. QED
    BY <1>2, <1>3, <1>4

LEMMA LimiterSafe == LimiterInv => L!WithinRate
  <1> SUFFICES ASSUME LimiterInv, NEW b \in DOMAIN admitted
               PROVE  admitted[b] * Minute <= first[b].capacity * (Minute + now - first[b].at)
    BY DEF L!WithinRate
  <1>1. Account(b) /\ b \in DOMAIN buckets /\ now \in Nat /\ Minute \in Nat
    BY LimiterAssumption DEF LimiterInv, L!TypeOK
  <1>2. admitted[b] = Passed(b)
    BY DEF Passed, L!Get
  <1>3. QED
    BY <1>1, <1>2, AccountIsRate DEF Account, Bucket

\* A step that leaves the buckets and the clock alone.
LEMMA BucketsRest ==
    ASSUME LimiterInv, UNCHANGED <<buckets, first, admitted, now>>
    PROVE  \A b \in DOMAIN buckets' : Account(b)'
  BY DEF LimiterInv, Account, Passed

LEMMA BeginKeeps ==
    ASSUME LimiterInv, NEW p \in Proc, NEW c \in Client, NEW scopes \in ScopeLists,
           L!Begin(p, c, scopes)
    PROVE  LimiterInv'
  <1> DEFINE r == [pc |-> "load", client |-> c, rpm |-> L!ResolveRPM(scopes)]
  <1>1. /\ req' = [req EXCEPT ![p] = r]
        /\ UNCHANGED <<limits, generation, reload, buckets, first, admitted, now>>
    BY DEF L!Begin, L!limiter
  <1>2. r \in Visit /\ r.pc = "load"
    BY ResolvesToNat DEF LimiterInv, L!TypeOK, Visit
  <1> HIDE DEF r
  <1>3. req' \in [Proc -> Visit] /\ req'[p] = r /\ \A q \in Proc : q # p => req'[q] = req[q]
    BY <1>1, <1>2 DEF LimiterInv
  <1>4. L!TypeOK'
    BY <1>1, <1>2, <1>3 DEF L!TypeOK, LimiterInv
  <1>5. QED
    BY <1>1, <1>2, <1>3, <1>4, BucketsRest DEF LimiterInv

LEMMA LoadKeeps == ASSUME LimiterInv, NEW p \in Proc, L!Load(p) PROVE LimiterInv'
  <1> DEFINE o == req[p]
             b == <<generation, o.client>>
             r == IF b \in DOMAIN buckets THEN [pc |-> "allow", bucket |-> b]
                  ELSE [pc |-> "store", client |-> o.client, rpm |-> o.rpm, at |-> now]
  <1>1. /\ req' = [req EXCEPT ![p] = r] /\ o.pc = "load"
        /\ UNCHANGED <<limits, generation, reload, buckets, first, admitted, now>>
    BY DEF L!Load, L!limiter
  <1>2. o \in Visit /\ now \in Nat /\ generation \in L!Generation
    BY LimiterAssumption DEF LimiterInv, L!TypeOK
  <1> HIDE DEF o
  <1>3. o.client \in Client /\ o.rpm \in Nat
    BY <1>1, <1>2 DEF Visit, L!Idle
  <1>4. /\ r \in Visit /\ r.pc \in {"allow", "store"}
        /\ r.pc = "allow" => r.bucket \in DOMAIN buckets
        /\ r.pc = "store" => r.at = now
    BY <1>2, <1>3 DEF Visit
  <1> HIDE DEF r
  <1>5. req' \in [Proc -> Visit] /\ req'[p] = r /\ \A q \in Proc : q # p => req'[q] = req[q]
    BY <1>1, <1>4 DEF LimiterInv
  <1>6. L!TypeOK'
    BY <1>1, <1>4, <1>5 DEF L!TypeOK, LimiterInv
  <1>7. QED
    BY <1>1, <1>2, <1>4, <1>5, <1>6, BucketsRest DEF LimiterInv

LEMMA LoadOrStoreKeeps == ASSUME LimiterInv, NEW p \in Proc, L!LoadOrStore(p) PROVE LimiterInv'
  <1>0. PICK b : b = <<generation, req[p].client>>
    OBVIOUS
  <1> DEFINE o == req[p]
             r == [pc |-> "allow", bucket |-> b]
             new == [capacity |-> o.rpm, tokens |-> o.rpm * Minute, lastFill |-> o.at]
             seen == [capacity |-> o.rpm, at |-> o.at]
  <1>1. /\ req' = [req EXCEPT ![p] = r] /\ o.pc = "store"
        /\ buckets' = IF b \in DOMAIN buckets THEN buckets ELSE L!Put(buckets, b, new)
        /\ first' = IF b \in DOMAIN buckets THEN first ELSE L!Put(first, b, seen)
        /\ UNCHANGED <<limits, generation, reload, admitted, now>>
    BY <1>0 DEF L!LoadOrStore, L!limiter, L!Keep, L!Create
  <1>2. /\ o \in Visit /\ now \in Nat /\ generation \in L!Generation /\ o.at <= now
        /\ b = <<generation, o.client>> /\ Minute \in Nat
    BY <1>0, <1>1, LimiterAssumption DEF LimiterInv, L!TypeOK
  <1> HIDE DEF o
  <1>3. o.client \in Client /\ o.rpm \in Nat /\ o.at \in Nat
    BY <1>1, <1>2 DEF Visit, L!Idle
  <1>4. r \in Visit /\ r.pc = "allow" /\ r.bucket = b
    BY <1>2, <1>3 DEF Visit
  <1>5. /\ new \in Bucket /\ seen \in [capacity : Nat, at : Nat]
        /\ new.capacity = seen.capacity /\ new.lastFill = seen.at /\ seen.at <= now
        /\ new.tokens = seen.capacity * Minute
    BY <1>2, <1>3 DEF Bucket
  <1> HIDE DEF r, new, seen
  <1>6. req' \in [Proc -> Visit] /\ req'[p] = r /\ \A q \in Proc : q # p => req'[q] = req[q]
    BY <1>1, <1>4 DEF LimiterInv
  <1>7. /\ DOMAIN buckets' = DOMAIN buckets \cup {b} /\ DOMAIN first' = DOMAIN buckets'
        /\ \A x \in DOMAIN buckets : buckets'[x] = buckets[x] /\ first'[x] = first[x]
        /\ b \notin DOMAIN buckets => buckets'[b] = new /\ first'[b] = seen
    BY <1>1 DEF L!Put, LimiterInv, L!TypeOK
  <1>8. \A x \in DOMAIN buckets : Account(x)'
    BY <1>1, <1>7 DEF LimiterInv, Account, Passed
  <1>9. b \notin DOMAIN buckets => Account(b)'
    <2> SUFFICES ASSUME b \notin DOMAIN buckets PROVE Account(b)'
      OBVIOUS
    <2>1. Passed(b)' = 0
      BY <1>1 DEF Passed, L!Get, LimiterInv, L!TypeOK
    <2>2. /\ new.tokens \in Nat /\ new.capacity \in Nat /\ seen.at \in Nat
          /\ 0 * Minute + new.tokens <= seen.capacity * (Minute + new.lastFill - seen.at)
      BY <1>2, <1>5 DEF Bucket
    <2>3. QED
      BY <1>1, <1>2, <1>5, <1>7, <2>1, <2>2 DEF Account
  <1>10. \A x \in DOMAIN buckets' : Account(x)'
    BY <1>7, <1>8, <1>9
  <1>11. L!TypeOK'
    <2>1. \A x \in DOMAIN buckets' : buckets'[x].tokens \in 0 .. buckets'[x].capacity * Minute
      BY <1>10 DEF Account, Bucket
    <2>2. QED
      BY <1>1, <1>4, <1>6, <1>7, <2>1 DEF L!TypeOK, LimiterInv
  <1>12. QED
    BY <1>1, <1>4, <1>6, <1>10, <1>11 DEF LimiterInv

\* What allow puts into a bucket and takes out of it.
LEMMA Filling ==
    ASSUME NEW n \in Nat, NEW m \in Nat, NEW t \in Nat, NEW c \in Nat, NEW a \in Nat,
           NEW l \in Nat, NEW d \in Nat, a <= l, l <= d, n * m + t <= c * (m + l - a)
    PROVE  LET full == L!Least(c * m, t + (d - l) * c)
           IN /\ full \in Nat /\ full <= c * m
              /\ n * m + full <= c * (m + d - a)
              /\ full >= m => full - m \in Nat /\ (n + 1) * m + (full - m) <= c * (m + d - a)
  <1> DEFINE full == L!Least(c * m, t + (d - l) * c)
  <1>1. c * m \in Nat /\ d - l \in Nat /\ n * m \in Nat
    OBVIOUS
  <1>2. (d - l) * c \in Nat
    BY <1>1
  <1>3. full \in Nat /\ full <= c * m /\ full <= t + (d - l) * c
    BY <1>1, <1>2 DEF L!Least
  <1>4. c * (m + d - a) = c * (m + l - a) + (d - l) * c
    OBVIOUS
  <1>5. c * (m + l - a) \in Int
    OBVIOUS
  <1> HIDE DEF full
  <1>6. n * m + full <= c * (m + d - a)
    BY <1>1, <1>2, <1>3, <1>4, <1>5
  <1>7. (n + 1) * m = n * m + m
    OBVIOUS
  <1>8. ASSUME full >= m PROVE full - m \in Nat /\ (n + 1) * m + (full - m) <= c * (m + d - a)
    BY <1>1, <1>3, <1>6, <1>7, <1>8
  <1>9. QED
    BY <1>3, <1>6, <1>8 DEF full

LEMMA AllowKeeps == ASSUME LimiterInv, NEW p \in Proc, L!Allow(p) PROVE LimiterInv'
  <1>0. PICK b : b = req[p].bucket
    OBVIOUS
  <1> DEFINE old == buckets[b]
             full == L!Filled(old)
             ok == full >= Minute
             new == [old EXCEPT !.lastFill = now, !.tokens = IF ok THEN full - Minute ELSE full]
  <1>1. /\ req' = [req EXCEPT ![p] = L!Idle] /\ req[p].pc = "allow" /\ b \in DOMAIN buckets
        /\ buckets' = [buckets EXCEPT ![b] = new]
        /\ admitted' = IF ok THEN L!Put(admitted, b, L!Get(admitted, b, 0) + 1) ELSE admitted
        /\ UNCHANGED <<limits, generation, reload, first, now>>
    BY <1>0 DEF L!Allow, L!limiter, LimiterInv, L!TypeOK
  <1>2. now \in Nat /\ Minute \in Nat /\ Account(b)
    BY <1>1, LimiterAssumption DEF LimiterInv, L!TypeOK
  <1>3. full = L!Least(old.capacity * Minute, old.tokens + (now - old.lastFill) * old.capacity)
    BY DEF L!Filled
  <1>4. /\ full \in Nat /\ full <= old.capacity * Minute
        /\ Passed(b) * Minute + full <= first[b].capacity * (Minute + now - first[b].at)
        /\ ok => /\ full - Minute \in Nat
                 /\ (Passed(b) + 1) * Minute + (full - Minute)
                       <= first[b].capacity * (Minute + now - first[b].at)
    <2>1. /\ Passed(b) \in Nat /\ old.tokens \in Nat /\ old.capacity \in Nat /\ old.lastFill \in Nat
          /\ first[b].at \in Nat /\ first[b].capacity = old.capacity
          /\ first[b].at <= old.lastFill /\ old.lastFill <= now
          /\ Passed(b) * Minute + old.tokens
                <= old.capacity * (Minute + old.lastFill - first[b].at)
      BY <1>2 DEF Account, Bucket
    <2> DEFINE n == Passed(b)
               t == old.tokens
               c == old.capacity
               l == old.lastFill
               a == first[b].at
    <2>2. /\ n \in Nat /\ t \in Nat /\ c \in Nat /\ l \in Nat /\ a \in Nat /\ a <= l /\ l <= now
          /\ n * Minute + t <= c * (Minute + l - a)
      BY <2>1
    <2> HIDE DEF n, t, c, l, a
    <2>3. LET f == L!Least(c * Minute, t + (now - l) * c)
          IN /\ f \in Nat /\ f <= c * Minute
             /\ n * Minute + f <= c * (Minute + now - a)
             /\ f >= Minute => f - Minute \in Nat
                               /\ (n + 1) * Minute + (f - Minute) <= c * (Minute + now - a)
      BY <1>2, <2>2, Filling
    <2>4. QED
      BY <1>3, <2>1, <2>3 DEF n, t, c, l, a
  <1> HIDE DEF full
  <1>5. /\ new \in Bucket /\ new.capacity = old.capacity /\ new.lastFill = now
        /\ new.tokens = IF ok THEN full - Minute ELSE full
    <2>1. old \in Bucket
      BY <1>2 DEF Account
    <2> HIDE DEF old
    <2>2. QED
      BY <1>2, <1>4, <2>1 DEF Bucket
  <1> HIDE DEF new, ok
  <1>6. /\ DOMAIN buckets' = DOMAIN buckets /\ buckets'[b] = new
        /\ \A x \in DOMAIN buckets : x # b => buckets'[x] = buckets[x]
    BY <1>1
  <1>7. /\ DOMAIN admitted' \subseteq DOMAIN admitted \cup {b}
        /\ Passed(b)' = IF ok THEN Passed(b) + 1 ELSE Passed(b)
        /\ \A x \in DOMAIN buckets : x # b => Passed(x)' = Passed(x)
    BY <1>1 DEF Passed, L!Get, L!Put
  <1>8. Account(b)'
    <2>1. /\ buckets'[b] = new /\ first'[b] = first[b] /\ now' = now
          /\ first[b] \in [capacity : Nat, at : Nat] /\ first[b].capacity = old.capacity
          /\ first[b].at <= now /\ Passed(b) \in Nat
      BY <1>1, <1>2, <1>6 DEF Account, Bucket
    <2>2. new.tokens <= new.capacity * Minute /\ Passed(b)' \in Nat
      BY <1>2, <1>4, <1>5, <1>7, <2>1 DEF ok, Bucket
    <2>3. Passed(b)' * Minute + new.tokens <= first[b].capacity * (Minute + now - first[b].at)
      BY <1>4, <1>5, <1>7
    <2>4. QED
      BY <1>2, <1>5, <2>1, <2>2, <2>3 DEF Account
  <1>9. \A x \in DOMAIN buckets : x # b => Account(x)'
    BY <1>1, <1>6, <1>7 DEF LimiterInv, Account
  <1>10. \A x \in DOMAIN buckets' : Account(x)'
    BY <1>6, <1>8, <1>9
  <1>11. req' \in [Proc -> Visit] /\ req'[p] = L!Idle /\ \A q \in Proc : q # p => req'[q] = req[q]
    BY <1>1 DEF LimiterInv, Visit
  <1>12. L!TypeOK'
    <2>1. \A x \in DOMAIN buckets' : buckets'[x].tokens \in 0 .. buckets'[x].capacity * Minute
      BY <1>10 DEF Account, Bucket
    <2>2. QED
      BY <1>1, <1>6, <1>7, <1>11, <2>1 DEF L!TypeOK, LimiterInv, L!Idle
  <1>13. QED
    BY <1>1, <1>10, <1>11, <1>12 DEF LimiterInv, L!Idle

LEMMA ReloadKeeps ==
    ASSUME LimiterInv, (\E ls \in Limits : L!Hangup(ls)) \/ L!WriteLimits \/ L!WriteBuckets
    PROVE  LimiterInv'
  <1>1. UNCHANGED <<buckets, req, first, admitted, now>>
    BY DEF L!Hangup, L!WriteLimits, L!WriteBuckets
  <1>2. /\ limits' \in Limits /\ generation' \in L!Generation
        /\ reload'.limits \in Limits /\ reload'.left \subseteq {"limits", "buckets"}
        /\ "buckets" \in reload'.left => generation' < MaxReloads
    <2>1. CASE \E ls \in Limits : L!Hangup(ls)
      BY <2>1 DEF L!Hangup, LimiterInv, L!TypeOK
    <2>2. CASE L!WriteLimits
      BY <2>2 DEF L!WriteLimits, LimiterInv, L!TypeOK
    <2>3. CASE L!WriteBuckets
      BY <2>3, LimiterAssumption DEF L!WriteBuckets, LimiterInv, L!TypeOK, L!Generation
    <2>4. QED
      BY <2>1, <2>2, <2>3
  <1>3. L!TypeOK'
    BY <1>1, <1>2 DEF L!TypeOK, LimiterInv
  <1>4. QED
    BY <1>1, <1>2, <1>3, BucketsRest DEF LimiterInv

LEMMA LimiterTickKeeps == ASSUME LimiterInv, L!Tick PROVE LimiterInv'
  <1>1. /\ now \in Nat /\ now' = now + 1 /\ now' \in 0 .. MaxLimiterTime
        /\ UNCHANGED <<limits, generation, reload, buckets, req, first, admitted>>
    BY LimiterAssumption DEF L!Tick, L!limiter, LimiterInv, L!TypeOK
  <1>2. L!TypeOK'
    BY <1>1 DEF L!TypeOK, LimiterInv
  <1>3. \A b \in DOMAIN buckets' : Account(b)'
    BY <1>1 DEF LimiterInv, Account, Passed, Bucket
  <1>4. \A p \in Proc : req'[p].pc = "store" => req'[p].at <= now'
    BY <1>1 DEF LimiterInv, Visit, L!Idle
  <1>5. QED
    BY <1>1, <1>2, <1>3, <1>4 DEF LimiterInv

LEMMA LimiterStepKeeps == ASSUME LimiterInv, L!Next PROVE LimiterInv'
  BY BeginKeeps, LoadKeeps, LoadOrStoreKeeps, AllowKeeps, ReloadKeeps, LimiterTickKeeps
  DEF L!Next

-----------------------------------------------------------------------------
(* AnswerCache *)

Asking ==
    {C!Idle} \cup [pc : {"ask"}, item : Item, since : Nat]
    \cup [pc : {"store", "served"}, item : Item, answer : C!Answer, since : Nat]

\* An answer is known to have been right from its first to its last time.
Known(i, a) == <<i, a>> \in DOMAIN lastTrue
TrueSince(i, a, t) == Known(i, a) /\ t <= lastTrue[<<i, a>>]

SourceInv ==
    /\ kind \in {"response", "idempotency", "introspection"}
    /\ source \in [Item -> C!Answer] /\ lastTrue \in [DOMAIN lastTrue -> Nat]
    /\ DOMAIN lastTrue = {x \in Item \X C!Answer : x[2] <= source[x[1]]}
    /\ \A i \in Item : lastTrue[<<i, source[i]>>] = now
    /\ \A x \in DOMAIN lastTrue : lastTrue[x] <= now

EntryInv ==
    /\ IsFiniteSet(DOMAIN entries) /\ DOMAIN entries \subseteq Item
    /\ \A i \in DOMAIN entries : TrueSince(i, entries[i].answer, entries[i].expires - CacheTTL - 1)

\* What a request asked for was right when it asked, and that is a tick ago at
\* most; what it is served was right in the time to live and the tick before.
AskInv(p) ==
    /\ req[p].pc \in {"ask", "store"} => req[p].since <= now /\ now <= req[p].since + 1
    /\ req[p].pc = "store" => TrueSince(req[p].item, req[p].answer, req[p].since)
    /\ req[p].pc = "served" => TrueSince(req[p].item, req[p].answer, now - CacheTTL - 1)

\* The idempotency store has what was stored, until it is too old.
StoredInv ==
    kind = "idempotency" =>
        /\ DOMAIN entries \subseteq DOMAIN stored
        /\ \A i \in DOMAIN stored :
              /\ stored[i] \in 0 .. now
              /\ IF i \in DOMAIN entries THEN entries[i].expires = stored[i] + CacheTTL
                                         ELSE now >= stored[i] + CacheTTL

AnswerInv ==
    /\ C!TypeOK /\ SourceInv /\ EntryInv /\ StoredInv /\ C!RetryIsReplayed
    /\ req \in [Proc -> Asking]
    /\ \A p \in Proc : AskInv(p)

LEMMA AnswerInit == C!Init => AnswerInv
  <1> SUFFICES ASSUME C!Init PROVE AnswerInv
    OBVIOUS
  <1>1. IsFiniteSet({}) /\ Cardinality({}) = 0
    BY FS_EmptySet
  <1>2. DOMAIN entries = {} /\ DOMAIN stored = {} /\ now = 0
    BY DEF C!Init, C!EmptyMap
  <1>3. \A p \in Proc : req[p] = C!Idle /\ req[p].pc = "idle"
    BY DEF C!Init, C!Idle
  <1>4. C!TypeOK
    BY <1>1, <1>2, <1>3, CacheAssumption DEF C!Init, C!TypeOK, C!Cardinality, Cardinality
  <1>5. SourceInv
    BY CacheAssumption DEF C!Init, SourceInv, C!Answer
  <1>6. req \in [Proc -> Asking]
    BY DEF C!Init, Asking
  <1>7. QED
    BY <1>1, <1>2, <1>3, <1>4, <1>5, <1>6
    DEF AnswerInv, EntryInv, StoredInv, AskInv, C!RetryIsReplayed

LEMMA AnswerTypes ==
    ASSUME AnswerInv
    PROVE  /\ now \in Nat /\ CacheTTL \in Nat /\ CacheSize \in Nat \ {0}
           /\ \A i \in DOMAIN entries : /\ entries[i].expires \in Nat /\ entries[i].answer \in C!Answer
                                        /\ entries[i] \in C!Entry
           /\ \A x \in DOMAIN lastTrue : lastTrue[x] \in Nat
           /\ \A i \in Item : source[i] \in C!Answer /\ Known(i, source[i])
  BY CacheAssumption DEF AnswerInv, C!TypeOK, C!Entry, SourceInv, Known, C!Answer

LEMMA AnswerSafe == AnswerInv => C!AnswersWithinTTL
  <1> SUFFICES ASSUME AnswerInv, NEW p \in Proc, req[p].pc = "served"
               PROVE  now - lastTrue[<<req[p].item, req[p].answer>>] <= CacheTTL + 1
    BY DEF C!AnswersWithinTTL
  <1>1. TrueSince(req[p].item, req[p].answer, now - CacheTTL - 1)
    BY DEF AnswerInv, AskInv
  <1>2. QED
    BY <1>1, AnswerTypes DEF TrueSince, Known

\* A step of one request that only reads.
LEMMA AskKeeps ==
    ASSUME AnswerInv, NEW p \in Proc,
           \/ \E i \in Item : C!Lookup(p, i)
           \/ C!Ask(p) \/ C!Abort(p) \/ C!Done(p)
    PROVE  AnswerInv'
  <1>1. UNCHANGED <<kind, source, lastTrue, entries, stored, now>>
    BY DEF C!Lookup, C!Ask, C!Abort, C!Done
  <1>2. PICK r \in Asking :
           /\ req' = [req EXCEPT ![p] = r]
           /\ r.pc \in {"ask", "store"} => r.since <= now /\ now <= r.since + 1
           /\ r.pc = "store" => TrueSince(r.item, r.answer, r.since)
           /\ r.pc = "served" => TrueSince(r.item, r.answer, now - CacheTTL - 1)
           /\ kind = "idempotency" /\ r.pc = "ask" /\ r.item \in DOMAIN stored =>
                 r.since >= stored[r.item] + CacheTTL
    <2>1. ASSUME NEW i \in Item, C!Lookup(p, i), i \in DOMAIN entries, C!Fresh(entries[i])
          PROVE  \E r \in Asking :
                    /\ req' = [req EXCEPT ![p] = r]
                    /\ r.pc = "served" /\ TrueSince(r.item, r.answer, now - CacheTTL - 1)
      <3> DEFINE r == [pc |-> "served", item |-> i, answer |-> entries[i].answer, since |-> now]
      <3>1. req' = [req EXCEPT ![p] = r]
        BY <2>1 DEF C!Lookup
      <3>2. TrueSince(i, entries[i].answer, entries[i].expires - CacheTTL - 1)
        BY <2>1 DEF AnswerInv, EntryInv
      <3>3. now <= entries[i].expires
        BY <2>1, AnswerTypes DEF C!Fresh
      <3>4. TrueSince(i, entries[i].answer, now - CacheTTL - 1)
        BY <2>1, <3>2, <3>3, AnswerTypes DEF TrueSince, Known
      <3>5. r \in Asking
        BY <2>1, AnswerTypes DEF Asking
      <3>6. QED
        BY <3>1, <3>4, <3>5
    <2>2. ASSUME NEW i \in Item, C!Lookup(p, i), ~(i \in DOMAIN entries /\ C!Fresh(entries[i]))
          PROVE  \E r \in Asking :
                    /\ req' = [req EXCEPT ![p] = r]
                    /\ r.pc = "ask" /\ r.since = now
                    /\ kind = "idempotency" /\ r.item \in DOMAIN stored =>
                          now >= stored[r.item] + CacheTTL
      <3> DEFINE r == [pc |-> "ask", item |-> i, since |-> now]
      <3>1. req' = [req EXCEPT ![p] = r]
        BY <2>2 DEF C!Lookup
      <3>2. r \in Asking
        BY AnswerTypes DEF Asking
      <3>3. kind = "idempotency" /\ i \in DOMAIN stored => now >= stored[i] + CacheTTL
        BY <2>2, AnswerTypes DEF AnswerInv, StoredInv, C!Fresh
      <3>4. QED
        BY <3>1, <3>2, <3>3
    <2>3. CASE C!Ask(p)
      <3> DEFINE o == req[p]
                 r == [pc |-> "store", item |-> o.item, answer |-> source[o.item], since |-> o.since]
      <3>1. req' = [req EXCEPT ![p] = r] /\ o \in Asking /\ o.pc = "ask"
        BY <2>3 DEF C!Ask, AnswerInv
      <3>2. o.item \in Item /\ o.since \in Nat
        BY <3>1 DEF Asking, C!Idle
      <3>3. o.since <= now /\ now <= o.since + 1
        BY <3>1 DEF AnswerInv, AskInv
      <3>4. TrueSince(o.item, source[o.item], o.since)
        BY <3>2, <3>3, AnswerTypes DEF TrueSince, AnswerInv, SourceInv
      <3>5. r \in Asking
        BY <3>2, AnswerTypes DEF Asking
      <3>6. QED
        BY <3>1, <3>3, <3>4, <3>5
    <2>4. CASE C!Abort(p) \/ C!Done(p)
      BY <2>4 DEF C!Abort, C!Done, C!Idle, Asking
    <2>5. QED
      BY <2>1, <2>2, <2>3, <2>4, AnswerTypes
  <1>3. req' \in [Proc -> Asking] /\ req'[p] = r /\ \A q \in Proc : q # p => req'[q] = req[q]
    BY <1>2 DEF AnswerInv
  <1>4. r # C!Idle => r.pc \in {"ask", "store", "served"} /\ r.item \in Item
    BY DEF Asking
  <1>5. C!TypeOK'
    BY <1>1, <1>2, <1>3, <1>4 DEF AnswerInv, C!TypeOK, TrueSince, Known, Asking
  <1>6. SourceInv' /\ EntryInv' /\ StoredInv'
    BY <1>1 DEF AnswerInv, SourceInv, EntryInv, StoredInv, TrueSince, Known
  <1>7. \A q \in Proc : AskInv(q)'
    BY <1>1, <1>2, <1>3 DEF AnswerInv, AskInv, TrueSince, Known
  <1>8. C!RetryIsReplayed'
    <2>1. r.pc = "ask" => r.since \in Nat
      BY DEF Asking, C!Idle
    <2>2. kind = "idempotency" => \A i \in DOMAIN stored : stored[i] \in Nat
      BY AnswerTypes DEF AnswerInv, StoredInv
    <2>3. QED
      BY <1>1, <1>2, <1>3, <2>1, <2>2, AnswerTypes DEF AnswerInv, C!RetryIsReplayed
  <1>9. QED
    BY <1>3, <1>5, <1>6, <1>7, <1>8 DEF AnswerInv

\* The entries that are left when room has been made for one more.
LEMMA RoomIsThere ==
    ASSUME AnswerInv, NEW es \in C!Room, NEW i \in Item
    PROVE  /\ DOMAIN es \subseteq DOMAIN entries /\ \A j \in DOMAIN es : es[j] = entries[j]
           /\ kind # "response" => es = entries
           /\ IsFiniteSet(DOMAIN es \cup {i})
           /\ kind = "response" => Cardinality(DOMAIN es \cup {i}) <= CacheSize
  <1>1. IsFiniteSet(DOMAIN entries) /\ C!Cardinality(DOMAIN entries) = Cardinality(DOMAIN entries)
    BY DEF AnswerInv, EntryInv, C!Cardinality, Cardinality
  <1>2. Cardinality(DOMAIN entries) \in Nat
    BY <1>1, FS_CardinalityType
  <1>3. kind = "response" => Cardinality(DOMAIN entries) <= CacheSize
    BY <1>1 DEF AnswerInv, C!TypeOK
  <1>4. CASE kind # "response" \/ Cardinality(DOMAIN entries) < CacheSize
    <2>1. es = entries
      BY <1>1, <1>4 DEF C!Room
    <2> DEFINE D == DOMAIN entries
    <2>2. IsFiniteSet(D \cup {i}) /\ Cardinality(D \cup {i}) <= Cardinality(D) + 1
      <3>1. IsFiniteSet(D) /\ Cardinality(D) \in Nat
        BY <1>1, <1>2
      <3> HIDE DEF D
      <3>2. QED
        BY <3>1, FS_AddElement
    <2>3. Cardinality(DOMAIN entries \cup {i}) \in Nat
      BY <2>2, FS_CardinalityType
    <2>4. QED
      BY <1>2, <1>3, <1>4, <2>1, <2>2, <2>3, AnswerTypes
  <1>5. CASE kind = "response" /\ ~(Cardinality(DOMAIN entries) < CacheSize)
    <2>1. PICK k \in DOMAIN entries : es = C!Drop(entries, {k})
      BY <1>1, <1>5 DEF C!Room
    <2>2. es = [x \in DOMAIN entries \ {k} |-> entries[x]]
      BY <2>1 DEF C!Drop, C!Restrict
    <2> DEFINE D == DOMAIN entries \ {k}
    <2>3. IsFiniteSet(D) /\ Cardinality(D) = Cardinality(DOMAIN entries) - 1
      BY <1>1, FS_RemoveElement
    <2>4. IsFiniteSet(D \cup {i}) /\ Cardinality(D \cup {i}) <= Cardinality(D) + 1
      BY <1>2, <2>3, FS_AddElement
    <2>5. Cardinality(D \cup {i}) \in Nat
      BY <2>4, FS_CardinalityType
    <2>6. QED
      BY <1>2, <1>3, <1>5, <2>2, <2>3, <2>4, <2>5, AnswerTypes
  <1>6. QED
    BY <1>2, <1>4, <1>5, AnswerTypes

LEMMA StoreKeeps == ASSUME AnswerInv, NEW p \in Proc, C!Store(p) PROVE AnswerInv'
  <1>1. PICK o \in Asking : o = req[p] /\ o.pc = "store"
    BY DEF C!Store, AnswerInv
  <1>2. o.item \in Item /\ o.answer \in C!Answer /\ o.since \in Nat
    BY <1>1 DEF Asking, C!Idle
  <1>3. /\ now <= o.since + 1 /\ o.since <= now
        /\ TrueSince(o.item, o.answer, o.since)
    BY <1>1 DEF AnswerInv, AskInv
  <1>4. TrueSince(o.item, o.answer, now - 1)
    BY <1>2, <1>3, AnswerTypes DEF TrueSince, Known
  <1> DEFINE new == [answer |-> o.answer, expires |-> now + CacheTTL]
  <1>5. PICK es \in C!Room : entries' = C!Put(es, o.item, new)
    BY <1>1 DEF C!Store
  <1>6. /\ UNCHANGED <<kind, source, lastTrue, now>>
        /\ stored' = IF kind = "idempotency" THEN C!Put(stored, o.item, now) ELSE stored
        /\ req' = [req EXCEPT ![p].pc = "served"]
    BY <1>1 DEF C!Store
  <1>7. /\ DOMAIN es \subseteq DOMAIN entries /\ \A j \in DOMAIN es : es[j] = entries[j]
        /\ kind # "response" => es = entries
        /\ IsFiniteSet(DOMAIN es \cup {o.item})
        /\ kind = "response" => Cardinality(DOMAIN es \cup {o.item}) <= CacheSize
    BY <1>2, RoomIsThere
  <1>8. /\ DOMAIN entries' = DOMAIN es \cup {o.item} /\ entries'[o.item] = new
        /\ \A j \in DOMAIN es : j # o.item => entries'[j] = entries[j]
    BY <1>5, <1>7 DEF C!Put
  <1>9. new \in C!Entry /\ new.expires - CacheTTL - 1 = now - 1 /\ new.answer = o.answer
    BY <1>2, AnswerTypes, CacheAssumption DEF C!Entry, AnswerInv, C!TypeOK
  <1> HIDE DEF new
  <1>10. /\ req' \in [Proc -> Asking] /\ \A q \in Proc : q # p => req'[q] = req[q]
         /\ req'[p].pc = "served" /\ req'[p].item = o.item /\ req'[p].answer = o.answer
    BY <1>1, <1>6 DEF AnswerInv, Asking, C!Idle
  <1>11. C!TypeOK'
    <2>1. \A i \in DOMAIN entries' : entries'[i] \in C!Entry
      BY <1>7, <1>8, <1>9, AnswerTypes
    <2>2. kind' = "response" => C!Cardinality(DOMAIN entries') <= CacheSize
      BY <1>6, <1>7, <1>8 DEF C!Cardinality, Cardinality
    <2>3. QED
      BY <1>3, <1>6, <1>10, <1>2, <2>1, <2>2 DEF AnswerInv, C!TypeOK, TrueSince, Known
  <1>12. SourceInv'
    BY <1>6 DEF AnswerInv, SourceInv
  <1>13. EntryInv'
    <2>1. \A i \in DOMAIN entries' :
              TrueSince(i, entries'[i].answer, entries'[i].expires - CacheTTL - 1)
      BY <1>4, <1>7, <1>8, <1>9 DEF AnswerInv, EntryInv
    <2>2. QED
      BY <1>2, <1>6, <1>7, <1>8, <2>1 DEF AnswerInv, EntryInv, TrueSince, Known
  <1>14. StoredInv' /\ C!RetryIsReplayed'
    <2>1. CASE kind # "idempotency"
      BY <1>6, <2>1 DEF StoredInv, C!RetryIsReplayed
    <2>2. CASE kind = "idempotency"
      <3>1. /\ DOMAIN stored' = DOMAIN stored \cup {o.item} /\ stored'[o.item] = now
            /\ \A j \in DOMAIN stored : j # o.item => stored'[j] = stored[j]
        BY <1>6, <2>2 DEF C!Put
      <3>2. DOMAIN es = DOMAIN entries
        BY <1>7, <2>2
      <3>3. StoredInv'
        BY <1>6, <1>8, <2>2, <3>1, <3>2, AnswerTypes DEF AnswerInv, StoredInv, new
      <3>4. \A q \in Proc : req[q].pc = "ask" => req[q].since <= now
        BY DEF AnswerInv, AskInv
      <3>5. C!RetryIsReplayed'
        BY <1>6, <1>10, <2>2, <3>1, <3>4 DEF AnswerInv, C!RetryIsReplayed
      <3>6. QED
        BY <3>3, <3>5
    <2>3. QED
      BY <2>1, <2>2
  <1>15. TrueSince(o.item, o.answer, now - CacheTTL - 1)
    BY <1>4, AnswerTypes DEF TrueSince, Known
  <1>16. \A q \in Proc : AskInv(q)'
    BY <1>6, <1>10, <1>15 DEF AnswerInv, AskInv, TrueSince, Known
  <1>17. QED
    BY <1>10, <1>11, <1>12, <1>13, <1>14, <1>16 DEF AnswerInv

LEMMA ReapKeeps == ASSUME AnswerInv, C!Reap PROVE AnswerInv'
  <1> DEFINE D == {i \in DOMAIN entries : ~C!Expired(entries[i])}
  <1>1. /\ entries' = [i \in D |-> entries[i]] /\ kind # "introspection"
        /\ UNCHANGED <<kind, source, lastTrue, req, stored, now>>
    BY DEF C!Reap, C!Drop, C!Restrict
  <1>2. IsFiniteSet(D) /\ Cardinality(D) <= Cardinality(DOMAIN entries)
    BY FS_Subset DEF AnswerInv, EntryInv
  <1>3. Cardinality(D) \in Nat /\ Cardinality(DOMAIN entries) \in Nat
    BY <1>2, FS_CardinalityType DEF AnswerInv, EntryInv
  <1>4. \A i \in DOMAIN entries \ D : now > entries[i].expires
    BY DEF C!Expired
  <1>5. D \subseteq DOMAIN entries
    OBVIOUS
  <1>6. /\ DOMAIN entries' = D /\ \A i \in D : entries'[i] = entries[i]
    BY <1>1
  <1> HIDE DEF D
  <1>7. C!TypeOK'
    <2>1. kind' = "response" => C!Cardinality(DOMAIN entries') <= CacheSize
      BY <1>1, <1>2, <1>3, <1>6, AnswerTypes DEF AnswerInv, C!TypeOK, C!Cardinality, Cardinality
    <2>2. QED
      BY <1>1, <1>5, <1>6, <2>1 DEF AnswerInv, C!TypeOK
  <1>8. EntryInv'
    BY <1>1, <1>2, <1>5, <1>6 DEF AnswerInv, EntryInv, TrueSince, Known
  <1>9. StoredInv'
    BY <1>1, <1>4, <1>5, <1>6, AnswerTypes DEF AnswerInv, StoredInv
  <1>10. QED
    BY <1>1, <1>7, <1>8, <1>9
    DEF AnswerInv, SourceInv, C!RetryIsReplayed, AskInv, TrueSince, Known

\* The history of a source only grows.
LEMMA HistoryGrows ==
    ASSUME AnswerInv, SourceInv', UNCHANGED <<kind, entries, stored>>, now' \in {now, now + 1},
           DOMAIN lastTrue \subseteq DOMAIN lastTrue',
           \A x \in DOMAIN lastTrue : lastTrue[x] <= lastTrue'[x]
    PROVE  /\ EntryInv' /\ StoredInv'
           /\ \A i, a, t : t \in Int /\ TrueSince(i, a, t) => TrueSince(i, a, t)'
  <1>1. \A x \in DOMAIN lastTrue : lastTrue[x] \in Nat /\ lastTrue'[x] \in Nat
    BY AnswerTypes DEF SourceInv
  <1>2. ASSUME NEW i, NEW a, NEW t \in Int, TrueSince(i, a, t)
        PROVE  <<i, a>> \in DOMAIN lastTrue' /\ t <= lastTrue'[<<i, a>>]
    BY <1>1, <1>2 DEF TrueSince, Known
  <1>3. EntryInv'
    <2>1. \A i \in DOMAIN entries : entries[i].expires - CacheTTL - 1 \in Int
      BY AnswerTypes
    <2>2. QED
      BY <1>2, <2>1 DEF AnswerInv, EntryInv, TrueSince, Known
  <1>4. StoredInv'
    BY AnswerTypes DEF AnswerInv, StoredInv
  <1>5. QED
    BY <1>2, <1>3, <1>4 DEF TrueSince, Known

LEMMA ChangeKeeps == ASSUME AnswerInv, NEW i \in Item, C!Change(i) PROVE AnswerInv'
  <1>1. /\ source' = [source EXCEPT ![i] = @ + 1] /\ source[i] < MaxAnswers
        /\ lastTrue' = C!Put(lastTrue, <<i, source[i] + 1>>, now)
        /\ UNCHANGED <<kind, entries, req, stored, now>>
    BY DEF C!Change
  <1>2. source[i] \in C!Answer /\ source[i] + 1 \in C!Answer
    BY <1>1, AnswerTypes, CacheAssumption DEF C!Answer
  <1>3. <<i, source[i] + 1>> \notin DOMAIN lastTrue
    BY <1>2 DEF AnswerInv, SourceInv, C!Answer
  <1>4. /\ DOMAIN lastTrue' = DOMAIN lastTrue \cup {<<i, source[i] + 1>>}
        /\ lastTrue'[<<i, source[i] + 1>>] = now
        /\ \A x \in DOMAIN lastTrue : lastTrue'[x] = lastTrue[x]
        /\ lastTrue' \in [DOMAIN lastTrue' -> Nat]
    BY <1>1, <1>3, AnswerTypes DEF C!Put
  <1>5. SourceInv'
    <2>1. source' \in [Item -> C!Answer] /\ source'[i] = source[i] + 1
          /\ \A j \in Item : j # i => source'[j] = source[j]
      BY <1>1, <1>2 DEF AnswerInv, SourceInv
    <2>2. DOMAIN lastTrue' = {x \in Item \X C!Answer : x[2] <= source'[x[1]]}
      <3>1. DOMAIN lastTrue = {x \in Item \X C!Answer : x[2] <= source[x[1]]}
        BY DEF AnswerInv, SourceInv
      <3>2. ASSUME NEW x \in Item \X C!Answer
            PROVE  x \in DOMAIN lastTrue' <=> x[2] <= source'[x[1]]
        <4>1. x[1] \in Item /\ x[2] \in Nat /\ x = <<x[1], x[2]>> /\ source[x[1]] \in Nat
          BY AnswerTypes DEF C!Answer
        <4>2. CASE x[1] = i
          <5>1. x[2] <= source[i] + 1 <=> x[2] <= source[i] \/ x[2] = source[i] + 1
            BY <4>1, <1>2 DEF C!Answer
          <5>2. QED
            BY <1>4, <2>1, <3>1, <4>1, <4>2, <5>1
        <4>3. CASE x[1] # i
          BY <1>4, <2>1, <3>1, <4>1, <4>3
        <4>4. QED
          BY <4>2, <4>3
      <3>3. DOMAIN lastTrue' \subseteq Item \X C!Answer
        BY <1>2, <1>4, <3>1
      <3>4. QED
        BY <3>2, <3>3
    <2>3. \A j \in Item : lastTrue'[<<j, source'[j]>>] = now
      BY <1>4, <2>1, AnswerTypes DEF AnswerInv, SourceInv, Known
    <2>4. \A x \in DOMAIN lastTrue' : lastTrue'[x] <= now
      BY <1>4, AnswerTypes DEF AnswerInv, SourceInv
    <2>5. kind' = kind /\ now' = now /\ kind \in {"response", "idempotency", "introspection"}
      BY <1>1 DEF AnswerInv, SourceInv
    <2>6. QED
      BY <1>4, <2>1, <2>2, <2>3, <2>4, <2>5 DEF SourceInv
  <1>6. /\ EntryInv' /\ StoredInv'
        /\ \A j, a, t : t \in Int /\ TrueSince(j, a, t) => TrueSince(j, a, t)'
    BY <1>1, <1>4, <1>5, HistoryGrows, AnswerTypes
  <1>7. C!TypeOK'
    BY <1>1, <1>4 DEF AnswerInv, C!TypeOK
  <1>8. \A p \in Proc : AskInv(p)'
    <2>1. \A p \in Proc : req[p].pc \in {"store", "served"} => req[p].since \in Nat
      BY DEF AnswerInv, Asking, C!Idle
    <2>2. QED
      BY <1>1, <1>6, <2>1, AnswerTypes DEF AnswerInv, AskInv
  <1>9. QED
    BY <1>1, <1>5, <1>6, <1>7, <1>8 DEF AnswerInv, C!RetryIsReplayed

LEMMA AnswerTickKeeps == ASSUME AnswerInv, C!Tick PROVE AnswerInv'
  <1>1. /\ now' = now + 1 /\ now' \in 0 .. MaxCacheTime
        /\ lastTrue' = [x \in DOMAIN lastTrue |->
                           IF source[x[1]] = x[2] THEN now + 1 ELSE lastTrue[x]]
        /\ UNCHANGED <<kind, source, entries, req, stored>>
        /\ \A p \in Proc : req[p] # C!Idle => req[p].pc # "served" /\ req[p].since = now
    BY AnswerTypes, CacheAssumption DEF C!Tick, AnswerInv, C!TypeOK
  <1>2. \A x \in DOMAIN lastTrue : lastTrue[x] \in Nat /\ lastTrue[x] <= now
    BY AnswerTypes DEF AnswerInv, SourceInv
  <1>3. SourceInv'
    <2>1. \A j \in Item : <<j, source[j]>> \in DOMAIN lastTrue
      BY AnswerTypes DEF Known
    <2>2. QED
      BY <1>1, <1>2, <2>1, AnswerTypes DEF AnswerInv, SourceInv
  <1>4. /\ EntryInv' /\ StoredInv'
        /\ \A j, a, t : t \in Int /\ TrueSince(j, a, t) => TrueSince(j, a, t)'
    BY <1>1, <1>2, <1>3, HistoryGrows, AnswerTypes
  <1>5. C!TypeOK'
    BY <1>1 DEF AnswerInv, C!TypeOK
  <1>6. \A p \in Proc : AskInv(p)'
    <2>1. \A p \in Proc : req[p].pc \in {"ask", "store", "served"} => req[p] # C!Idle /\ req[p].since \in Nat
      BY DEF AnswerInv, Asking, C!Idle
    <2>2. QED
      BY <1>1, <1>4, <2>1, AnswerTypes DEF AnswerInv, AskInv
  <1>7. QED
    BY <1>1, <1>3, <1>4, <1>5, <1>6 DEF AnswerInv, C!RetryIsReplayed

LEMMA AnswerStepKeeps == ASSUME AnswerInv, C!Next PROVE AnswerInv'
  BY AskKeeps, StoreKeeps, ReapKeeps, ChangeKeeps, AnswerTickKeeps DEF C!Next

-----------------------------------------------------------------------------
(* Forwarding *)

Fields == {"pc", "url", "retries", "index", "kind", "left", "attempt", "answer", "expired"}

\* A request on its way.  Which upstream it goes to is left open.
OnItsWay(q) ==
    /\ q.pc \in {"send", "wait", "answered"}
    /\ q.kind \in F!Body
    /\ q.left \in {"none", "whole", "spent", "closed"}
    /\ q.answer \in {"none", "ok", "5xx", "error"}
    /\ q.retries \in Nat /\ q.attempt \in Nat /\ q.attempt <= q.retries
    /\ q.expired \in BOOLEAN
    /\ DOMAIN q = Fields

\* What holds of a request and of how often it has run.
Once(q, n) ==
    /\ n \in [whole : Nat, empty : Nat]
    \* the attempts so far
    /\ q.pc = "send" => n.whole + n.empty <= q.attempt
    /\ n.whole + n.empty <= q.attempt + 1
    /\ q.pc = "wait" => q.attempt < q.retries
    /\ q.url # EngineURL => q.retries = 0
    /\ q.answer = "ok" => q.pc = "answered"
    \* the body
    /\ q.kind = "none" <=> q.left = "none"
    /\ q.left = "whole" => q.pc = "send" /\ q.attempt = 0 /\ n.whole = 0
    /\ q.kind # "none" => n.whole <= 1
    /\ q.kind = "sized" =>
          n.empty = 0 /\ (q.answer = "ok" => n.whole = 1 /\ q.attempt = 0)

RunsInv ==
    /\ DOMAIN forwarding = Forwarded /\ DOMAIN ran = Forwarded
    /\ forwarding = [r \in Forwarded |-> forwarding[r]] /\ ran = [r \in Forwarded |-> ran[r]]
    /\ \A r \in Forwarded :
          \/ forwarding[r] = F!New /\ ran[r] = [whole |-> 0, empty |-> 0]
          \/ forwarding[r] # F!New /\ OnItsWay(forwarding[r]) /\ Once(forwarding[r], ran[r])

\* Where a request goes that no cluster accepts.
RouterInv ==
    /\ order \in F!Listings
    /\ fallback \in {Clusters[c].url : c \in DOMAIN Clusters} \cup {F!NoURL}

ForwardingInv == RouterInv /\ RunsInv

LEMMA GreatestExists ==
    ASSUME NEW n \in Nat, NEW T, T \subseteq 1 .. n, T # {}
    PROVE  \E x \in T : \A y \in T : x >= y
  <1> DEFINE D == {n - i : i \in T}
  <1>1. D \subseteq Nat /\ D # {}
    <2>1. \A i \in T : n - i \in Nat
      OBVIOUS
    <2>2. QED
      BY <2>1
  <1>2. PICK d \in D : \A e \in D : d <= e
    BY <1>1, LeastExists
  <1>3. PICK x \in T : d = n - x
    OBVIOUS
  <1>4. ASSUME NEW y \in T PROVE x >= y
    <2>1. n - x <= n - y
      BY <1>2, <1>3
    <2>2. x \in Nat /\ y \in Nat
      OBVIOUS
    <2>3. QED
      BY <2>1, <2>2
  <1>5. QED
    BY <1>4

LEMMA FallbackIsOfACluster ==
    ASSUME NEW s \in F!Listings
    PROVE  F!FallbackOf(s) \in {Clusters[c].url : c \in DOMAIN Clusters} \cup {F!NoURL}
  <1> DEFINE n == Cardinality(DOMAIN Clusters)
             stars == {i \in DOMAIN s : "*" \in Clusters[s[i]].indices}
  <1>1. n \in Nat /\ s \in [1 .. n -> DOMAIN Clusters]
    <2>1. F!Cardinality(DOMAIN Clusters) = n
      BY DEF F!Cardinality, Cardinality
    <2>2. n \in Nat
      BY ForwardingAssumption, FS_CardinalityType
    <2>3. QED
      BY <2>1, <2>2 DEF F!Listings
  <1> HIDE DEF n
  <1>2. CASE s = <<>>
    BY <1>2 DEF F!FallbackOf
  <1>3. CASE s # <<>> /\ stars = {}
    <2>1. n # 0
      BY <1>1, <1>3
    <2>2. 1 \in 1 .. n
      BY <1>1, <2>1
    <2>3. QED
      BY <1>1, <1>3, <2>2 DEF F!FallbackOf
  <1>4. CASE s # <<>> /\ stars # {}
    <2>1. \E x \in stars : \A y \in stars : x >= y
      BY <1>1, <1>4, GreatestExists
    <2>2. F!Max(stars) \in stars
      BY <2>1 DEF F!Max
    <2>3. QED
      BY <1>1, <1>4, <2>2 DEF F!FallbackOf
  <1>5. QED
    BY <1>2, <1>3, <1>4

LEMMA ForwardingInit == F!Init => ForwardingInv
  <1> SUFFICES ASSUME F!Init PROVE ForwardingInv
    OBVIOUS
  <1>1. RouterInv
    BY FallbackIsOfACluster DEF F!Init, RouterInv
  <1>2. RunsInv
    BY DEF F!Init, RunsInv
  <1>3. QED
    BY <1>1, <1>2 DEF ForwardingInv

LEMMA ForwardingSafe == ForwardingInv => F!TypeOK /\ F!BodyRunsOnce
  <1> SUFFICES ASSUME ForwardingInv PROVE F!TypeOK /\ F!BodyRunsOnce
    OBVIOUS
  <1>1. ASSUME NEW r \in Forwarded, forwarding[r] # F!New
        PROVE  OnItsWay(forwarding[r]) /\ Once(forwarding[r], ran[r])
    BY <1>1 DEF ForwardingInv, RunsInv
  <1>2. F!TypeOK
    BY <1>1 DEF ForwardingInv, RouterInv, F!TypeOK, OnItsWay
  <1>3. ASSUME NEW r \in Forwarded, forwarding[r] # F!New
        PROVE  /\ forwarding[r].kind # "none" => ran[r].whole <= 1
               /\ forwarding[r].kind = "sized" =>
                     /\ ran[r].empty = 0
                     /\ forwarding[r].answer = "ok" =>
                           ran[r].whole = 1 /\ forwarding[r].attempt = 0
               /\ ran[r].whole + ran[r].empty <= forwarding[r].attempt + 1
               /\ forwarding[r].url # EngineURL => forwarding[r].attempt = 0
    BY <1>1, <1>3 DEF OnItsWay, Once
  <1>4. F!BodyRunsOnce
    BY <1>3 DEF F!BodyRunsOnce
  <1>5. QED
    BY <1>2, <1>4

\* A step that changes one request.
LEMMA OneRequest ==
    ASSUME RunsInv, NEW r \in Forwarded, NEW q, NEW n,
           forwarding' = [forwarding EXCEPT ![r] = q], ran' = [ran EXCEPT ![r] = n],
           q # F!New, OnItsWay(q), Once(q, n)
    PROVE  RunsInv'
  BY DEF RunsInv

LEMMA RouteInv ==
    ASSUME RunsInv, NEW r \in Forwarded, NEW index \in Index, NEW body \in F!Body,
           F!Route(r, index, body)
    PROVE  RunsInv'
  <1> DEFINE cluster == F!Resolve(index)
             federated == order # <<>> /\ cluster # fallback
             u == IF federated THEN cluster ELSE EngineURL
             k == IF federated THEN 0 ELSE MaxRetries
             q == [pc |-> "send", url |-> u, retries |-> k,
                   index |-> index, kind |-> body, left |-> IF body = "none" THEN "none" ELSE "whole",
                   attempt |-> 0, answer |-> "none", expired |-> FALSE]
  <1>1. forwarding[r] = F!New /\ forwarding' = [forwarding EXCEPT ![r] = q] /\ ran' = ran
    BY DEF F!Route
  <1>2. ran[r] = [whole |-> 0, empty |-> 0]
    BY <1>1 DEF RunsInv, OnItsWay, F!New
  <1>3. ran' = [ran EXCEPT ![r] = [whole |-> 0, empty |-> 0]]
    BY <1>1, <1>2 DEF RunsInv
  <1>4. k \in Nat /\ (u # EngineURL => k = 0)
    BY ForwardingAssumption
  <1> HIDE DEF u, k
  <1>5. OnItsWay(q) /\ q # F!New
    BY <1>4 DEF OnItsWay, Fields, F!Body, F!New
  <1>6. Once(q, [whole |-> 0, empty |-> 0])
    BY <1>4 DEF Once, F!Body
  <1>7. QED
    BY <1>1, <1>3, <1>5, <1>6, OneRequest

\* What an attempt leaves of the body.
LEMMA TakeInv ==
    ASSUME RunsInv, NEW r \in Forwarded, forwarding[r].pc = "send",
           NEW left \in {"none", "spent", "closed"},
           NEW answer \in {"ok", "5xx", "error"}, NEW n,
           F!Take(r, left, answer), ran' = [ran EXCEPT ![r] = n],
           n \in [whole : Nat, empty : Nat],
           n.whole + n.empty <= forwarding[r].attempt + 1,
           forwarding[r].kind = "none" <=> left = "none",
           forwarding[r].kind # "none" => n.whole <= 1,
           forwarding[r].kind = "sized" =>
              n.empty = 0 /\ (answer = "ok" => n.whole = 1 /\ forwarding[r].attempt = 0)
    PROVE  RunsInv'
  <1> DEFINE p == IF answer = "ok" \/ ~F!Another(r) THEN "answered" ELSE "wait"
             q == [forwarding[r] EXCEPT !.left = left, !.answer = answer, !.pc = p]
  <1>1. OnItsWay(forwarding[r]) /\ Once(forwarding[r], ran[r])
    BY DEF RunsInv, F!New
  <1>2. forwarding' = [forwarding EXCEPT ![r] = q]
    BY DEF F!Take
  <1>3. /\ p \in {"answered", "wait"} /\ (answer = "ok" => p = "answered")
        /\ p = "wait" => forwarding[r].attempt < forwarding[r].retries
    BY DEF F!Another
  <1> HIDE DEF p
  <1>4. /\ q.pc = p /\ q.left = left /\ q.answer = answer /\ DOMAIN q = DOMAIN forwarding[r]
        /\ q.url = forwarding[r].url /\ q.retries = forwarding[r].retries /\ q.kind = forwarding[r].kind
        /\ q.attempt = forwarding[r].attempt /\ q.expired = forwarding[r].expired
    BY <1>1 DEF OnItsWay, Fields
  <1> HIDE DEF q
  <1>5. OnItsWay(q) /\ q # F!New
    BY <1>1, <1>3, <1>4 DEF OnItsWay, Fields, F!New
  <1>6. Once(q, n)
    BY <1>1, <1>3, <1>4 DEF Once, OnItsWay
  <1>7. QED
    BY <1>2, <1>5, <1>6, OneRequest

LEMMA FailInv ==
    ASSUME RunsInv, NEW r \in Forwarded, F!Fail(r)
    PROVE  RunsInv'
  <1> DEFINE left == IF forwarding[r].left = "spent" THEN "spent" ELSE F!Closed(r)
  <1>1. forwarding[r].pc = "send" /\ OnItsWay(forwarding[r]) /\ Once(forwarding[r], ran[r])
    BY DEF F!Fail, RunsInv, F!New
  <1>2. ran' = [ran EXCEPT ![r] = ran[r]]
    BY DEF F!Fail, RunsInv
  <1>3. /\ left \in {"none", "spent", "closed"}
        /\ forwarding[r].kind = "none" <=> left = "none"
    BY <1>1 DEF F!Closed, Once
  <1>4. F!Take(r, left, "error")
    BY DEF F!Fail
  <1> HIDE DEF left
  <1>5. QED
    BY <1>1, <1>2, <1>3, <1>4, TakeInv DEF Once

LEMMA TurnAwayInv ==
    ASSUME RunsInv, NEW r \in Forwarded, F!TurnAway(r)
    PROVE  RunsInv'
  <1> DEFINE left == F!Closed(r)
  <1>1. forwarding[r].pc = "send" /\ OnItsWay(forwarding[r]) /\ Once(forwarding[r], ran[r])
    BY DEF F!TurnAway, RunsInv, F!New
  <1>2. ran' = [ran EXCEPT ![r] = ran[r]]
    BY DEF F!TurnAway, RunsInv
  <1>3. /\ left \in {"none", "spent", "closed"}
        /\ forwarding[r].kind = "none" <=> left = "none"
    BY <1>1 DEF F!Closed
  <1>4. F!Take(r, left, "5xx")
    BY DEF F!TurnAway
  <1> HIDE DEF left
  <1>5. QED
    BY <1>1, <1>2, <1>3, <1>4, TakeInv DEF Once

\* A body that is whole has not run; one that is spent and can still be sent
\* is chunked, and is sent empty.
LEMMA RunInv ==
    ASSUME RunsInv, NEW r \in Forwarded, NEW answer \in {"ok", "5xx", "error"}, F!Run(r, answer)
    PROVE  RunsInv'
  <1> DEFINE left == F!Spent(r)
             m == ran[r]
             n == IF forwarding[r].left = "spent" THEN [m EXCEPT !.empty = m.empty + 1]
                                           ELSE [m EXCEPT !.whole = m.whole + 1]
  <1>1. forwarding[r].pc = "send" /\ OnItsWay(forwarding[r]) /\ Once(forwarding[r], m)
    BY DEF F!Run, RunsInv, F!New
  <1>2. ran' = [ran EXCEPT ![r] = n]
    BY DEF F!Run, F!Ran
  <1>3. /\ left \in {"none", "spent", "closed"}
        /\ forwarding[r].kind = "none" <=> left = "none"
    BY <1>1 DEF F!Spent
  <1>4. F!Take(r, left, answer)
    BY DEF F!Run
  <1>5. /\ forwarding[r].left # "closed"
        /\ forwarding[r].left = "spent" => forwarding[r].kind # "sized"
    BY DEF F!Run, F!Unsendable
  <1>6. m \in [whole : Nat, empty : Nat]
    BY <1>1 DEF Once
  <1>7. /\ n \in [whole : Nat, empty : Nat]
        /\ forwarding[r].left = "spent" => n.whole = m.whole /\ n.empty = m.empty + 1
        /\ forwarding[r].left # "spent" => n.whole = m.whole + 1 /\ n.empty = m.empty
    BY <1>6
  <1> HIDE DEF left, m, n
  <1>8. /\ n.whole + n.empty <= forwarding[r].attempt + 1
        /\ forwarding[r].kind # "none" => n.whole <= 1
        /\ forwarding[r].kind = "sized" =>
              n.empty = 0 /\ (answer = "ok" => n.whole = 1 /\ forwarding[r].attempt = 0)
    BY <1>1, <1>5, <1>6, <1>7 DEF OnItsWay, Once
  <1>9. QED
    BY <1>1, <1>2, <1>3, <1>4, <1>7, <1>8, TakeInv

LEMMA RetryInv ==
    ASSUME RunsInv, NEW r \in Forwarded, F!Retry(r)
    PROVE  RunsInv'
  <1> DEFINE o == forwarding[r]
             q == [o EXCEPT !.pc = "send", !.attempt = o.attempt + 1]
  <1>1. o.pc = "wait" /\ OnItsWay(o) /\ Once(o, ran[r])
    BY DEF F!Retry, RunsInv, F!New
  <1>2. forwarding' = [forwarding EXCEPT ![r] = q] /\ ran' = [ran EXCEPT ![r] = ran[r]]
    <2>1. forwarding' = [forwarding EXCEPT ![r] = q]
      BY DEF F!Retry
    <2>2. ran' = [ran EXCEPT ![r] = ran[r]]
      BY DEF F!Retry, RunsInv
    <2>3. QED
      BY <2>1, <2>2
  <1> HIDE DEF o
  <1>3. /\ q.pc = "send" /\ q.attempt = o.attempt + 1 /\ DOMAIN q = DOMAIN o
        /\ q.url = o.url /\ q.retries = o.retries /\ q.kind = o.kind
        /\ q.left = o.left /\ q.answer = o.answer /\ q.expired = o.expired
    BY <1>1 DEF OnItsWay, Fields
  <1> HIDE DEF q
  <1>4. OnItsWay(q) /\ q # F!New
    BY <1>1, <1>3 DEF OnItsWay, Fields, F!New, Once
  <1>5. Once(q, ran[r])
    BY <1>1, <1>3 DEF OnItsWay, Once
  <1>6. QED
    BY <1>2, <1>4, <1>5, OneRequest

LEMMA ExpireInv ==
    ASSUME RunsInv, NEW r \in Forwarded, F!Expire(r)
    PROVE  RunsInv'
  <1> DEFINE o == forwarding[r]
             q == [o EXCEPT !.expired = TRUE]
  <1>1. o.pc \in {"send", "wait"} /\ OnItsWay(o) /\ Once(o, ran[r])
    BY DEF F!Expire, RunsInv, F!New
  <1>2. forwarding' = [forwarding EXCEPT ![r] = q] /\ ran' = [ran EXCEPT ![r] = ran[r]]
    BY DEF F!Expire, RunsInv
  <1> HIDE DEF o
  <1>3. /\ q.pc = o.pc /\ q.attempt = o.attempt /\ DOMAIN q = DOMAIN o
        /\ q.url = o.url /\ q.retries = o.retries /\ q.kind = o.kind
        /\ q.left = o.left /\ q.answer = o.answer /\ q.expired = TRUE
    BY <1>1 DEF OnItsWay, Fields
  <1> HIDE DEF q
  <1>4. OnItsWay(q) /\ q # F!New
    BY <1>1, <1>3 DEF OnItsWay, Fields, F!New
  <1>5. Once(q, ran[r])
    BY <1>1, <1>3 DEF Once
  <1>6. QED
    BY <1>2, <1>4, <1>5, OneRequest

LEMMA RunsStep == ASSUME RunsInv, F!Next PROVE RunsInv'
  <1>1. PICK r \in Forwarded :
            \/ \E index \in Index, body \in F!Body : F!Route(r, index, body)
            \/ F!Fail(r) \/ \E answer \in {"ok", "5xx", "error"} : F!Run(r, answer)
            \/ F!TurnAway(r) \/ F!Retry(r) \/ F!Expire(r)
    BY DEF F!Next
  <1>2. CASE \E index \in Index, body \in F!Body : F!Route(r, index, body)
    BY <1>2, RouteInv
  <1>3. CASE \E answer \in {"ok", "5xx", "error"} : F!Run(r, answer)
    BY <1>3, RunInv
  <1>4. CASE F!Fail(r)
    BY <1>4, FailInv
  <1>5. CASE F!TurnAway(r)
    BY <1>5, TurnAwayInv
  <1>6. CASE F!Retry(r)
    BY <1>6, RetryInv
  <1>7. CASE F!Expire(r)
    BY <1>7, ExpireInv
  <1>8. QED
    BY <1>1, <1>2, <1>3, <1>4, <1>5, <1>6, <1>7

LEMMA ForwardingStepKeeps == ASSUME ForwardingInv, F!Next PROVE ForwardingInv'
  <1>1. RunsInv'
    BY RunsStep DEF ForwardingInv
  <1>2. UNCHANGED <<order, fallback>>
    BY DEF F!Next, F!Route, F!Fail, F!Run, F!TurnAway, F!Retry, F!Expire, F!router
  <1>3. QED
    BY <1>1, <1>2 DEF ForwardingInv, RouterInv

-----------------------------------------------------------------------------
(* The theorems *)

IInv ==
    /\ part = "keyring" => KeyringInv
    /\ part = "jwks" => JWKSInv
    /\ part = "authorization" => AuthorizationInv
    /\ part = "limiter" => LimiterInv
    /\ part = "answers" => AnswerInv
    /\ part = "providers" => ProviderInv
    /\ part = "apikeys" => KeyInv
    /\ part = "upstream" => ForwardingInv

\* A component that does not run keeps to its initial state, so its invariant
\* is asked only of the one that runs.
LEMMA Starts == Init => IInv
  BY KeyringInit, JWKSInit, AuthorizationInit, LimiterInit, AnswerInit, ProviderInit, KeyInit,
     ForwardingInit DEF Init, IInv

\* A step of nobody changes nothing an invariant speaks of.
LEMMA KeyringRests == ASSUME KeyringInv, UNCHANGED <<keyring, now>> PROVE KeyringInv'
  BY DEF keyring, KeyringInv, K!TypeOK, Issued, OfRing

LEMMA JWKSRests == ASSUME JWKSInv, UNCHANGED <<jwks, req, now>> PROVE JWKSInv'
  BY DEF jwks, JWKSInv, J!TypeOK, Sound, KeyAge

LEMMA LimiterRests == ASSUME LimiterInv, UNCHANGED <<limiter, req, now>> PROVE LimiterInv'
  BY DEF limiter, LimiterInv, L!TypeOK, Account, Passed, L!Get

LEMMA AnswerRests == ASSUME AnswerInv, UNCHANGED <<answers, req, now>> PROVE AnswerInv'
  BY DEF answers, AnswerInv, C!TypeOK, SourceInv, EntryInv, StoredInv, C!RetryIsReplayed, AskInv,
         TrueSince, Known

LEMMA ProviderRests == ASSUME ProviderInv, UNCHANGED providers PROVE ProviderInv'
  BY DEF providers, ProviderInv, TableTypes, FiledRight, KeptAreListed, InTable, SearchesInv,
         SearchInv, P!Still

LEMMA KeyRests == ASSUME KeyInv, UNCHANGED <<apikeys, req, now>> PROVE KeyInv'
  BY DEF apikeys, KeyInv, S!TypeOK, S!RevokedKeyRefused, KeysAreNumbered, UseOfKey, S!List

LEMMA ForwardingRests == ASSUME ForwardingInv, UNCHANGED upstream PROVE ForwardingInv'
  BY DEF upstream, ForwardingInv, RouterInv, RunsInv, Once, OnItsWay

LEMMA AuthorizationRests ==
    ASSUME AuthorizationInv, UNCHANGED authorization PROVE AuthorizationInv'
  <1>1. SettingsInv'
    BY DEF authorization, AuthorizationInv, SettingsInv, TenantsRight
  <1>2. MapperInv'
    BY DEF authorization, AuthorizationInv, MapperInv, WorkInv, A!Owned
  <1>3. RequestsInv'
    BY DEF authorization, AuthorizationInv, RequestsInv, RequestInv, FlagsInv, LoopInv, Decided,
           A!Owned, A!Busy
  <1>4. QED
    BY <1>1, <1>2, <1>3 DEF AuthorizationInv

LEMMA Steps == IInv /\ [Next]_vars => IInv'
  <1> SUFFICES ASSUME IInv, [Next]_vars PROVE IInv'
    OBVIOUS
  <1>1. CASE Next
    <2>1. /\ part' = part
          /\ part = "keyring" => K!Next
          /\ part = "jwks" => J!Next
          /\ part = "authorization" => A!Next
          /\ part = "limiter" => L!Next
          /\ part = "answers" => C!Next
          /\ part = "providers" => P!Next
          /\ part = "apikeys" => S!Next
          /\ part = "upstream" => F!Next
      BY <1>1
      DEF Next, KeyringStep, JWKSStep, AuthorizationStep, LimiterStep, AnswerStep,
          ProviderStep, APIKeyStep, UpstreamStep
    <2>2. QED
      BY <2>1, KeyringStepKeeps, JWKSStepKeeps, AuthorizationStepKeeps, LimiterStepKeeps,
         AnswerStepKeeps, ProviderStepKeeps, KeyStep, ForwardingStepKeeps DEF IInv
  <1>2. CASE UNCHANGED vars
    <2>1. UNCHANGED <<part, keyring, jwks, authorization, limiter, answers, providers, apikeys,
                      upstream, req, now>>
      BY <1>2
      DEF vars, admission, transit, keyring, jwks, authorization, limiter, answers, providers,
          apikeys, upstream
    <2>2. QED
      BY <2>1, KeyringRests, JWKSRests, AuthorizationRests, LimiterRests, AnswerRests,
         ProviderRests, KeyRests, ForwardingRests DEF IInv
  <1>3. QED
    BY <1>1, <1>2

LEMMA Invariance == Spec => []IInv
  BY Starts, Steps, PTL DEF Spec

\* Type correctness of every part.
THEOREM TypeCorrect == Spec => []TypeOK
  <1>1. IInv => TypeOK
    BY ProviderSafe, ForwardingSafe, AuthorizationSafe
    DEF IInv, TypeOK, KeyringInv, JWKSInv, LimiterInv, AnswerInv, KeyInv
  <1>2. QED
    BY <1>1, Invariance, PTL

\* The JWKS always has the key of a token that has not expired, however many
\* rotations and signings run at once, as long as nobody forces a rotation and
\* the rotation interval is longer than a token lives (rotateLoop, signJWT).
THEOREM TokensVerify == Spec => []LiveTokensVerify
  <1>1. IInv => LiveTokensVerify
    BY KeyringSafe DEF IInv, LiveTokensVerify
  <1>2. QED
    BY <1>1, Invariance, PTL

\* A token whose key the provider publishes throughout its validation is
\* rejected only if the provider could not be asked, whatever other requests
\* do with the cached keys (resolveKey and its forced refresh).
THEOREM PublishedAccepted == Spec => []PublishedKeyAccepted
  <1>1. IInv => PublishedKeyAccepted
    BY JWKSSafe DEF IInv, PublishedKeyAccepted
  <1>2. QED
    BY <1>1, Invariance, PTL

\* A key the provider has withdrawn is accepted for the age of a fresh cache
\* at most, or of a stale one while the provider cannot be reached, and the time
\* a request takes (getJWKS, fallbackCache).
THEOREM WithdrawnForgotten == Spec => []WithdrawnKeyForgotten
  <1>1. IInv => WithdrawnKeyForgotten
    BY JWKSSafe DEF IInv, WithdrawnKeyForgotten
  <1>2. QED
    BY <1>1, Invariance, PTL

\* The loop over the policies (Evaluate) decides as the guide says, for the
\* policies of one moment and in whatever order they stand, although others add
\* and remove some meanwhile: a request is allowed if and only if a policy that
\* applies permits it and none forbids it.
THEOREM DenyWins == Spec => []DenyOverrides
  <1>1. IInv => DenyOverrides
    BY AuthorizationSafe DEF IInv, DenyOverrides
  <1>2. QED
    BY <1>1, Invariance, PTL

\* As long as no SIGHUP has met an edit, the scope mapper that nobody writes is
\* the one of the configuration installed last, and the roles of a request that
\* no edit overlaps are those of that configuration, although it reads the two
\* tables one after the other (rebuildMapper, MapForIssuer).
THEOREM RolesOfOne == Spec => []RolesOfOneConfiguration
  <1>1. IInv => RolesOfOneConfiguration
    BY AuthorizationSafe DEF IInv, RolesOfOneConfiguration
  <1>2. QED
    BY <1>1, Invariance, PTL

\* A bucket lets through its burst and its rate for the time since it was made
\* at most, for any number of requests that load and store buckets at once
\* (getBucket, allow).
THEOREM RateHolds == Spec => []WithinRate
  <1>1. IInv => WithinRate
    BY LimiterSafe DEF IInv, WithinRate
  <1>2. QED
    BY <1>1, Invariance, PTL

\* As long as no provider was moved away under a validation that points to it,
\* a token is accepted only with the keys and the audience of the issuer it
\* names, and a provider that is never removed is found by every validation that
\* no edit overlaps (findProvider, resolveKey, removeProvider); and a revoked API
\* key is refused to whoever presents it from then on (Validate, Revoke).
THEOREM CredentialsInForce == Spec => []CredentialInForce
  <1>1. IInv => CredentialInForce
    BY ProviderSafe DEF IInv, KeyInv, CredentialInForce
  <1>2. QED
    BY <1>1, Invariance, PTL

\* However often a request is retried, one with a body runs with that body at
\* most once, and one whose length was announced runs only once in all; the
\* router's clusters run a request once (RoundTrip, Route).
THEOREM BodyOnce == Spec => []BodyRunsOnce
  <1>1. IInv => BodyRunsOnce
    BY ForwardingSafe DEF IInv, BodyRunsOnce
  <1>2. QED
    BY <1>1, Invariance, PTL

\* An answer that is served was right no longer ago than the time to live and
\* the time the source took, whoever changes the source or reaps the cache
\* meanwhile (Get, Set, reap).
THEOREM AnswersAreFresh == Spec => []AnswersWithinTTL
  <1>1. IInv => AnswersWithinTTL
    BY AnswerSafe DEF IInv, AnswersWithinTTL
  <1>2. QED
    BY <1>1, Invariance, PTL

\* A request with an Idempotency-Key runs again only if no other had stored an
\* answer in the time to live before it came (Middleware).
THEOREM RetriesReplay == Spec => []RetryIsReplayed
  <1>1. IInv => RetryIsReplayed
    BY DEF IInv, AnswerInv, RetryIsReplayed
  <1>2. QED
    BY <1>1, Invariance, PTL
=============================================================================
