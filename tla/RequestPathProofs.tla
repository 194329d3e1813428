------------------------- MODULE RequestPathProofs -------------------------
(***************************************************************************)
(* Safety of the request path for every finite set of requests, any        *)
(* tokens, clients and fingerprints, and every capacity and limit.         *)
(***************************************************************************)
EXTENDS RequestPath, FiniteSetTheorems, TLAPS

LEMMA PutFact ==
    ASSUME NEW m, NEW k, NEW v
    PROVE  /\ DOMAIN Put(m, k, v) = DOMAIN m \cup {k}
           /\ Put(m, k, v)[k] = v
           /\ \A x \in DOMAIN m : x # k => Put(m, k, v)[x] = m[x]
  BY DEF Put

LEMMA DropFact ==
    ASSUME NEW m, NEW K
    PROVE  /\ DOMAIN Drop(m, K) = DOMAIN m \ K
           /\ \A x \in DOMAIN m \ K : Drop(m, K)[x] = m[x]
  BY DEF Drop, Restrict

LEMMA CountedIsFinite ==
    /\ IsFiniteSet(Counted) /\ IsFiniteSet(Admitted)
    /\ Admitted \subseteq Counted /\ Cardinality(Admitted) <= Cardinality(Counted)
    /\ Cardinality(Counted) \in Nat /\ Cardinality(Admitted) \in Nat
    /\ Cardinality(Counted) <= Cardinality(Request) /\ Cardinality(Request) \in Nat
  <1>1. Counted \subseteq Request /\ Admitted \subseteq Counted
    BY DEF Counted, Admitted
  <1>2. IsFiniteSet(Request)
    BY ParameterAssumption
  <1>3. IsFiniteSet(Counted) /\ Cardinality(Counted) <= Cardinality(Request)
    BY <1>1, <1>2, FS_Subset
  <1>4. IsFiniteSet(Admitted) /\ Cardinality(Admitted) <= Cardinality(Counted)
    BY <1>1, <1>3, FS_Subset
  <1>5. QED
    BY <1>1, <1>2, <1>3, <1>4, FS_CardinalityType

-----------------------------------------------------------------------------
(* The slots: a step of a connection counts one request in, one out, or none. *)

LEMMA InitialSlots == Init => SlotsAreCounted
  <1> SUFFICES ASSUME Init PROVE SlotsAreCounted
    OBVIOUS
  <1>1. Counted = {} /\ Admitted = {}
    BY DEF Init, Counted, Admitted
  <1>2. Cardinality({}) = 0
    BY FS_EmptySet
  <1>3. QED
    BY <1>1, <1>2, ParameterAssumption DEF SlotsAreCounted, Init

LEMMA SlotsKept ==
    ASSUME SlotsAreCounted, active' = active, Counted' = Counted, Admitted' = Admitted
    PROVE  SlotsAreCounted'
  BY DEF SlotsAreCounted

LEMMA SlotTaken ==
    ASSUME TypeOK, SlotsAreCounted, NEW r \in Request,
           NEW t \in Token, NEW fp \in Fingerprint, Enter(r, t, fp)
    PROVE  SlotsAreCounted'
  <1>1. /\ outer \in [Request -> {"new", "over", "waiting", "late", "done"}]
        /\ outer[r] = "new" /\ active' = active + 1
    BY DEF TypeOK, Enter, Connected
  <1>2. Counted' = Counted \cup {r} /\ r \notin Counted
    BY <1>1 DEF Enter, Counted
  <1>3. Cardinality(Counted') = Cardinality(Counted) + 1
    BY <1>2, CountedIsFinite, FS_AddElement
  <1>4. CASE Over(active + 1)
    <2>1. Admitted' = Admitted
      BY <1>1, <1>4 DEF Enter, Admitted
    <2>2. QED
      BY <1>1, <1>3, <2>1 DEF SlotsAreCounted
  <1>5. CASE ~Over(active + 1)
    <2>1. Admitted' = Admitted \cup {r} /\ r \notin Admitted
      BY <1>1, <1>5 DEF Enter, Admitted
    <2>2. Cardinality(Admitted') = Cardinality(Admitted) + 1
      BY <2>1, CountedIsFinite, FS_AddElement
    <2>3. active + 1 <= Capacity
      BY <1>5, ParameterAssumption DEF Over, TypeOK
    <2>4. QED
      BY <1>1, <1>3, <2>2, <2>3, CountedIsFinite, ParameterAssumption DEF SlotsAreCounted
  <1>6. QED
    BY <1>4, <1>5

LEMMA SlotReturned ==
    ASSUME TypeOK, SlotsAreCounted, NEW r \in Request, r \in Counted,
           GiveBack, outer' = [outer EXCEPT ![r] = "done"]
    PROVE  SlotsAreCounted'
  <1>1. outer \in [Request -> {"new", "over", "waiting", "late", "done"}]
    BY DEF TypeOK
  <1>2. Counted' = Counted \ {r} /\ Admitted' = Admitted \ {r}
    BY <1>1 DEF Counted, Admitted
  <1>3. Cardinality(Counted') = Cardinality(Counted) - 1
    BY <1>2, CountedIsFinite, FS_RemoveElement
  <1>4. IsFiniteSet(Admitted') /\ Cardinality(Admitted') <= Cardinality(Admitted)
    <2>1. Admitted \ {r} \in SUBSET Admitted
      OBVIOUS
    <2>2. QED
      BY <1>2, <2>1, CountedIsFinite, FS_Subset
  <1>5. Cardinality(Admitted') \in Nat
    BY <1>4, FS_CardinalityType
  <1>6. QED
    BY <1>3, <1>4, <1>5, CountedIsFinite, ParameterAssumption DEF SlotsAreCounted, GiveBack

LEMMA LateIsCounted ==
    ASSUME TypeOK, SlotsAreCounted, NEW r \in Request, outer[r] = "waiting",
           outer' = [outer EXCEPT ![r] = "late"], active' = active
    PROVE  SlotsAreCounted'
  <1>1. outer \in [Request -> {"new", "over", "waiting", "late", "done"}]
    BY DEF TypeOK
  <1>2. Counted' = Counted /\ Admitted' = Admitted
    BY <1>1 DEF Counted, Admitted
  <1>3. QED
    BY <1>2, SlotsKept
-----------------------------------------------------------------------------
(* The types, the handlers and the slots in every step. *)

Shape == TypeOK /\ HandlersHaveEntered /\ SlotsAreCounted

LEMMA InitialShape == Init => Shape
  <1> SUFFICES ASSUME Init PROVE Shape
    OBVIOUS
  <1>1. TypeOK
    BY CountedIsFinite DEF Init, TypeOK, None, Handler, Status, EmptyMap
  <1>2. HandlersHaveEntered
    BY DEF Init, HandlersHaveEntered, None
  <1>3. QED
    BY <1>1, <1>2, InitialSlots DEF Shape

\* The counter is a number of requests, by the count.
LEMMA ActiveInRange ==
    ASSUME SlotsAreCounted'
    PROVE  active' \in 0 .. Cardinality(Request)
  <1>1. Counted' \subseteq Request
    BY DEF Counted
  <1>2. IsFiniteSet(Counted') /\ Cardinality(Counted') <= Cardinality(Request)
    BY <1>1, FS_Subset, ParameterAssumption
  <1>3. Cardinality(Counted') \in Nat /\ Cardinality(Request) \in Nat
    BY <1>2, FS_CardinalityType, ParameterAssumption
  <1>4. QED
    BY <1>2, <1>3 DEF SlotsAreCounted

LEMMA SentIsStatus ==
    ASSUME TypeOK, NEW r \in Request, NEW code \in Status
    PROVE  Sent(r, code) \in [Request -> Status]
  BY DEF TypeOK, Sent

LEMMA LeaveStep ==
    ASSUME Shape, NEW r \in Request, NEW code \in Status, Leave(r, code),
           r \in Counted
    PROVE  Shape'
  <1> USE DEF Shape
  <1>1. SlotsAreCounted'
    BY SlotReturned DEF Leave
  <1>2. active' \in 0 .. Cardinality(Request)
    BY <1>1, ActiveInRange
  <1>3. status' \in [Request -> Status]
    BY SentIsStatus DEF Leave
  <1>4. TypeOK'
    <2>1. outer' \in [Request -> {"new", "over", "waiting", "late", "done"}]
      BY DEF Leave, TypeOK
    <2>2. QED
      BY <1>2, <1>3, <2>1 DEF TypeOK, Leave, tables
  <1>5. r \in DOMAIN from
    BY DEF HandlersHaveEntered, Counted
  <1>6. HandlersHaveEntered'
    BY <1>5 DEF HandlersHaveEntered, Leave, TypeOK
  <1>7. QED
    BY <1>1, <1>4, <1>6

LEMMA EnterStep ==
    ASSUME Shape, NEW r \in Request, NEW t \in Token, NEW fp \in Fingerprint, Enter(r, t, fp)
    PROVE  Shape'
  <1> USE DEF Shape
  <1>1. SlotsAreCounted'
    BY SlotTaken
  <1>2. active' \in 0 .. Cardinality(Request)
    BY <1>1, ActiveInRange
  <1>3. outer[r] = "new" /\ inner[r].pc = "none"
    BY DEF Enter, Connected, HandlersHaveEntered
  <1>4. outer' \in [Request -> {"new", "over", "waiting", "late", "done"}]
    BY DEF Enter, TypeOK
  <1>5. inner' \in [Request -> Handler] /\ (\A q \in Request : q # r => inner'[q] = inner[q])
        /\ (Over(active + 1) => inner' = inner)
    BY DEF Enter, Go, TypeOK, Handler
  <1>6. /\ DOMAIN from' = DOMAIN from \cup {r}
        /\ from' \in [DOMAIN from' -> [token : Token, fp : Fingerprint]]
    BY PutFact DEF Enter, Put, TypeOK
  <1>7. TypeOK'
    BY <1>2, <1>4, <1>5, <1>6 DEF TypeOK, Enter, answering, tables
  <1>8. HandlersHaveEntered'
    BY <1>3, <1>5, <1>6 DEF HandlersHaveEntered, Enter, TypeOK
  <1>9. QED
    BY <1>1, <1>7, <1>8

\* A step of the handler of r: it moves on, and may answer or change the tables.
LEMMA HandlerShape ==
    ASSUME Shape, NEW r \in Request, inner[r].pc # "none", UNCHANGED <<counting, from>>,
           inner' \in [Request -> Handler],
           \A q \in Request : q # r => inner'[q] = inner[q],
           written' \subseteq Request, status' \in [Request -> Status],
           DOMAIN sessions' \subseteq Token,
           DOMAIN bindings' \subseteq Token, bindings' \in [DOMAIN bindings' -> Fingerprint],
           running' \in BOOLEAN
    PROVE  Shape'
  <1> USE DEF Shape, counting
  <1>1. Counted' = Counted /\ Admitted' = Admitted
    BY DEF Counted, Admitted
  <1>2. SlotsAreCounted'
    BY <1>1, SlotsKept
  <1>3. TypeOK'
    BY DEF TypeOK
  <1>4. HandlersHaveEntered'
    BY DEF HandlersHaveEntered, TypeOK
  <1>5. QED
    BY <1>2, <1>3, <1>4

\* Operators of the session manager, and the end of the process.
LEMMA TablesShape ==
    ASSUME Shape, UNCHANGED <<counting, inner, from, answering, bindings>>,
           DOMAIN sessions' \subseteq DOMAIN sessions, running' \in BOOLEAN
    PROVE  Shape'
  <1> USE DEF Shape, counting, answering
  <1>1. Counted' = Counted /\ Admitted' = Admitted
    BY DEF Counted, Admitted
  <1>2. SlotsAreCounted'
    BY <1>1, SlotsKept
  <1>3. TypeOK'
    BY DEF TypeOK
  <1>4. HandlersHaveEntered'
    BY DEF HandlersHaveEntered
  <1>5. QED
    BY <1>2, <1>3, <1>4

LEMMA GoShape ==
    ASSUME TypeOK, NEW r \in Request, NEW pc, Go(r, pc),
           pc \in {"session", "verify", "bind", "decide", "upstream", "header", "body", "end"}
    PROVE  /\ inner' \in [Request -> Handler]
           /\ inner'[r].pc = pc
           /\ \A q \in Request : q # r => inner'[q] = inner[q]
  BY DEF TypeOK, Go, Handler

LEMMA ReplyShape ==
    ASSUME TypeOK, NEW r \in Request, NEW code \in Status, Reply(r, code)
    PROVE  /\ inner' \in [Request -> Handler]
           /\ inner'[r] = [pc |-> "header", code |-> code]
           /\ \A q \in Request : q # r => inner'[q] = inner[q]
           /\ written' \subseteq Request /\ status' \in [Request -> Status]
  <1>1. [pc |-> "header", code |-> code] \in Handler
    BY DEF Handler
  <1>2. QED
    BY <1>1 DEF TypeOK, Reply

LEMMA ConnectionStep ==
    ASSUME Shape, NEW r \in Request, Connection(r)
    PROVE  Shape'
  <1>1. "overloaded" \in Status /\ "empty" \in Status /\ "timeout" \in Status
    BY DEF Status
  <1>2. CASE Reject(r)
    <2>1. Leave(r, "overloaded") /\ r \in Counted
      BY <1>2 DEF Reject, Leave, Connected, Counted
    <2>2. QED
      BY <1>1, <2>1, LeaveStep
  <1>3. CASE Return(r)
    <2>1. Leave(r, "empty") /\ r \in Counted
      BY <1>3 DEF Return, Connected, Counted
    <2>2. QED
      BY <1>1, <2>1, LeaveStep
  <1>4. CASE TimeOut(r)
    <2>1. outer[r] = "waiting" /\ r \in Counted
      BY <1>4 DEF TimeOut, Connected, Counted
    <2>2. CASE Leave(r, "empty")
      BY <1>1, <2>1, <2>2, LeaveStep
    <2>3. CASE /\ outer' = [outer EXCEPT ![r] = "late"]
               /\ UNCHANGED <<active, expired, inner, from, answering, tables, running>>
      <3>1. SlotsAreCounted'
        BY <2>1, <2>3, LateIsCounted DEF Shape
      <3>2. outer' \in [Request -> {"new", "over", "waiting", "late", "done"}]
        BY <2>3 DEF Shape, TypeOK
      <3>3. TypeOK'
        BY <2>3, <3>2 DEF Shape, TypeOK, answering, tables
      <3>4. HandlersHaveEntered'
        BY <2>1, <2>3 DEF Shape, TypeOK, HandlersHaveEntered
      <3>5. QED
        BY <3>1, <3>3, <3>4 DEF Shape
    <2>4. QED
      BY <1>4, <2>2, <2>3 DEF TimeOut
  <1>5. CASE AnswerTimeout(r)
    <2>1. Leave(r, "timeout") /\ r \in Counted
      BY <1>5 DEF AnswerTimeout, Connected, Counted
    <2>2. QED
      BY <1>1, <2>1, LeaveStep
  <1>6. QED
    BY <1>2, <1>3, <1>4, <1>5 DEF Connection

LEMMA ExpireStep ==
    ASSUME Shape, NEW r \in Request, Expire(r)
    PROVE  Shape'
  <1> USE DEF Shape, Expire, answering, tables
  <1>1. Counted' = Counted /\ Admitted' = Admitted
    BY DEF Counted, Admitted
  <1>2. SlotsAreCounted'
    BY <1>1, SlotsKept
  <1>3. TypeOK'
    BY DEF TypeOK
  <1>4. HandlersHaveEntered'
    BY DEF HandlersHaveEntered
  <1>5. QED
    BY <1>2, <1>3, <1>4

\* A request whose handler runs has entered: its token and fingerprint are known.
LEMMA HandlerHasRequest ==
    ASSUME Shape, NEW r \in Request, inner[r].pc # "none"
    PROVE  r \in DOMAIN from /\ from[r].token \in Token /\ from[r].fp \in Fingerprint
  BY DEF Shape, TypeOK, HandlersHaveEntered

\* What each step of a handler does to the tables of sessions and bindings.
LEMMA HandleStep ==
    ASSUME Shape, NEW r \in Request, Handle(r)
    PROVE  Shape'
  <1> USE DEF Shape
  <1>1. "ok" \in Status /\ "refused" \in Status /\ "bad gateway" \in Status
    BY DEF Status
  <1>2. CASE CreateSession(r)
    <2>1. inner[r].pc # "none" /\ UNCHANGED <<counting, from, running, bindings>>
      BY <1>2 DEF CreateSession, At, HandlerStep
    <2>2. from[r].token \in Token
      BY <2>1, HandlerHasRequest
    <2>3. DOMAIN sessions' \subseteq Token
      <3>1. \/ sessions' = sessions
            \/ sessions' = Put(sessions, from[r].token, ClientID(from[r].token))
        BY <1>2 DEF CreateSession
      <3>2. DOMAIN Put(sessions, from[r].token, ClientID(from[r].token))
              = DOMAIN sessions \cup {from[r].token}
        BY DEF Put
      <3>3. QED
        BY <2>2, <3>1, <3>2 DEF TypeOK
    <2>4. CASE Reply(r, "refused")
      BY <1>1, <2>1, <2>3, <2>4, ReplyShape, HandlerShape DEF TypeOK
    <2>5. CASE Go(r, "verify") /\ UNCHANGED answering
      BY <2>1, <2>3, <2>5, GoShape, HandlerShape DEF TypeOK, answering
    <2>6. QED
      BY <1>2, <2>4, <2>5 DEF CreateSession
  <1>3. CASE VerifyBinding(r)
    <2>1. inner[r].pc # "none" /\ UNCHANGED <<counting, from, running, sessions, bindings>>
      BY <1>3 DEF VerifyBinding, At, HandlerStep, tables
    <2>2. CASE Go(r, "bind") /\ UNCHANGED answering
      BY <2>1, <2>2, GoShape, HandlerShape DEF TypeOK, answering
    <2>3. CASE Reply(r, "refused")
      BY <1>1, <2>1, <2>3, ReplyShape, HandlerShape DEF TypeOK
    <2>4. QED
      BY <1>3, <2>2, <2>3 DEF VerifyBinding
  <1>4. CASE Bind(r)
    <2>1. /\ inner[r].pc # "none" /\ UNCHANGED <<counting, from, running, sessions>>
          /\ Go(r, "decide") /\ UNCHANGED answering
      BY <1>4 DEF Bind, At, HandlerStep
    <2>2. from[r].token \in Token /\ from[r].fp \in Fingerprint
      BY <2>1, HandlerHasRequest
    <2>3. DOMAIN bindings' \subseteq Token /\ bindings' \in [DOMAIN bindings' -> Fingerprint]
      BY <1>4, <2>2, PutFact DEF Bind, BindFirst, Put, TypeOK
    <2>4. QED
      BY <2>1, <2>3, GoShape, HandlerShape DEF TypeOK, answering
  <1>5. CASE Decide(r)
    <2>1. inner[r].pc # "none" /\ UNCHANGED <<counting, from, running, sessions, bindings>>
      BY <1>5 DEF Decide, At, HandlerStep, tables
    <2>2. CASE Go(r, "upstream") /\ UNCHANGED answering
      BY <2>1, <2>2, GoShape, HandlerShape DEF TypeOK, answering
    <2>3. CASE Reply(r, "refused")
      BY <1>1, <2>1, <2>3, ReplyShape, HandlerShape DEF TypeOK
    <2>4. QED
      BY <1>5, <2>2, <2>3 DEF Decide
  <1>6. CASE Upstream(r)
    <2>1. inner[r].pc # "none" /\ UNCHANGED <<counting, from, running, sessions, bindings>>
      BY <1>6 DEF Upstream, At, HandlerStep, tables
    <2>2. QED
      BY <1>1, <1>6, <2>1, ReplyShape, HandlerShape DEF Upstream, TypeOK
  <1>7. CASE WriteHeader(r)
    <2>1. /\ inner[r].pc # "none" /\ UNCHANGED <<counting, from, running, sessions, bindings>>
          /\ written' = written
      BY <1>7 DEF WriteHeader, At, HandlerStep, tables
    <2>2. Go(r, "body") \/ Go(r, "end")
      BY <1>7 DEF WriteHeader
    <2>3. inner[r].code \in Status
      BY DEF TypeOK, Handler
    <2>4. status' \in [Request -> Status]
      BY <1>7, <2>3, SentIsStatus DEF WriteHeader
    <2>5. QED
      BY <2>1, <2>2, <2>4, GoShape, HandlerShape DEF TypeOK
  <1>8. CASE CopyBody(r)
    <2>1. /\ inner[r].pc # "none" /\ UNCHANGED <<counting, from, running, sessions, bindings>>
          /\ Go(r, "end") /\ UNCHANGED answering
      BY <1>8 DEF CopyBody, At, HandlerStep, tables
    <2>2. QED
      BY <2>1, GoShape, HandlerShape DEF TypeOK, answering
  <1>9. CASE AbortBody(r)
    BY <1>9, TablesShape DEF AbortBody, tables
  <1>10. QED
    BY <1>2, <1>3, <1>4, <1>5, <1>6, <1>7, <1>8, <1>9 DEF Handle

LEMMA ShapeStep == Shape /\ [Next]_vars => Shape'
  <1> SUFFICES ASSUME Shape, [Next]_vars PROVE Shape'
    OBVIOUS
  <1>1. ASSUME NEW r \in Request, NEW t \in Token, NEW fp \in Fingerprint, Enter(r, t, fp)
        PROVE  Shape'
    BY <1>1, EnterStep
  <1>2. ASSUME NEW r \in Request, Expire(r) PROVE Shape'
    BY <1>2, ExpireStep
  <1>3. ASSUME NEW r \in Request, Connection(r) PROVE Shape'
    BY <1>3, ConnectionStep
  <1>4. ASSUME NEW r \in Request, Handle(r) PROVE Shape'
    BY <1>4, HandleStep
  <1>5. ASSUME NEW t \in Token, RemoveSession(t) PROVE Shape'
    <2>1. DOMAIN sessions' \subseteq DOMAIN sessions
      BY <1>5, DropFact DEF RemoveSession
    <2>2. running' \in BOOLEAN
      BY <1>5 DEF RemoveSession, Shape, TypeOK
    <2>3. QED
      BY <1>5, <2>1, <2>2, TablesShape DEF RemoveSession
  <1>6. ASSUME NEW t \in Token, ForceLogout(Owner[t]) PROVE Shape'
    <2>1. DOMAIN sessions' \subseteq DOMAIN sessions
      <3>1. sessions' = Drop(sessions, SessionsOf(Owner[t]))
        BY <1>6 DEF ForceLogout
      <3>2. DOMAIN Drop(sessions, SessionsOf(Owner[t])) = DOMAIN sessions \ SessionsOf(Owner[t])
        BY DropFact
      <3>3. QED
        BY <3>1, <3>2
    <2>2. running' \in BOOLEAN
      BY <1>6 DEF ForceLogout, Shape, TypeOK
    <2>3. QED
      BY <1>6, <2>1, <2>2, TablesShape DEF ForceLogout
  <1>7. CASE UNCHANGED vars
    BY <1>7, TablesShape DEF vars, tables, Shape, TypeOK
  <1>8. QED
    BY <1>1, <1>2, <1>3, <1>4, <1>5, <1>6, <1>7 DEF Next

-----------------------------------------------------------------------------
(* The sessions of a client: others' steps only shrink the sets of sessions, *)
(* and Create looks at the set it is about to extend.                        *)

\* The sessions there are at any time are finitely many, whatever Token is.
FiniteTables == IsFiniteSet(DOMAIN sessions)

Limits == FiniteTables /\ SessionsWithinLimit

LEMMA InitialLimits == Init => Limits
  BY FS_EmptySet DEF Init, Limits, FiniteTables, SessionsWithinLimit, EmptyMap

\* With every entry of the table above the limit's reach, a smaller table is.
LEMMA FewerWithinLimit ==
    ASSUME NEW S, NEW U, IsFiniteSet(U), Cardinality(U) <= SessionLimit, S \subseteq U
    PROVE  Cardinality(S) <= SessionLimit
  <1>1. Cardinality(S) <= Cardinality(U) /\ IsFiniteSet(S)
    BY FS_Subset
  <1>2. Cardinality(S) \in Nat /\ Cardinality(U) \in Nat
    BY <1>1, FS_CardinalityType
  <1>3. QED
    BY <1>1, <1>2, ParameterAssumption

LEMMA SessionsAreFinite ==
    ASSUME FiniteTables, NEW c
    PROVE  IsFiniteSet(SessionsOf(c)) /\ Cardinality(SessionsOf(c)) \in Nat
  <1>1. SessionsOf(c) \subseteq DOMAIN sessions
    BY DEF SessionsOf
  <1>2. IsFiniteSet(SessionsOf(c))
    BY <1>1, FS_Subset DEF FiniteTables
  <1>3. QED
    BY <1>2, FS_CardinalityType

LEMMA SessionsRemoved ==
    ASSUME Limits, DOMAIN sessions' \subseteq DOMAIN sessions,
           \A t \in DOMAIN sessions' : sessions'[t] = sessions[t]
    PROVE  Limits'
  <1>1. IsFiniteSet(DOMAIN sessions')
    BY FS_Subset DEF Limits, FiniteTables
  <1>2. ASSUME NEW t \in DOMAIN sessions'
        PROVE  Cardinality({u \in DOMAIN sessions' : sessions'[u] = sessions'[t]}) <= SessionLimit
    <2> DEFINE S == {u \in DOMAIN sessions' : sessions'[u] = sessions'[t]}
               U == SessionsOf(sessions[t])
    <2>1. S \subseteq U
      BY <1>2 DEF SessionsOf
    <2>2. IsFiniteSet(U)
      BY SessionsAreFinite DEF Limits
    <2>3. Cardinality(U) <= SessionLimit
      BY <1>2 DEF Limits, SessionsWithinLimit
    <2> HIDE DEF S, U
    <2>4. Cardinality(S) <= SessionLimit
      BY <2>1, <2>2, <2>3, FewerWithinLimit
    <2>5. QED
      BY <2>4 DEF S
  <1>3. QED
    BY <1>1, <1>2 DEF Limits, FiniteTables, SessionsWithinLimit, SessionsOf

LEMMA SessionAdded ==
    ASSUME Limits, NEW t, NEW c, ~AtLimit(c), sessions' = Put(sessions, t, c)
    PROVE  Limits'
  <1>1. /\ DOMAIN sessions' = DOMAIN sessions \cup {t}
        /\ sessions'[t] = c
        /\ \A x \in DOMAIN sessions : x # t => sessions'[x] = sessions[x]
    BY DEF Put
  <1>2. IsFiniteSet(DOMAIN sessions')
    BY <1>1, FS_AddElement DEF Limits, FiniteTables
  <1>3. ASSUME NEW x \in DOMAIN sessions'
        PROVE  Cardinality({u \in DOMAIN sessions' : sessions'[u] = sessions'[x]}) <= SessionLimit
    <2> DEFINE S == {u \in DOMAIN sessions' : sessions'[u] = sessions'[x]}
               U == SessionsOf(sessions'[x])
    <2>1. IsFiniteSet(U) /\ Cardinality(U) \in Nat
      BY SessionsAreFinite DEF Limits
    <2>2. CASE sessions'[x] = c
      <3>1. S \subseteq U \cup {t}
        BY <1>1 DEF SessionsOf
      <3>2. Cardinality(U) < SessionLimit
        BY <2>1, <2>2, ParameterAssumption DEF AtLimit
      <3> HIDE DEF S, U
      <3>3. IsFiniteSet(U \cup {t}) /\ Cardinality(U \cup {t}) <= Cardinality(U) + 1
        <4>1. /\ IsFiniteSet(U \cup {t})
              /\ Cardinality(U \cup {t})
                   = IF t \in U THEN Cardinality(U) ELSE Cardinality(U) + 1
          BY <2>1, FS_AddElement, Zenon
        <4>2. QED
          BY <2>1, <4>1
      <3>4. Cardinality(U \cup {t}) <= SessionLimit
        <4>1. Cardinality(U \cup {t}) \in Nat
          BY <3>3, FS_CardinalityType
        <4>2. QED
          BY <2>1, <3>2, <3>3, <4>1, ParameterAssumption
      <3>5. Cardinality(S) <= SessionLimit
        BY <3>1, <3>3, <3>4, FewerWithinLimit
      <3>6. QED
        BY <3>5 DEF S
    <2>3. CASE sessions'[x] # c
      <3>1. x \in DOMAIN sessions /\ sessions'[x] = sessions[x]
        BY <1>1, <1>3, <2>3
      <3>2. S \subseteq U
        BY <1>1, <2>3 DEF SessionsOf
      <3>3. Cardinality(U) <= SessionLimit
        BY <3>1 DEF Limits, SessionsWithinLimit
      <3> HIDE DEF S, U
      <3>4. Cardinality(S) <= SessionLimit
        BY <2>1, <3>2, <3>3, FewerWithinLimit
      <3>5. QED
        BY <3>4 DEF S
    <2>4. QED
      BY <2>2, <2>3
  <1>4. QED
    BY <1>2, <1>3 DEF Limits, FiniteTables, SessionsWithinLimit, SessionsOf

LEMMA LimitsStep == Limits /\ [Next]_vars => Limits'
  <1> SUFFICES ASSUME Limits, [Next]_vars PROVE Limits'
    OBVIOUS
  <1>1. CASE sessions' = sessions
    BY <1>1, SessionsRemoved
  <1>2. ASSUME NEW r \in Request, CreateSession(r), sessions' # sessions
        PROVE  Limits'
    BY <1>2, SessionAdded DEF CreateSession
  <1>3. ASSUME NEW t \in Token, RemoveSession(t) PROVE Limits'
    <2>1. sessions' = Drop(sessions, {t})
      BY <1>3 DEF RemoveSession
    <2>2. DOMAIN sessions' \subseteq DOMAIN sessions
          /\ \A x \in DOMAIN sessions' : sessions'[x] = sessions[x]
      BY <2>1 DEF Drop, Restrict
    <2>3. QED
      BY <2>2, SessionsRemoved
  <1>4. ASSUME NEW t \in Token, ForceLogout(Owner[t]) PROVE Limits'
    <2>1. sessions' = Drop(sessions, SessionsOf(Owner[t]))
      BY <1>4 DEF ForceLogout
    <2>2. DOMAIN sessions' \subseteq DOMAIN sessions
          /\ \A x \in DOMAIN sessions' : sessions'[x] = sessions[x]
      BY <2>1 DEF Drop, Restrict
    <2>3. QED
      BY <2>2, SessionsRemoved
  <1>5. CASE UNCHANGED vars
    BY <1>1, <1>5 DEF vars, tables
  <1>6. ASSUME NEW r \in Request,
               \/ \E t \in Token, fp \in Fingerprint : Enter(r, t, fp)
               \/ Expire(r) \/ Connection(r)
        PROVE  sessions' = sessions
    BY <1>6 DEF Enter, Expire, Connection, Reject, Return, TimeOut, AnswerTimeout, Leave, tables
  <1>7. ASSUME NEW r \in Request, Handle(r), ~CreateSession(r)
        PROVE  sessions' = sessions
    BY <1>7 DEF Handle, VerifyBinding, Bind, Decide, Upstream, WriteHeader, CopyBody,
                AbortBody, tables
  <1>8. QED
    BY <1>1, <1>2, <1>3, <1>4, <1>5, <1>6, <1>7 DEF Next

-----------------------------------------------------------------------------
(* Strangers *)

\* A handler's step leaves the other handlers, every request's token and
\* fingerprint, and every existing binding as they are.
LEMMA HandlerSparesOthers ==
    ASSUME Shape, NEW q \in Request, Handle(q)
    PROVE  /\ from' = from
           /\ \A r \in Request : r # q => inner'[r] = inner[r]
           /\ \A t \in DOMAIN bindings : t \in DOMAIN bindings' /\ bindings'[t] = bindings[t]
  <1>1. from' = from
    BY DEF Handle, CreateSession, VerifyBinding, Bind, Decide, Upstream, WriteHeader, CopyBody,
           AbortBody, HandlerStep
  <1>2. \A r \in Request : r # q => inner'[r] = inner[r]
    BY DEF Handle, CreateSession, VerifyBinding, Bind, Decide, Upstream, WriteHeader, CopyBody,
           AbortBody, Go, Reply, Shape, TypeOK
  <1>3. CASE Bind(q)
    BY <1>1, <1>2, <1>3 DEF Bind, BindFirst, Put
  <1>4. CASE ~Bind(q)
    <2>1. bindings' = bindings
      BY <1>4 DEF Handle, CreateSession, VerifyBinding, Decide, Upstream, WriteHeader, CopyBody,
                  AbortBody, tables
    <2>2. QED
      BY <1>1, <1>2, <2>1
  <1>5. QED
    BY <1>3, <1>4

LEMMA StrangerSpared ==
    ASSUME NEW r \in Request, Stranger(r), inner'[r].pc \in {"session", "verify"},
           from'[r] = from[r],
           \A t \in DOMAIN bindings : t \in DOMAIN bindings' /\ bindings'[t] = bindings[t]
    PROVE  Stranger(r)'
  BY DEF Stranger

\* The step of a stranger's own handler: it is refused at the check, or stays before it.
LEMMA StrangerRefused ==
    ASSUME Shape, NEW r \in Request, Stranger(r), Handle(r)
    PROVE  Stranger(r)' \/ inner'[r] = [pc |-> "header", code |-> "refused"]
  <1>1. inner[r].pc \in {"session", "verify"}
    BY DEF Stranger
  <1>2. CASE CreateSession(r)
    <2>1. CASE Reply(r, "refused")
      BY <2>1 DEF Reply, Shape, TypeOK
    <2>2. CASE Go(r, "verify")
      <3>1. inner'[r].pc = "verify"
        BY <2>2, GoShape DEF Shape
      <3>2. QED
        BY <3>1, HandlerSparesOthers, StrangerSpared
    <2>3. QED
      BY <1>2, <2>1, <2>2 DEF CreateSession
  <1>3. CASE VerifyBinding(r)
    <2>1. ~Matches(from[r].token, from[r].fp)
      BY DEF Stranger, Matches, Get
    <2>2. Reply(r, "refused")
      BY <1>3, <2>1 DEF VerifyBinding
    <2>3. QED
      BY <2>2 DEF Reply, Shape, TypeOK
  <1>4. CASE AbortBody(r)
    BY <1>1, <1>4 DEF AbortBody, At
  <1>5. QED
    BY <1>1, <1>2, <1>3, <1>4 DEF Handle, Bind, Decide, Upstream, WriteHeader, CopyBody, At

LEMMA StrangerStep ==
    ASSUME Shape, [Next]_vars, NEW r \in Request, Stranger(r)
    PROVE  Stranger(r)' \/ inner'[r] = [pc |-> "header", code |-> "refused"]
  <1>1. inner[r].pc \in {"session", "verify"} /\ outer[r] # "new"
    BY DEF Stranger, Shape, HandlersHaveEntered
  <1>2. CASE inner'[r] = inner[r] /\ from'[r] = from[r] /\ bindings' = bindings
    BY <1>1, <1>2, StrangerSpared
  <1>3. ASSUME NEW q \in Request, NEW t \in Token, NEW fp \in Fingerprint, Enter(q, t, fp)
        PROVE  inner'[r] = inner[r] /\ from'[r] = from[r] /\ bindings' = bindings
    <2>1. q # r
      BY <1>1, <1>3 DEF Enter, Connected
    <2>2. r \in DOMAIN from
      BY <1>1 DEF Shape, HandlersHaveEntered
    <2>3. QED
      BY <1>3, <2>1, <2>2 DEF Enter, Go, Put, tables, Shape, TypeOK
  <1>4. ASSUME NEW q \in Request, Expire(q) \/ Connection(q)
        PROVE  inner' = inner /\ from' = from /\ bindings' = bindings
    BY <1>4 DEF Expire, Connection, Reject, Return, TimeOut, AnswerTimeout, Leave, tables
  <1>5. ASSUME NEW q \in Request, Handle(q), q # r
        PROVE  Stranger(r)'
    BY <1>1, <1>5, HandlerSparesOthers, StrangerSpared
  <1>6. ASSUME NEW t \in Token, RemoveSession(t) \/ ForceLogout(Owner[t])
        PROVE  inner' = inner /\ from' = from /\ bindings' = bindings
    BY <1>6 DEF RemoveSession, ForceLogout
  <1>7. CASE UNCHANGED vars
    BY <1>2, <1>7 DEF vars, tables
  <1>8. ASSUME Next
        PROVE  Stranger(r)' \/ inner'[r] = [pc |-> "header", code |-> "refused"]
    BY <1>2, <1>3, <1>4, <1>5, <1>6, <1>8, StrangerRefused DEF Next
  <1>9. QED
    BY <1>7, <1>8

-----------------------------------------------------------------------------
(* The theorems *)

\* Every reachable state of the request path has the shape TypeOK gives it and
\* a handler only for requests that have entered, whatever the number of
\* requests: middleware, timeout and handler goroutines interleaved in any way.
THEOREM TypeCorrect == Spec => [](TypeOK /\ HandlersHaveEntered)
  <1>1. Spec => []Shape
    BY InitialShape, ShapeStep, PTL DEF Spec
  <1>2. Shape => TypeOK /\ HandlersHaveEntered
    BY DEF Shape
  <1>3. QED
    BY <1>1, <1>2, PTL

\* For every number of requests and every capacity, the shedder's counter is the
\* number of connections it has counted, and never more than Capacity of them
\* are inside: Add(1) before the comparison is enough.
THEOREM SlotsCounted == Spec => []SlotsAreCounted
  <1>1. Spec => []Shape
    BY InitialShape, ShapeStep, PTL DEF Spec
  <1>2. Shape => SlotsAreCounted
    BY DEF Shape
  <1>3. QED
    BY <1>1, <1>2, PTL

\* However many requests of a client create sessions at once, and whatever is
\* removed in between, no client has more than SessionLimit sessions.
THEOREM SessionsLimited == Spec => []SessionsWithinLimit
  <1>1. Spec => []Limits
    BY InitialLimits, LimitsStep, PTL DEF Spec
  <1>2. Limits => SessionsWithinLimit
    BY DEF Limits
  <1>3. QED
    BY <1>1, <1>2, PTL

\* A token that is bound stays bound to the same fingerprint, so a request with
\* another fingerprint that has yet to be verified is refused at the check.
THEOREM StrangersRefused == Spec => StrangersStayOut
  <1>1. Spec => []Shape
    BY InitialShape, ShapeStep, PTL DEF Spec
  <1>2. Shape /\ [Next]_vars =>
          [\A r \in Request :
             Stranger(r) => Stranger(r)' \/ inner'[r] = [pc |-> "header", code |-> "refused"]]_vars
    BY StrangerStep
  <1>3. QED
    BY <1>1, <1>2, PTL DEF Spec, StrangersStayOut
=============================================================================
