----------------------------- MODULE RequestPath ----------------------------
(***************************************************************************)
(* The life of a bearer request in the proxy (cmd/proxy/main.go): the load *)
(* shedder (internal/loadshed) counts it in and out, the timeout           *)
(* middleware (internal/timeout) runs the handler in a goroutine of its    *)
(* own and answers for it when the deadline passes, and the handler        *)
(* creates a session (internal/session), checks the token binding          *)
(* (internal/tokenbind), decides, and copies the answer of the upstream.   *)
(*                                                                         *)
(* outer[r] is the goroutine of the connection, inner[r] the goroutine of  *)
(* the handler; both hold the ResponseWriter.  A session and a binding are *)
(* keyed by the first 16 characters of the token, here the token.  Scope   *)
(* mapping, policies, webhook and circuit breaker refuse or let pass.      *)
(***************************************************************************)
EXTENDS Integers, FiniteSets, GoMaps

CONSTANTS
    Request,       \* requests, each sent once
    Token,         \* valid tokens
    SelfIssued,    \* tokens the proxy issued itself, known by Lookup
    Owner,         \* token -> the client it was issued to
    Unnamed,       \* the empty ClientID
    Fingerprint,   \* hashes of address and User-Agent
    Capacity,      \* concurrent requests the shedder admits (500)
    SessionLimit   \* sessions per client (100)

ASSUME ParameterAssumption ==
    /\ SelfIssued \subseteq Token
    /\ Unnamed \notin {Owner[t] : t \in Token}
    /\ IsFiniteSet(Request)
    /\ Capacity \in Nat \ {0} /\ SessionLimit \in Nat \ {0}

VARIABLES
    active,     \* Shedder.active
    outer,      \* the goroutine of the connection
    inner,      \* the goroutine of the handler
    from,       \* request -> its token and fingerprint
    expired,    \* requests whose context deadline has passed
    written,    \* requests whose timeoutWriter.written is set
    status,     \* the status the client gets
    sessions,   \* session.Manager.sessions: token -> ClientID
    bindings,   \* tokenbind.Binder.bindings: token -> fingerprint
    running     \* the process has not died

counting == <<active, outer, expired>>
answering == <<written, status>>
tables == <<sessions, bindings>>
vars == <<counting, inner, from, answering, tables, running>>

Status == {"none", "ok", "refused", "bad gateway", "timeout", "overloaded", "empty"}
None == [pc |-> "none", code |-> "none"]
Handler == [pc : {"none", "session", "verify", "bind", "decide", "upstream",
                  "header", "body", "end"}, code : Status]

TypeOK ==
    /\ active \in 0 .. Cardinality(Request)
    /\ outer \in [Request -> {"new", "over", "waiting", "late", "done"}]
    /\ inner \in [Request -> Handler]
    /\ DOMAIN from \subseteq Request
    /\ from \in [DOMAIN from -> [token : Token, fp : Fingerprint]]
    /\ expired \subseteq Request /\ written \subseteq Request
    /\ status \in [Request -> Status]
    /\ DOMAIN sessions \subseteq Token /\ DOMAIN bindings \subseteq Token
    /\ bindings \in [DOMAIN bindings -> Fingerprint]
    /\ running \in BOOLEAN

Init ==
    /\ active = 0
    /\ outer = [r \in Request |-> "new"]
    /\ inner = [r \in Request |-> None]
    /\ from = EmptyMap
    /\ expired = {} /\ written = {}
    /\ status = [r \in Request |-> "none"]
    /\ sessions = EmptyMap /\ bindings = EmptyMap
    /\ running = TRUE

-----------------------------------------------------------------------------
(* The goroutine of the connection *)

Connected(r, pc) == running /\ outer[r] = pc
Go(r, pc) == inner' = [inner EXCEPT ![r].pc = pc]

\* net/http keeps the first status; a handler that returns without one sends
\* an empty 200.
Sent(r, code) == IF status[r] = "none" THEN [status EXCEPT ![r] = code] ELSE status

OverByOne(current) == current > Capacity + 1   \* mutant
Over(current) == current > Capacity

\* Shedder.Middleware: the counter is incremented first and looked at after.
Enter(r, t, fp) ==
    /\ Connected(r, "new")
    /\ active' = active + 1
    /\ from' = Put(from, r, [token |-> t, fp |-> fp])
    /\ IF Over(active + 1)
         THEN outer' = [outer EXCEPT ![r] = "over"] /\ UNCHANGED inner
         ELSE outer' = [outer EXCEPT ![r] = "waiting"] /\ Go(r, "session")
    /\ UNCHANGED <<expired, answering, tables, running>>

GiveBack == active' = active - 1

Reject(r) ==
    /\ Connected(r, "over")
    /\ GiveBack
    /\ outer' = [outer EXCEPT ![r] = "done"]
    /\ status' = Sent(r, "overloaded")
    /\ UNCHANGED <<inner, from, expired, written, tables, running>>

\* The deferred Add(-1), when the middleware below has returned.
Leave(r, code) ==
    /\ GiveBack
    /\ outer' = [outer EXCEPT ![r] = "done"]
    /\ status' = Sent(r, code)
    /\ UNCHANGED <<inner, from, expired, written, tables, running>>

\* <-done
Return(r) ==
    /\ Connected(r, "waiting") /\ inner[r].pc = "end"
    /\ Leave(r, "empty")

\* The deadline of the context passes ...
Expire(r) ==
    /\ Connected(r, "waiting") /\ r \notin expired
    /\ expired' = expired \cup {r}
    /\ UNCHANGED <<active, outer, inner, from, answering, tables, running>>

\* ... and the select takes <-ctx.Done(): if nothing was written, 504.
WaitForHandler(r) ==                           \* mutant: the slot is kept for the handler
    /\ Connected(r, "waiting") /\ r \in expired /\ inner[r].pc = "end"
    /\ Leave(r, "empty")
TimeOut(r) ==
    /\ Connected(r, "waiting") /\ r \in expired
    /\ IF r \in written
         THEN Leave(r, "empty")
         ELSE /\ outer' = [outer EXCEPT ![r] = "late"]
              /\ UNCHANGED <<active, expired, inner, from, answering, tables, running>>

AnswerTimeout(r) ==
    /\ Connected(r, "late")
    /\ Leave(r, "timeout")

-----------------------------------------------------------------------------
(* The goroutine of the handler *)

At(r, pc) == running /\ inner[r].pc = pc
HandlerStep == UNCHANGED <<counting, from, running>>

\* timeoutWriter.WriteHeader marks the answer as written before it writes it.
Reply(r, code) ==
    /\ inner' = [inner EXCEPT ![r] = [pc |-> "header", code |-> code]]
    /\ written' = written \cup {r}
    /\ UNCHANGED status

WriteHeader(r) ==
    /\ At(r, "header")
    /\ status' = Sent(r, inner[r].code)
    /\ Go(r, IF inner[r].code = "ok" THEN "body" ELSE "end")
    /\ UNCHANGED <<written, tables>>
    /\ HandlerStep

\* claims.ClientID is not set for a token found by Lookup.
ClientID(t) == IF t \in SelfIssued THEN Unnamed ELSE Owner[t]
SessionsOf(c) == {t \in DOMAIN sessions : sessions[t] = c}

NoLimit(c) == FALSE                            \* mutant
AtLimit(c) == Cardinality(SessionsOf(c)) >= SessionLimit

\* session.Manager.Create
CreateSession(r) ==
    LET t == from[r].token
        c == ClientID(t)
    IN /\ At(r, "session")
       /\ IF AtLimit(c)
            THEN Reply(r, "refused") /\ UNCHANGED sessions
            ELSE /\ sessions' = Put(sessions, t, c)
                 /\ Go(r, "verify") /\ UNCHANGED answering
       /\ UNCHANGED bindings
       /\ HandlerStep

AnyFingerprint(t, fp) == TRUE                  \* mutant
Matches(t, fp) == Get(bindings, t, fp) = fp

\* tokenbind.Binder.Verify, in one critical section ...
VerifyBinding(r) ==
    LET t == from[r].token
    IN /\ At(r, "verify")
       /\ IF Matches(t, from[r].fp)
            THEN Go(r, "bind") /\ UNCHANGED answering
            ELSE Reply(r, "refused")
       /\ UNCHANGED tables
       /\ HandlerStep

\* ... and Bind, in another, which keeps an existing binding.
BindFirst(t, fp) ==
    bindings' = IF t \in DOMAIN bindings THEN bindings ELSE Put(bindings, t, fp)

Bind(r) ==
    /\ At(r, "bind")
    /\ BindFirst(from[r].token, from[r].fp)
    /\ Go(r, "decide")
    /\ UNCHANGED <<sessions, answering>>
    /\ HandlerStep

\* Scopes, policies, webhook and circuit breaker.
Decide(r) ==
    /\ At(r, "decide")
    /\ \/ Go(r, "upstream") /\ UNCHANGED answering
       \/ Reply(r, "refused")
    /\ UNCHANGED tables
    /\ HandlerStep

\* The upstream answers, or the transport fails and ErrorHandler answers.
Upstream(r) ==
    /\ At(r, "upstream")
    /\ Reply(r, "ok") \/ Reply(r, "bad gateway")
    /\ UNCHANGED tables
    /\ HandlerStep

CopyBody(r) ==
    /\ At(r, "body")
    /\ Go(r, "end")
    /\ UNCHANGED <<answering, tables>>
    /\ HandlerStep

\* The copy of the body fails: ReverseProxy panics, and nothing recovers in
\* this goroutine.
AbortBody(r) ==
    /\ At(r, "body")
    /\ running' = FALSE
    /\ UNCHANGED <<counting, inner, from, answering, tables>>

-----------------------------------------------------------------------------
(* Operators of the session manager *)

RemoveSession(t) ==
    /\ running
    /\ t \in DOMAIN sessions
    /\ sessions' = Drop(sessions, {t})
    /\ UNCHANGED <<counting, inner, from, answering, bindings, running>>

ForceLogout(c) ==
    /\ running
    /\ sessions' = Drop(sessions, SessionsOf(c))
    /\ UNCHANGED <<counting, inner, from, answering, bindings, running>>

Connection(r) == Reject(r) \/ Return(r) \/ TimeOut(r) \/ AnswerTimeout(r)
Handle(r) ==
    \/ CreateSession(r) \/ VerifyBinding(r) \/ Bind(r) \/ Decide(r)
    \/ Upstream(r) \/ WriteHeader(r) \/ CopyBody(r) \/ AbortBody(r)

Next ==
    \/ \E r \in Request :
          \/ \E t \in Token, fp \in Fingerprint : Enter(r, t, fp)
          \/ Expire(r)
          \/ Connection(r)
          \/ Handle(r)
    \/ \E t \in Token : RemoveSession(t) \/ ForceLogout(Owner[t])

Spec == Init /\ [][Next]_vars

\* Goroutines of connections run and timers fire.  Nothing is assumed of the
\* handlers: the upstream may never answer.
FairSpec ==
    /\ Spec
    /\ \A r \in Request : WF_vars(Expire(r)) /\ WF_vars(Connection(r))

-----------------------------------------------------------------------------
(* Properties *)

Counted == {r \in Request : outer[r] \in {"over", "waiting", "late"}}
Admitted == {r \in Request : outer[r] \in {"waiting", "late"}}

\* However requests enter, time out and leave, the shedder's counter is the
\* number of connections it has counted, and it admits no more than it says.
SlotsAreCounted ==
    active = Cardinality(Counted) /\ Cardinality(Admitted) <= Capacity

\* A handler runs only for a request that has entered (inductive strengthening).
HandlersHaveEntered ==
    \A r \in Request :
        /\ outer[r] \in {"new", "over"} => inner[r].pc = "none"
        /\ outer[r] # "new" => r \in DOMAIN from

\* Sessions created by concurrent requests never exceed the limit of a client.
SessionsWithinLimit ==
    \A t \in DOMAIN sessions : Cardinality(SessionsOf(sessions[t])) <= SessionLimit

\* Once a token is bound, a request with another fingerprint that has yet to
\* be verified never gets past the check, whatever requests are in between.
Stranger(r) ==
    /\ inner[r].pc \in {"session", "verify"}
    /\ from[r].token \in DOMAIN bindings
    /\ bindings[from[r].token] # from[r].fp

StrangersStayOut ==
    [][\A r \in Request :
          Stranger(r) => Stranger(r)' \/ inner'[r] = [pc |-> "header", code |-> "refused"]]_vars

\* Every admitted connection is answered and its slot comes back, although
\* the upstream may never answer, unless the process dies.
SlotsComeBack == \A r \in Request : outer[r] # "new" ~> outer[r] = "done" \/ ~running

\* docs/adr/decisions.md: "Bind tokens to client fingerprint ... on first use.
\* Subsequent requests must match."  No two fingerprints pass with one token.
Passed(r) == inner[r].pc \in {"decide", "upstream"}
OneFingerprint ==
    \A r, s \in Request :
        Passed(r) /\ Passed(s) /\ from[r].token = from[s].token => from[r].fp = from[s].fp
=============================================================================
