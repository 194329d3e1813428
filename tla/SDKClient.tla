------------------------------ MODULE SDKClient -----------------------------
(***************************************************************************)
(* The token of the Go client (pkg/client/client.go): kept until it        *)
(* expires soon, by the client's clock since the answer came, and fetched  *)
(* by one caller while the others wait for the lock.  The proxy counts     *)
(* from when it issued the token.                                          *)
(***************************************************************************)
EXTENDS UpkeepParameters

VARIABLES
    token,        \* Client.token, expiry: [issued, got], or NoToken
    lock,         \* the holder of Client.mu, while it waits for the proxy
    call,         \* calls of Do in progress
    now

vars == <<token, lock, call, now>>

NoToken == [issued |-> 0, got |-> -TokenLife]
Free == [pc |-> "free"]
Idle == [pc |-> "idle"]
Time == 0 .. MaxUpkeepTime
Token == [issued : Time, got : Time]

TypeOK ==
    /\ token \in Token \cup {NoToken}
    /\ lock = Free \/ lock.pc \in {"request", "answer"}
    /\ \A p \in Proc : call[p].pc \in {"idle", "wait", "send", "arrived"}
    /\ now \in Time

Init ==
    /\ token = NoToken /\ lock = Free
    /\ call = [p \in Proc |-> Idle]
    /\ now = 0

-----------------------------------------------------------------------------
Do(p) ==
    /\ call[p] = Idle
    /\ call' = [call EXCEPT ![p] = [pc |-> "wait"]]
    /\ UNCHANGED <<token, lock, now>>

Send(t) == [pc |-> "send", token |-> t, since |-> now]

\* Token, with the lock: time.Now().Before(expiry - 30s).
Valid == token # NoToken /\ now < token.got + TokenLife - Margin

GetToken(p) ==
    /\ call[p].pc = "wait" /\ lock = Free
    /\ IF Valid THEN call' = [call EXCEPT ![p] = Send(token)] /\ UNCHANGED lock
                ELSE lock' = [pc |-> "request", by |-> p] /\ UNCHANGED call
    /\ UNCHANGED <<token, now>>

\* The proxy issues a token, ...
Issue ==
    /\ lock.pc = "request"
    /\ lock' = [pc |-> "answer", by |-> lock.by, issued |-> now]
    /\ UNCHANGED <<token, call, now>>

\* ... and fetchToken keeps it with the time its answer comes, ...
Answer ==
    /\ lock.pc = "answer"
    /\ token' = [issued |-> lock.issued, got |-> now]
    /\ call' = [call EXCEPT ![lock.by] = Send([issued |-> lock.issued, got |-> now])]
    /\ lock' = Free
    /\ UNCHANGED now

\* ... or fails, and leaves what there is.
Fail ==
    /\ lock # Free
    /\ call' = [call EXCEPT ![lock.by] = Idle]
    /\ lock' = Free
    /\ UNCHANGED <<token, now>>

\* The request with the token reaches the proxy.
Arrive(p) ==
    /\ call[p].pc = "send"
    /\ call' = [call EXCEPT ![p].pc = "arrived"]
    /\ UNCHANGED <<token, lock, now>>

Return(p) ==
    /\ call[p].pc = "arrived"
    /\ call' = [call EXCEPT ![p] = Idle]
    /\ UNCHANGED <<token, lock, now>>

Tick ==
    /\ now < MaxUpkeepTime
    /\ \A p \in Proc : call[p].pc # "arrived"
    /\ now' = now + 1
    /\ UNCHANGED <<token, lock, call>>

Next ==
    \/ \E p \in Proc : Do(p) \/ GetToken(p) \/ Arrive(p) \/ Return(p)
    \/ Issue \/ Answer \/ Fail \/ Tick

-----------------------------------------------------------------------------
(* Properties *)

\* "Token returns a valid access token": it has not expired when it reaches the
\* proxy, if the answer that brought it and the request together took no
\* longer than the margin, and less than it lives.
ValidOnArrival ==
    \A p \in Proc :
        call[p].pc = "arrived" =>
            LET t == call[p].token
                delay == (t.got - t.issued) + (now - call[p].since)
            IN delay <= Margin /\ delay < TokenLife => now < t.issued + TokenLife
=============================================================================
