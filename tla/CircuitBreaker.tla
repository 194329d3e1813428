--------------------------- MODULE CircuitBreaker ---------------------------
(***************************************************************************)
(* The circuit breaker in front of the upstream                            *)
(* (internal/circuit/breaker.go).  A request asks Allow, is served, and    *)
(* reports its status with Record; the breaker's mutex covers each call    *)
(* but not the time between them, so results arrive late and out of order. *)
(* The call of Record is not deferred: a request whose handler panics      *)
(* under Middleware never reports (net/http catches the panic).  In        *)
(* cmd/proxy the handler runs in the goroutine of the timeout middleware,  *)
(* where a panic ends the process: RequestPath models that.                *)
(*                                                                         *)
(* Time is kept as elapsed times that stop at the largest value anything   *)
(* compares them with, so behaviours are unbounded in length.  A request   *)
(* answered with 503 by Allow changes nothing and is not a step.           *)
(***************************************************************************)
EXTENDS Integers

CONSTANTS
    Request,     \* request goroutines
    Threshold,   \* consecutive 5xx that open the circuit (5)
    Cooldown,    \* time it stays open before a probe (30s)
    Deadline     \* longest time a request is served (timeout middleware, 30s)

ASSUME ParameterAssumption ==
    /\ Threshold \in Nat \ {0}
    /\ Cooldown \in Nat \ {0}
    /\ Deadline \in Nat \ {0}

VARIABLES
    state,         \* Breaker.state
    failures,      \* Breaker.failures; only compared with Threshold, stops there
    sinceOpened,   \* time.Since(Breaker.openedAt), stops at Cooldown
    serving,       \* the requests between Allow and Record
    sinceFailure,  \* history: time since the last failure recorded, stops at Cooldown
    sinceProbe,    \* history: time since the last probe was sent, stops at Cooldown
    lost           \* history: the probe of this half-open period was aborted

vars == <<state, failures, sinceOpened, serving, sinceFailure, sinceProbe, lost>>

Serving == [kind : {"none", "normal", "probe"}, age : 0 .. Deadline]
NotServing == [kind |-> "none", age |-> 0]

TypeOK ==
    /\ state \in {"Closed", "Open", "HalfOpen"}
    /\ failures \in 0 .. Threshold
    /\ sinceOpened \in 0 .. Cooldown
    /\ serving \in [Request -> Serving]
    /\ sinceFailure \in 0 .. Cooldown
    /\ sinceProbe \in 0 .. Cooldown
    /\ lost \in BOOLEAN

Init ==
    /\ state = "Closed"
    /\ failures = 0
    /\ sinceOpened = Cooldown
    /\ serving = [r \in Request |-> NotServing]
    /\ sinceFailure = Cooldown
    /\ sinceProbe = Cooldown
    /\ lost = FALSE

-----------------------------------------------------------------------------
Older(elapsed, limit) == IF elapsed < limit THEN elapsed + 1 ELSE limit

Serve(r, kind) == serving' = [serving EXCEPT ![r] = [kind |-> kind, age |-> 0]]
Done(r) == serving' = [serving EXCEPT ![r] = NotServing]

\* Allow, for a request that is let through: the circuit is closed ...
AllowHalfOpen(r) ==                        \* mutant: a half-open circuit lets requests in
    /\ serving[r].kind = "none"
    /\ state # "Open"
    /\ Serve(r, "normal")
    /\ UNCHANGED <<state, failures, sinceOpened, sinceFailure, sinceProbe, lost>>
AllowClosed(r) ==
    /\ serving[r].kind = "none"
    /\ state = "Closed"
    /\ Serve(r, "normal")
    /\ UNCHANGED <<state, failures, sinceOpened, sinceFailure, sinceProbe, lost>>

\* ... or it has been open for the cooldown, and this request is the probe.
AllowProbe(r) ==
    /\ serving[r].kind = "none"
    /\ state = "Open"
    /\ sinceOpened = Cooldown
    /\ state' = "HalfOpen"
    /\ lost' = FALSE
    /\ Serve(r, "probe")
    /\ sinceProbe' = 0
    /\ UNCHANGED <<failures, sinceOpened, sinceFailure>>

Allow(r) == AllowClosed(r) \/ AllowProbe(r)

\* Record of a 5xx, in whatever state the circuit is by now.
TripLate == IF failures = Threshold        \* mutant: > instead of >=
              THEN state' = "Open" /\ sinceOpened' = 0
              ELSE UNCHANGED <<state, sinceOpened>>
TripOnce == IF failures + 1 = Threshold    \* mutant: = instead of >=
              THEN state' = "Open" /\ sinceOpened' = 0
              ELSE UNCHANGED <<state, sinceOpened>>
Trip == IF failures + 1 >= Threshold
          THEN state' = "Open" /\ sinceOpened' = 0
          ELSE UNCHANGED <<state, sinceOpened>>

RecordFailure(r) ==
    /\ serving[r].kind # "none"
    /\ failures' = Older(failures, Threshold)
    /\ Trip
    /\ Done(r)
    /\ sinceFailure' = 0
    /\ lost' = (lost /\ state' = "HalfOpen")
    /\ UNCHANGED sinceProbe

\* Record of any other status.
Reset == failures' = 0
RecordSuccess(r) ==
    /\ serving[r].kind # "none"
    /\ Reset
    /\ state' = "Closed"
    /\ Done(r)
    /\ sinceProbe' = Cooldown
    /\ lost' = FALSE
    /\ UNCHANGED <<sinceOpened, sinceFailure>>

\* The handler panics: no call of Record.
Abort(r) ==
    /\ serving[r].kind # "none"
    /\ Done(r)
    /\ lost' = (lost \/ (serving[r].kind = "probe" /\ state = "HalfOpen"))
    /\ UNCHANGED <<state, failures, sinceOpened, sinceFailure, sinceProbe>>

\* The handler of a request is done by its deadline.
Tick ==
    /\ \A r \in Request : serving[r].kind # "none" => serving[r].age < Deadline
    /\ sinceOpened' = Older(sinceOpened, Cooldown)
    /\ sinceFailure' = Older(sinceFailure, Cooldown)
    /\ sinceProbe' = Older(sinceProbe, Cooldown)
    /\ serving' = [r \in Request |->
                     IF serving[r].kind = "none" THEN serving[r]
                     ELSE [serving[r] EXCEPT !.age = @ + 1]]
    /\ UNCHANGED <<state, failures, lost>>

Answer(r) == RecordFailure(r) \/ RecordSuccess(r) \/ Abort(r)

Next == Tick \/ \E r \in Request : Allow(r) \/ Answer(r)

Spec == Init /\ [][Next]_vars

\* The clock advances, every request is answered or aborted, and clients keep
\* sending requests.
FairSpec ==
    /\ Spec
    /\ WF_vars(Tick)
    /\ \A r \in Request : WF_vars(Answer(r)) /\ WF_vars(Allow(r))

-----------------------------------------------------------------------------
(* Safety *)

\* The circuit is away from Closed exactly while Threshold failures have been
\* recorded without a success in between, in whatever order the results of
\* concurrent requests arrive; so one failed probe opens it again.
TrippedIffThreshold == state # "Closed" <=> failures >= Threshold

\* Every half-open period is owned by a request that will report, unless that
\* request was aborted: HalfOpen has no other way out (breaker.go:49).
HalfOpenHasProbe ==
    state = "HalfOpen" => lost \/ \E r \in Request : serving[r].kind = "probe"

Admitted(r) == serving[r].kind = "none" /\ serving'[r].kind # "none"

\* In an outage (Threshold failures, no success since) a request reaches the
\* upstream only when the last failure and the last probe are both a whole
\* cooldown old.
OutageSparesUpstream ==
    [][\A r \in Request :
          Admitted(r) /\ failures >= Threshold =>
              sinceFailure = Cooldown /\ sinceProbe = Cooldown]_vars

(* Liveness *)

UpstreamHealthy == ~\E r \in Request : RecordFailure(r)

\* When the upstream has stopped failing the circuit closes, unless the probe
\* that would close it was aborted.
RecoversUnlessLost ==
    <>[][UpstreamHealthy]_vars => []<>(state = "Closed") \/ <>[]lost
=============================================================================
