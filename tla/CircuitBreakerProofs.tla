------------------------ MODULE CircuitBreakerProofs ------------------------
(* Theorems about CircuitBreaker, for every number of requests, threshold, *)
(* cooldown and deadline.                                                  *)
EXTENDS CircuitBreaker, TLAPS

\* While the circuit is tripped, what openedAt says is what the history says:
\* the last failure was recorded when the circuit opened, and no probe has
\* been sent since unless the circuit is half-open.
OpenedByLastFailure ==
    /\ failures >= Threshold => sinceOpened = sinceFailure
    /\ state = "Open" => sinceProbe >= sinceOpened

Inv ==
    /\ TypeOK
    /\ TrippedIffThreshold
    /\ HalfOpenHasProbe
    /\ OpenedByLastFailure

\* Elapsed times stay within their limit and never decrease.
LEMMA OlderBounds ==
    ASSUME NEW limit \in Nat, NEW elapsed \in 0 .. limit
    PROVE  /\ Older(elapsed, limit) \in 0 .. limit
           /\ Older(elapsed, limit) >= elapsed
BY DEF Older

LEMMA OlderMonotone ==
    ASSUME NEW limit \in Nat, NEW a \in 0 .. limit, NEW b \in 0 .. limit, a >= b
    PROVE  Older(a, limit) >= Older(b, limit)
BY DEF Older

LEMMA InitInv == Init => Inv
<1> SUFFICES ASSUME Init PROVE Inv
  OBVIOUS
<1> USE ParameterAssumption DEF Init
<1>1. TypeOK
  <2>1. serving \in [Request -> Serving]
    BY DEF Serving, NotServing
  <2>2. lost \in BOOLEAN
    OBVIOUS
  <2>3. QED
    BY <2>1, <2>2 DEF TypeOK
<1>2. TrippedIffThreshold /\ HalfOpenHasProbe /\ OpenedByLastFailure
  BY DEF TrippedIffThreshold, HalfOpenHasProbe, OpenedByLastFailure
<1>3. QED
  BY <1>1, <1>2 DEF Inv

LEMMA TypeStep == ASSUME TypeOK, [Next]_vars PROVE TypeOK'
<1> USE ParameterAssumption DEF TypeOK, Serving
<1>1. ASSUME UNCHANGED vars PROVE TypeOK'
  BY <1>1 DEF vars
<1>2. ASSUME Tick PROVE TypeOK'
  <2>1. serving' \in [Request -> Serving]
    BY <1>2 DEF Tick
  <2>2. QED
    BY <1>2, <2>1, OlderBounds DEF Tick
<1>3. ASSUME NEW r \in Request, AllowClosed(r) PROVE TypeOK'
  BY <1>3 DEF AllowClosed, Serve
<1>4. ASSUME NEW r \in Request, AllowProbe(r) PROVE TypeOK'
  <2>1. lost' \in BOOLEAN
    BY <1>4 DEF AllowProbe
  <2>2. QED
    BY <1>4, <2>1 DEF AllowProbe, Serve
<1>5. ASSUME NEW r \in Request, RecordFailure(r) PROVE TypeOK'
  <2>1. failures' \in 0 .. Threshold
    BY <1>5, OlderBounds DEF RecordFailure
  <2>2. state' \in {"Closed", "Open", "HalfOpen"} /\ sinceOpened' \in 0 .. Cooldown
    BY <1>5 DEF RecordFailure, Trip
  <2>3. QED
    BY <1>5, <2>1, <2>2 DEF RecordFailure, Done, NotServing
<1>6. ASSUME NEW r \in Request, RecordSuccess(r) PROVE TypeOK'
  <2>1. lost' \in BOOLEAN
    BY <1>6 DEF RecordSuccess
  <2>2. QED
    BY <1>6, <2>1 DEF RecordSuccess, Reset, Done, NotServing
<1>7. ASSUME NEW r \in Request, Abort(r) PROVE TypeOK'
  BY <1>7 DEF Abort, Done, NotServing
<1>8. QED
  BY <1>1, <1>2, <1>3, <1>4, <1>5, <1>6, <1>7 DEF Next, Allow, Answer

LEMMA InvStep == ASSUME Inv, [Next]_vars PROVE Inv'
<1> USE ParameterAssumption DEF Inv
<1>0. TypeOK'
  BY TypeStep
<1> USE DEF TypeOK, TrippedIffThreshold, HalfOpenHasProbe, OpenedByLastFailure, Serving
<1>1. ASSUME UNCHANGED vars PROVE Inv'
  BY <1>0, <1>1 DEF vars
<1>2. ASSUME Tick PROVE Inv'
  <2>1. OpenedByLastFailure'
    <3>1. failures' >= Threshold => sinceOpened' = sinceFailure'
      BY <1>2 DEF Tick
    <3>2. state' = "Open" => sinceProbe' >= sinceOpened'
      BY <1>2, OlderMonotone DEF Tick
    <3>3. QED
      BY <3>1, <3>2
  <2>2. HalfOpenHasProbe'
    <3>1. \A r \in Request : serving'[r].kind = serving[r].kind
      BY <1>2 DEF Tick
    <3>2. QED
      BY <1>2, <3>1 DEF Tick
  <2>3. TrippedIffThreshold'
    BY <1>2 DEF Tick
  <2>4. QED
    BY <1>0, <2>1, <2>2, <2>3
<1>3. ASSUME NEW r \in Request, AllowClosed(r) PROVE Inv'
  BY <1>0, <1>3 DEF AllowClosed, Serve
<1>4. ASSUME NEW r \in Request, AllowProbe(r) PROVE Inv'
  BY <1>0, <1>4 DEF AllowProbe, Serve
<1>5. ASSUME NEW r \in Request, RecordFailure(r) PROVE Inv'
  <2>1. TrippedIffThreshold'
    BY <1>5 DEF RecordFailure, Trip, Older
  <2>2. OpenedByLastFailure'
    BY <1>5 DEF RecordFailure, Trip, Older
  <2>3. state' # "HalfOpen"
    BY <1>5 DEF RecordFailure, Trip
  <2>4. QED
    BY <1>0, <2>1, <2>2, <2>3
<1>6. ASSUME NEW r \in Request, RecordSuccess(r) PROVE Inv'
  BY <1>0, <1>6 DEF RecordSuccess, Reset, Done
<1>7. ASSUME NEW r \in Request, Abort(r) PROVE Inv'
  <2>1. HalfOpenHasProbe'
    <3>1. SUFFICES ASSUME state = "HalfOpen", ~lost, serving[r].kind # "probe"
                   PROVE  \E s \in Request : serving'[s].kind = "probe"
      BY <1>7 DEF Abort
    <3>2. PICK s \in Request : serving[s].kind = "probe"
      BY <3>1
    <3>3. serving'[s] = serving[s]
      BY <1>7, <3>1, <3>2 DEF Abort, Done
    <3>4. QED
      BY <3>2, <3>3
  <2>2. QED
    BY <1>0, <1>7, <2>1 DEF Abort
<1>8. QED
  BY <1>1, <1>2, <1>3, <1>4, <1>5, <1>6, <1>7 DEF Next, Allow, Answer

LEMMA Invariance == Spec => []Inv
BY InitInv, InvStep, PTL DEF Spec

\* The circuit is tripped exactly while Threshold failures have been recorded
\* with no success in between (Record), for any number of concurrent requests.
THEOREM Tripped == Spec => []TrippedIffThreshold
BY Invariance, PTL DEF Inv

\* A half-open circuit has a request that will report on it, unless that
\* request was aborted (Allow, Record).
THEOREM HalfOpenIsOwned == Spec => []HalfOpenHasProbe
BY Invariance, PTL DEF Inv

\* In an outage the upstream sees at most one request per cooldown (Allow).
THEOREM OutageIsSpared == Spec => OutageSparesUpstream
<1>1. ASSUME Inv, [Next]_vars, NEW r \in Request, Admitted(r), failures >= Threshold
      PROVE  sinceFailure = Cooldown /\ sinceProbe = Cooldown
  <2> USE ParameterAssumption DEF Inv, TypeOK, Admitted, Serving
  <2>1. state # "Closed"
    BY <1>1 DEF TrippedIffThreshold
  <2>2. ASSUME AllowProbe(r) PROVE sinceFailure = Cooldown /\ sinceProbe = Cooldown
    BY <1>1, <2>2 DEF AllowProbe, OpenedByLastFailure
  <2>3. ASSUME NEW s \in Request, Allow(s) PROVE s = r /\ AllowProbe(r)
    BY <1>1, <2>1, <2>3 DEF Allow, AllowClosed, AllowProbe, Serve
  <2>4. ASSUME NEW s \in Request, Answer(s) PROVE FALSE
    BY <1>1, <2>4 DEF Answer, RecordFailure, RecordSuccess, Abort, Done, NotServing
  <2>5. ~Tick /\ ~UNCHANGED vars
    BY <1>1 DEF Tick, vars
  <2>6. QED
    BY <1>1, <2>2, <2>3, <2>4, <2>5 DEF Next
<1>2. ASSUME Inv, [Next]_vars
      PROVE  [\A r \in Request : Admitted(r) /\ failures >= Threshold =>
                 sinceFailure = Cooldown /\ sinceProbe = Cooldown]_vars
  BY <1>1, <1>2
<1>3. QED
  BY <1>2, Invariance, PTL DEF Spec, OutageSparesUpstream
=============================================================================
