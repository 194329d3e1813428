----------------------------- MODULE Forwarding ----------------------------
(***************************************************************************)
(* Sending a request upstream (cmd/proxy/main.go): the federation router   *)
(* (internal/federation/router.go) picks a cluster, and a request that it  *)
(* leaves to the engine is sent through the retrying transport             *)
(* (internal/retry/transport.go) again and again until an answer is below  *)
(* 500.  The attempts share one body: the base transport closes it after   *)
(* the first, so a later attempt of a body whose length was announced      *)
(* fails, and one of a chunked body that was read to its end is sent       *)
(* empty.  The router lists the clusters in the order of a Go map.         *)
(***************************************************************************)
EXTENDS AdmissionParameters, FiniteSetsExt, GoMaps

VARIABLES
    order,        \* Router.clusters: the names in the order they were listed
    fallback,     \* Router.fallback: a URL
    req,          \* request -> its state
    ran           \* history: request -> how often it ran upstream: [whole, empty]

router == <<order, fallback>>
vars == <<router, req, ran>>

New == [pc |-> "new"]
Body == {"none", "sized", "chunked"}
NoURL == ""

\* main lists the clusters by ranging over a map.
Listings == {s \in [1 .. Cardinality(DOMAIN Clusters) -> DOMAIN Clusters] :
                \A i, j \in DOMAIN s : s[i] = s[j] => i = j}

\* federation.New: the first cluster, or the last of those with a "*".
FallbackOf(s) ==
    LET stars == {i \in DOMAIN s : "*" \in Clusters[s[i]].indices}
    IN IF s = <<>> THEN NoURL
       ELSE Clusters[s[IF stars = {} THEN 1 ELSE Max(stars)]].url

Init ==
    /\ order \in Listings
    /\ fallback = FallbackOf(order)
    /\ req = [r \in Forwarded |-> New]
    /\ ran = [r \in Forwarded |-> [whole |-> 0, empty |-> 0]]

-----------------------------------------------------------------------------
(* Router.Route *)

Accepts(c, index) == \E x \in Clusters[c].indices : <<x, index>> \in Matching

\* Resolve: the first cluster that accepts the index.
Resolve(index) ==
    LET hits == {i \in DOMAIN order : index # NoIndex /\ Accepts(order[i], index)}
    IN IF hits = {} THEN fallback ELSE Clusters[order[Min(hits)]].url

\* Route has a proxy for every cluster but the fallback: what would go there
\* goes to the engine of the configuration instead, whatever cluster that is.
Route(r, index, body) ==
    /\ req[r] = New
    /\ LET cluster == Resolve(index)
           federated == order # <<>> /\ cluster # fallback
       IN req' = [req EXCEPT ![r] =
             [pc |-> "send", url |-> IF federated THEN cluster ELSE EngineURL,
              retries |-> IF federated THEN 0 ELSE MaxRetries,
              index |-> index, kind |-> body, left |-> IF body = "none" THEN "none" ELSE "whole",
              attempt |-> 0, answer |-> "none", expired |-> FALSE]]
    /\ UNCHANGED <<router, ran>>

-----------------------------------------------------------------------------
(* RoundTrip, one attempt after the other *)

\* What is left of a body: whole, closed, or read to its end and closed.
Rewound(r) == req[r].left                      \* mutant: the body is sent again
Spent(r) == IF req[r].kind = "none" THEN "none" ELSE "spent"
Closed(r) == IF req[r].kind = "none" THEN "none" ELSE "closed"

Another(r) == req[r].attempt < req[r].retries
Take(r, left, answer) ==
    req' = [req EXCEPT ![r] =
        [@ EXCEPT !.left = left, !.answer = answer,
                  !.pc = IF answer = "ok" \/ ~Another(r) THEN "answered" ELSE "wait"]]

\* The request never gets there, or not whole: no connection, a body that ends
\* early or cannot be read, a context that has expired.
Unsendable(r) ==
    \/ req[r].expired
    \/ req[r].left = "closed"
    \/ req[r].left = "spent" /\ req[r].kind = "sized"

Fail(r) ==
    /\ req[r].pc = "send"
    /\ Take(r, IF req[r].left = "spent" THEN "spent" ELSE Closed(r), "error")
    /\ UNCHANGED <<router, ran>>

Ran(r) == IF req[r].left = "spent" THEN [ran EXCEPT ![r].empty = @ + 1]
                                   ELSE [ran EXCEPT ![r].whole = @ + 1]

\* The upstream runs it and answers, or its answer is lost.
Run(r, answer) ==
    /\ req[r].pc = "send" /\ ~Unsendable(r)
    /\ Take(r, Spent(r), answer)
    /\ ran' = Ran(r)
    /\ UNCHANGED router

\* It answers 5xx without reading the body.
TurnAway(r) ==
    /\ req[r].pc = "send" /\ ~Unsendable(r)
    /\ Take(r, Closed(r), "5xx")
    /\ UNCHANGED <<router, ran>>

\* time.Sleep, which no deadline ends.
Retry(r) ==
    /\ req[r].pc = "wait"
    /\ req' = [req EXCEPT ![r].pc = "send", ![r].attempt = @ + 1]
    /\ UNCHANGED <<router, ran>>

\* The deadline of the timeout middleware, or the client has gone.
Expire(r) ==
    /\ req[r].pc \in {"send", "wait"} /\ ~req[r].expired
    /\ req' = [req EXCEPT ![r].expired = TRUE]
    /\ UNCHANGED <<router, ran>>

Next ==
    \E r \in Forwarded :
        \/ \E index \in Index, body \in Body : Route(r, index, body)
        \/ Fail(r) \/ \E answer \in {"ok", "5xx", "error"} : Run(r, answer)
        \/ TurnAway(r) \/ Retry(r) \/ Expire(r)

Spec == Init /\ [][Next]_vars

-----------------------------------------------------------------------------
(* Properties *)

TypeOK ==
    /\ order \in Listings
    /\ fallback \in {Clusters[c].url : c \in DOMAIN Clusters} \cup {NoURL}
    /\ \A r \in Forwarded : req[r] # New =>
          /\ req[r].pc \in {"send", "wait", "answered"}
          /\ req[r].attempt \in 0 .. req[r].retries
          /\ req[r].left \in {"none", "whole", "spent", "closed"}

\* A retry repeats what may have been done already.  A request with a body runs
\* upstream with that body at most once, however often it is sent; one whose
\* length was announced runs only once in all, and its client is told of success
\* exactly when that run succeeded.  A request without a body may run
\* MaxRetries + 1 times, one with a chunked body again without it.  A cluster of
\* the router's runs a request once.
BodyRunsOnce ==
    \A r \in Forwarded :
        req[r] # New =>
            /\ req[r].kind # "none" => ran[r].whole <= 1
            /\ req[r].kind = "sized" =>
                  ran[r].empty = 0 /\ (req[r].answer = "ok" => ran[r].whole = 1 /\ req[r].attempt = 0)
            /\ ran[r].whole + ran[r].empty <= req[r].attempt + 1
            /\ req[r].url # EngineURL => req[r].attempt = 0
=============================================================================
