--------------------------- MODULE AWSCredentials ---------------------------
(***************************************************************************)
(* The credentials of the SigV4 transport (internal/sigv4/transport.go):   *)
(* any request that finds none, or some that expire soon, fetches new ones *)
(* from the container's service and writes them field by field; requests   *)
(* read the fields one after the other.  There is no lock.  The n-th set   *)
(* of credentials is n; the token, the secret and the access key of a set  *)
(* are told apart by it.                                                   *)
(***************************************************************************)
EXTENDS UpkeepParameters, FiniteSets, GoMaps

VARIABLES
    issued,       \* set -> when it expires; the service gives the last one
    fields,       \* Transport: AccessKey, SecretKey and Token -> set
    credsExp,     \* Transport.credsExp
    req,          \* requests in progress
    crossed,      \* history: two refreshes wrote different sets at once
    now

vars == <<issued, fields, credsExp, req, crossed, now>>

Empty == 0
Field == {"AccessKey", "SecretKey", "Token"}
Idle == [pc |-> "idle"]

TypeOK ==
    /\ Len(issued) \in 1 .. MaxIssues
    /\ fields \in [Field -> 0 .. Len(issued)]
    /\ credsExp \in 0 .. MaxUpkeepTime + CredLife
    /\ \A p \in Proc : req[p].pc \in {"idle", "get", "write", "sign", "sent"}

\* New, in a container: the first set is there before any request.
Init ==
    /\ issued = <<CredLife>>
    /\ fields = [f \in Field |-> 1] /\ credsExp = CredLife
    /\ req = [p \in Proc |-> Idle]
    /\ crossed = FALSE /\ now = 0

-----------------------------------------------------------------------------
Writing(r) == {q \in Proc : r[q].pc = "write"}

\* The signature of a request reads the fields while others may write them.
ToSign(p, failed, since) ==
    [pc |-> "sign", read |-> EmptyMap, failed |-> failed, since |-> since,
     overlap |-> Writing(req) \ {p} # {}]
Overlapped(r) ==
    [q \in Proc |-> IF r[q].pc = "sign" THEN [r[q] EXCEPT !.overlap = TRUE] ELSE r[q]]

\* RoundTrip: are there credentials, and for how long?
NotYetExpired ==                               \* mutant: no buffer
    fields["AccessKey"] # Empty /\ now < credsExp
Good == fields["AccessKey"] # Empty /\ credsExp - now >= CredBuffer

RoundTrip(p) ==
    /\ req[p] = Idle
    /\ req' = [req EXCEPT ![p] = IF Good THEN ToSign(p, FALSE, now) ELSE [pc |-> "get"]]
    /\ UNCHANGED <<issued, fields, credsExp, crossed, now>>

\* refreshContainerCreds: the service's newest set, or an error page without
\* the fields, ...
Fetch(p) ==
    /\ req[p].pc = "get"
    /\ \E set \in {Len(issued), Empty} :
          /\ req' = [req EXCEPT ![p] = [pc |-> "write", set |-> set, since |-> now,
                        left |-> <<"AccessKey", "SecretKey", "Token">>]]
          /\ crossed' = (crossed \/ \E q \in Writing(req) : req[q].set # set)
    /\ UNCHANGED <<issued, fields, credsExp, now>>

\* ... or an error, after which the request goes on with what there is.
FetchFails(p) ==
    /\ req[p].pc = "get"
    /\ req' = [req EXCEPT ![p] = ToSign(p, TRUE, now)]
    /\ UNCHANGED <<issued, fields, credsExp, crossed, now>>

WriteField(p) ==
    /\ req[p].pc = "write" /\ req[p].left # <<>>
    /\ fields' = [fields EXCEPT ![Head(req[p].left)] = req[p].set]
    /\ req' = Overlapped([req EXCEPT ![p].left = Tail(@)])
    /\ UNCHANGED <<issued, credsExp, crossed, now>>

WriteExpiry(p) ==
    /\ req[p].pc = "write" /\ req[p].left = <<>>
    /\ credsExp' = IF req[p].set = Empty THEN credsExp ELSE issued[req[p].set]
    /\ req' = [Overlapped(req) EXCEPT ![p] = ToSign(p, req[p].set = Empty, req[p].since)]
    /\ UNCHANGED <<issued, fields, crossed, now>>

\* The header with the token, the signing key, the Authorization header.
Order == <<"Token", "SecretKey", "AccessKey">>

Read(p) ==
    /\ req[p].pc = "sign"
    /\ LET r == req[p]
           f == Order[Cardinality(DOMAIN r.read) + 1]
       IN req' = [req EXCEPT ![p] =
             [pc |-> IF f = "AccessKey" THEN "sent" ELSE "sign", read |-> Put(r.read, f, fields[f]),
              failed |-> r.failed, since |-> r.since, overlap |-> r.overlap]]
    /\ UNCHANGED <<issued, fields, credsExp, crossed, now>>

Done(p) ==
    /\ req[p].pc = "sent"
    /\ req' = [req EXCEPT ![p] = Idle]
    /\ UNCHANGED <<issued, fields, credsExp, crossed, now>>

\* The container's service renews the set in time.
Issue ==
    /\ Len(issued) < MaxIssues
    /\ issued' = Append(issued, now + CredLife)
    /\ UNCHANGED <<fields, credsExp, req, crossed, now>>

\* A request is signed within a tick of the answer, or of finding credentials
\* that are good; only the service may take longer.
Tick ==
    /\ now < MaxUpkeepTime
    /\ now + CredBuffer < issued[Len(issued)]
    /\ \A p \in Proc : req[p].pc \in {"write", "sign"} => req[p].since = now
    /\ \A p \in Proc : req[p].pc # "sent"
    /\ now' = now + 1
    /\ UNCHANGED <<issued, fields, credsExp, req, crossed>>

Next ==
    \/ \E p \in Proc :
          \/ RoundTrip(p) \/ Fetch(p) \/ FetchFails(p) \/ WriteField(p) \/ WriteExpiry(p)
          \/ Read(p) \/ Done(p)
    \/ Issue \/ Tick

-----------------------------------------------------------------------------
(* Properties *)

\* A request is signed with one set of credentials that has not expired,
\* unless its own refresh failed, another request wrote the fields meanwhile,
\* or two refreshes that got different sets have written them at once: these
\* leave a mixture behind that is used until it expires.
SignedWithOneSet ==
    \A p \in Proc :
        req[p].pc = "sent" /\ ~req[p].failed /\ ~req[p].overlap /\ ~crossed =>
            \E set \in DOMAIN issued :
                now < issued[set] /\ \A f \in Field : req[p].read[f] = set
=============================================================================
