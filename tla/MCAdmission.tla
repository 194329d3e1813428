----------------------------- MODULE MCAdmission ----------------------------
(* Instances of Admission for model checking. *)
EXTENDS Admission, TLC

ProcsAndItems == Permutations(Proc) \cup Permutations(Item)

\* Policies of tenants: a permit, a forbid with two exceptions of which one
\* stops at its "in", and a text that does not parse.
Read == <<[field |-> "scope", op |-> "contains", value |-> "read"]>>
Listed == <<[field |-> "action", op |-> "in", value |-> {"GET"}],
            [field |-> "sub", op |-> "==", value |-> "bob"]>>
NotAmy == <<[field |-> "sub", op |-> "!=", value |-> "amy"]>>
Clause(kw, conds) == [kind |-> kw, wellFormed |-> TRUE, conds |-> conds]

ReadLogs == [effect |-> "permit", targets |-> <<"*", "GET", "logs-*">>,
             clauses |-> <<Clause("when", Read)>>]
NoLogs == [effect |-> "forbid", targets |-> <<"*", "*", "logs-1">>,
           clauses |-> <<Clause("unless", Listed), Clause("unless", NotAmy)>>]
Garbled == [effect |-> "allow", targets |-> <<"*", "*", "*">>, clauses |-> <<>>]

\* Two configurations of one tenant: with a mapping and policies, and without.
Tenant(m, ps) == [t \in {"t"} |-> [mapping |-> m, policies |-> ps]]
Role(r) == [s \in {"read"} |-> {r}]
TwoConfigs ==
    {[mapping |-> Role("r1"), tenants |-> Tenant(Role("r2"), <<NoLogs, Garbled, ReadLogs>>)],
     [mapping |-> Role("r3"), tenants |-> Tenant([s \in {} |-> {}], <<Garbled>>)]}

\* A request of the tenant, and one of another issuer for the guarded index.
TwoRequests ==
    {[issuer |-> "t", sub |-> "amy", scope |-> "read", action |-> "GET", index |-> "logs-1",
      scopes |-> {"read"}],
     [issuer |-> "u", sub |-> "bob", scope |-> "read", action |-> "GET", index |-> "sec",
      scopes |-> {"read"}]}

\* main's two policies; the admin API adds a forbid, a permit or what is neither.
Rule(id, effect, resource, when) ==
    [id |-> id, effect |-> effect, principal |-> [kind |-> "any"], action |-> [kind |-> "any"],
     resource |-> resource, when |-> when, unless |-> <<>>]
Sec == [kind |-> "equals", value |-> "sec"]
BuiltIn == <<Rule("default-permit", "permit", [kind |-> "any"], <<>>),
             Rule("forbid-security-index", "forbid", Sec, <<>>)>>
ThreeExtras == {BuiltIn[2], Rule("x", "permit", Sec, Listed), Rule("x", "deny", Sec, <<>>)}
OneInput == {[id |-> "x", effect |-> "permit", resource |-> "sec"]}
OneDeclared == {<<"x", [effect |-> "forbid", targets |-> <<"*", "*", "sec">>, clauses |-> <<>>]>>}
LogsGlob == {<<"logs-*", "logs-1">>}
ReadInRead == {<<"read", "read">>}

\* One scope or two have a limit; 2 requests a minute, and 1 for "admin".
TwoLimits == {[s \in {"read"} |-> 2], [s \in {"read", "admin"} |-> IF s = "read" THEN 2 ELSE 1]}
TwoLists == {<<"read">>, <<"read", "admin">>}

\* Three providers, one of which is asked where its keys are; a fourth is added.
ThreeProviders == <<"A", "B", "C">>
FourProviders == {"A", "B", "C", "D"}
OneBackup == {<<"C", "A">>}

\* The clusters of docs/architecture.md, in short.
ThreeClusters ==
    [a |-> [url |-> "a", indices |-> {"logs-a*"}], b |-> [url |-> "b", indices |-> {"logs-b*"}],
     default |-> [url |-> "d", indices |-> {"*"}]]
Globs == {<<"logs-a*", "logs-a1">>} \cup ({"*"} \X {"logs-a1", "other"})
Indices == {"logs-a1", "other", "none"}
=============================================================================
