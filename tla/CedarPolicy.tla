----------------------------- MODULE CedarPolicy ----------------------------
(***************************************************************************)
(* Policies and what they say of one request (internal/cedar/engine.go).   *)
(* A request is a record of strings; a policy text is what ParsePolicy     *)
(* sees of it: an effect, the words between the parentheses and a sequence *)
(* of clauses.  Strings are compared, never taken apart: which pattern     *)
(* matches which value, and which string contains which, are parameters.   *)
(***************************************************************************)
EXTENDS AdmissionParameters

Any == [kind |-> "any"]
Equals(v) == [kind |-> "equals", value |-> v]
Pattern(v) == [kind |-> "pattern", value |-> v]

MatchesTarget(m, value) ==
    \/ m.kind = "any"
    \/ m.kind = "equals" /\ m.value = value
    \/ m.kind = "pattern" /\ <<m.value, value>> \in Glob

\* An attribute the request does not have is "".
ResolveField(field, request) == IF field \in DOMAIN request THEN request[field] ELSE ""

\* One condition.  The value of "in" is the set of the items of its list.
Holds(c, request) ==
    LET val == ResolveField(c.field, request)
    IN \/ c.op = "==" /\ val = c.value
       \/ c.op = "!=" /\ val # c.value
       \/ c.op = "contains" /\ <<c.value, val>> \in Substring
       \/ c.op = "in" /\ val \in c.value

Every(conds, request) == \A i \in DOMAIN conds : Holds(conds[i], request)

\* evalConditions: the first condition that fails decides, and so does the
\* first "in" that holds; the conditions after it are not looked at.
EvalConditions(conds, request) ==
    \A i \in DOMAIN conds :
        \/ Holds(conds[i], request)
        \/ \E j \in DOMAIN conds : j < i /\ conds[j].op = "in" /\ Holds(conds[j], request)

Targets(p, request) ==
    /\ MatchesTarget(p.principal, request.sub)
    /\ MatchesTarget(p.action, request.action)
    /\ MatchesTarget(p.resource, request.index)

\* What the loop of Evaluate tests before it looks at the effect.
Applies(p, request) ==
    /\ Targets(p, request)
    /\ EvalConditions(p.when, request)
    /\ ~(p.unless # <<>> /\ EvalConditions(p.unless, request))

-----------------------------------------------------------------------------
(* ParsePolicy *)

ParseMatch(word) ==
    CASE word = "*" -> Any
      [] \E v \in {g[2] : g \in Glob} : <<word, v>> \in Glob -> Pattern(word)
      [] OTHER -> Equals(word)

\* Clauses are read up to the first that is neither "when" nor "unless"; that
\* one and everything after it is dropped without an error.
Read(text) ==
    SelectSeq([i \in DOMAIN text.clauses |-> [text.clauses[i] EXCEPT !.kind =
                 IF \E j \in 1 .. i : text.clauses[j].kind \notin {"when", "unless"}
                   THEN "dropped" ELSE @]],
              LAMBDA c : c.kind # "dropped")

Parses(text) ==
    /\ text.effect \in {"permit", "forbid"}
    /\ Len(text.targets) = 3
    /\ \A i \in DOMAIN Read(text) : Read(text)[i].wellFormed

\* A second clause of a kind replaces the first one.
Clause(text, kind) ==
    LET cs == SelectSeq(Read(text), LAMBDA c : c.kind = kind)
    IN IF cs = <<>> THEN <<>> ELSE cs[Len(cs)].conds

ParsePolicy(id, text) ==
    [id |-> id, effect |-> text.effect,
     principal |-> ParseMatch(text.targets[1]),
     action |-> ParseMatch(text.targets[2]),
     resource |-> ParseMatch(text.targets[3]),
     when |-> Clause(text, "when"), unless |-> Clause(text, "unless")]

-----------------------------------------------------------------------------
(* The reference: docs/cedar-guide.md, "Evaluation: Deny-Overrides" *)

\* All conditions count, in any order.
Matches(p, request) ==
    /\ Targets(p, request)
    /\ Every(p.when, request)
    /\ ~(p.unless # <<>> /\ Every(p.unless, request))

\* An effect of the guide's, and no condition behind an "in": there the code
\* reads a policy as the guide does.
NothingBehindIn(conds) == \A i, j \in DOMAIN conds : j < i => conds[j].op # "in"
Plain(p) ==
    /\ p.effect \in {"permit", "forbid"}
    /\ NothingBehindIn(p.when) /\ NothingBehindIn(p.unless)

Some(ps, request, effect) ==
    \E i \in DOMAIN ps : ps[i].effect = effect /\ Matches(ps[i], request)

Permitted(ps, request) == Some(ps, request, "permit") /\ ~Some(ps, request, "forbid")
=============================================================================
