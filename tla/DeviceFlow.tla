----------------------------- MODULE DeviceFlow -----------------------------
(***************************************************************************)
(* The device authorization grant (internal/device/handler.go).  Both maps *)
(* of the handler hold pointers to the same code object, which outlives    *)
(* its entries: PollToken takes the pointer under the mutex and reads the  *)
(* object after releasing it, so each read of a field is a step of its own *)
(* and races with Approve.  The codes are deleted after the token has been *)
(* issued.                                                                 *)
(*                                                                         *)
(* The n-th RequestCode draws the device code n and the user code n.       *)
(***************************************************************************)
EXTENDS GrantParameters

VARIABLES
    object,   \* the code structs: ExpiresAt, Approved, Denied
    codes,    \* device codes in Handler.codes
    byUser,   \* user codes in Handler.byUser
    poll,     \* the PollToken requests in progress
    now,      \* the clock
    nextId,   \* the next code to be drawn
    issued    \* history: how many times the issuer was called for a code

vars == <<object, codes, byUser, poll, now, nextId, issued>>

Code == [expiresAt : Nat, approved : BOOLEAN, denied : BOOLEAN]

\* pc: the next step of PollToken on the object of device code n
Idle == [pc |-> "idle", code |-> 0]
Poll == [pc : {"denied?", "approved?", "issue", "delete"}, code : Id] \cup {Idle}

TypeOK ==
    /\ object \in [1 .. nextId - 1 -> Code]
    /\ codes \subseteq 1 .. nextId - 1
    /\ byUser \subseteq 1 .. nextId - 1
    /\ poll \in [Proc -> Poll]
    /\ now \in Nat
    /\ nextId \in 1 .. MaxGrants + 1
    /\ issued \in [Id -> Nat]

Init ==
    /\ object = <<>>
    /\ codes = {}
    /\ byUser = {}
    /\ poll = [p \in Proc |-> Idle]
    /\ now = 0
    /\ nextId = 1
    /\ issued = [n \in Id |-> 0]

-----------------------------------------------------------------------------
Expired(n) == now > object[n].expiresAt
Go(p, n, pc) == poll' = [poll EXCEPT ![p] = [pc |-> pc, code |-> n]]
Answer(p) == poll' = [poll EXCEPT ![p] = Idle]

\* randomCode
DrawCode == nextId' = nextId + 1

RequestCode ==
    /\ nextId <= MaxGrants
    /\ object' = [n \in 1 .. nextId |->
                    IF n = nextId
                      THEN [expiresAt |-> now + TTL, approved |-> FALSE, denied |-> FALSE]
                      ELSE object[n]]
    /\ codes' = codes \cup {nextId}
    /\ byUser' = byUser \cup {nextId}
    /\ DrawCode
    /\ UNCHANGED <<poll, now, issued>>

\* PollToken finds the pointer under the lock; an unknown or expired code is
\* answered at once and changes nothing.
PollToken(p, n) ==
    /\ poll[p] = Idle
    /\ n \in codes
    /\ ~Expired(n)
    /\ Go(p, n, "denied?")
    /\ UNCHANGED <<object, codes, byUser, now, nextId, issued>>

\* if c.Denied, without the lock
ReadDenied(p) ==
    /\ poll[p].pc = "denied?"
    /\ IF object[poll[p].code].denied
         THEN Answer(p)   \* access_denied
         ELSE Go(p, poll[p].code, "approved?")
    /\ UNCHANGED <<object, codes, byUser, now, nextId, issued>>

\* if !c.Approved, without the lock
ReadApproved(p) ==
    /\ poll[p].pc = "approved?"
    /\ IF object[poll[p].code].approved
         THEN Go(p, poll[p].code, "issue")
         ELSE Answer(p)   \* authorization_pending
    /\ UNCHANGED <<object, codes, byUser, now, nextId, issued>>

\* h.issuer: CreateTokenForClient of the token manager
Issue(p) ==
    /\ poll[p].pc = "issue"
    /\ issued' = [issued EXCEPT ![poll[p].code] = @ + 1]
    /\ Go(p, poll[p].code, "delete")
    /\ UNCHANGED <<object, codes, byUser, now, nextId>>

\* The second critical section of PollToken.
ForgetUserCode(gone) ==                    \* mutant: the device code stays
    byUser' = byUser \ gone /\ UNCHANGED codes
Forget(gone) == codes' = codes \ gone /\ byUser' = byUser \ gone

DeleteCode(p) ==
    /\ poll[p].pc = "delete"
    /\ Forget({poll[p].code})
    /\ Answer(p)
    /\ UNCHANGED <<object, now, nextId, issued>>

\* Approve, both answers: the flags are only ever set, and not exclusive.
Decide(n, action) ==                       \* mutant: the last answer wins
    object' = [object EXCEPT ![n].approved = (action = "approve"),
                             ![n].denied = (action = "deny")]
Mark(n, action) ==
    object' = IF action = "deny" THEN [object EXCEPT ![n].denied = TRUE]
                                 ELSE [object EXCEPT ![n].approved = TRUE]

Approve(n, action) ==
    /\ n \in byUser
    /\ Mark(n, action)
    /\ UNCHANGED <<codes, byUser, poll, now, nextId, issued>>

\* Cleanup removes expired codes.
Cleanup ==
    /\ Forget({n \in codes : Expired(n)})
    /\ UNCHANGED <<object, poll, now, nextId, issued>>

Tick ==
    /\ now < MaxTime
    /\ now' = now + 1
    /\ UNCHANGED <<object, codes, byUser, poll, nextId, issued>>

Next ==
    \/ RequestCode
    \/ \E p \in Proc :
          \/ \E n \in Id : PollToken(p, n)
          \/ ReadDenied(p) \/ ReadApproved(p) \/ Issue(p) \/ DeleteCode(p)
    \/ \E n \in Id, action \in {"approve", "deny"} : Approve(n, action)
    \/ Cleanup
    \/ Tick

Spec == Init /\ [][Next]_vars

-----------------------------------------------------------------------------
(* Properties *)

PollsAt(n, pcs) == {p \in Proc : poll[p].code = n /\ poll[p].pc \in pcs}

\* No token without an approval: whoever is about to issue, or has issued, for
\* a code did so after the user approved it.
IssueNeedsApproval ==
    \A n \in Id :
        issued[n] > 0 \/ PollsAt(n, {"issue", "delete"}) # {} => object[n].approved

\* A code that has been paid out is gone once the poll that issued returns:
\* further tokens come only from polls that overlap it.
SpentWhenQuiet ==
    \A n \in Id : issued[n] > 0 /\ PollsAt(n, {"delete"}) = {} => n \notin codes

\* A denial that no poll is past the check of is final: from then on no poll
\* gets past it, whatever the user or another tab answers later.
Refused(n) == n < nextId /\ object[n].denied /\ PollsAt(n, {"approved?", "issue"}) = {}

KeepsRefusals == \A n \in Id : Refused(n) => Refused(n)'
=============================================================================
