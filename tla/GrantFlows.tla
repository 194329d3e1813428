----------------------------- MODULE GrantFlows -----------------------------
(***************************************************************************)
(* The four grants side by side, as cmd/proxy/main.go wires them: each     *)
(* handler has a mutex and maps of its own and calls the same issuer, the  *)
(* token manager.  They share no state, so a behaviour of all of them is   *)
(* an interleaving of one behaviour of each; a behaviour here runs one     *)
(* flow, chosen at the start, and leaves the other handlers as created.    *)
(***************************************************************************)
EXTENDS GrantParameters

VARIABLES
    flow,                             \* the flow this behaviour runs
    pending, codes, req,              \* pkce.Handler
    object, deviceCodes, byUser, poll,   \* device.Handler
    backchannel, issuing,             \* ciba.Handler
    pushed, resolving,                \* par.Handler
    now, nextId, issued               \* clock, ids, history: see the flows

P == INSTANCE PKCE
D == INSTANCE DeviceFlow WITH codes <- deviceCodes
C == INSTANCE CIBA WITH requests <- backchannel
R == INSTANCE PushedRequest WITH requests <- pushed, resolved <- issued

pkce == <<pending, codes, req>>
device == <<object, deviceCodes, byUser, poll>>
ciba == <<backchannel, issuing>>
par == <<pushed, resolving>>
vars == <<flow, pkce, device, ciba, par, now, nextId, issued>>

TypeOK ==
    /\ flow = "pkce" => P!TypeOK
    /\ flow = "device" => D!TypeOK
    /\ flow = "ciba" => C!TypeOK
    /\ flow = "par" => R!TypeOK

Init ==
    /\ flow \in {"pkce", "device", "ciba", "par"}
    /\ P!Init /\ D!Init /\ C!Init /\ R!Init

PKCEStep == flow = "pkce" /\ P!Next /\ UNCHANGED <<flow, device, ciba, par>>
DeviceStep == flow = "device" /\ D!Next /\ UNCHANGED <<flow, pkce, ciba, par>>
CIBAStep == flow = "ciba" /\ C!Next /\ UNCHANGED <<flow, pkce, device, par>>
PushStep == flow = "par" /\ R!Next /\ UNCHANGED <<flow, pkce, device, ciba>>

Next == PKCEStep \/ DeviceStep \/ CIBAStep \/ PushStep

Spec == Init /\ [][Next]_vars

-----------------------------------------------------------------------------
(* Properties *)

\* A token is issued only as it was authorized: with PKCE to a request that
\* presented the redirect URI and the verifier of the authorization it redeems,
\* in the device flow after an approval of the code.
IssuedAsAuthorized ==
    /\ flow = "pkce" => P!RedeemedAsAuthorized
    /\ flow = "device" => D!IssueNeedsApproval

\* Device flow: a code that was paid out is gone once the poll has returned.
SpentWhenQuiet == flow = "device" => D!SpentWhenQuiet

\* Device flow: a denial no poll is past the check of is final.
DenialIsFinal == [][flow = "device" => D!KeepsRefusals]_vars

\* The life of grant n.  A poll of a device code is not a claim of it: that
\* flow does not implement OneTimeGrant (DeviceCodeIsOneTime).
PhaseOf(n) ==
    CASE flow = "pkce" -> P!PhaseOf(n)
      [] flow = "ciba" -> C!PhaseOf(n)
      [] flow = "par" -> R!PhaseOf(n)
      [] OTHER -> "unissued"

Grants == INSTANCE OneTimeGrant WITH Grant <- Id, phase <- [n \in Id |-> PhaseOf(n)]

\* docs/oauth-flows.md: "one-time authorization codes", "one-time token
\* issuance" (CIBA), "one-time URI, 60s expiry" (PAR).  A grant is answered
\* once, a denied or expired one never becomes usable, it is redeemed once, and
\* a failed redemption spends it, however the requests interleave and although
\* PKCE and PAR look at the clock after they have given up the lock.
OneTime == Grants!Spec

\* docs/oauth-flows.md: "Device Flow | Short-lived user codes, 10-min expiry,
\* one-time use".
DeviceCodeIsOneTime == flow = "device" => \A n \in Id : issued[n] <= 1
=============================================================================
