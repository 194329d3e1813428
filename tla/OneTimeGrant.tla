---------------------------- MODULE OneTimeGrant ----------------------------
(***************************************************************************)
(* What every one-time credential of the proxy promises: an authorization  *)
(* code, a device code, a backchannel request, a pushed request or a       *)
(* refresh token is issued, possibly waits for the user, is claimed by at  *)
(* most one request, and is then spent or void for good.  The modules of   *)
(* the single flows are shown to implement this specification.             *)
(***************************************************************************)
CONSTANT Grant
VARIABLE phase

Phase == {"unissued", "pending", "ready", "claimed", "spent", "void"}

Step == {<<"unissued", "pending">>,   \* waits for the user
         <<"unissued", "ready">>,
         <<"pending", "ready">>,      \* approved
         <<"pending", "void">>,       \* denied or expired
         <<"ready", "claimed">>,      \* one request takes it
         <<"ready", "void">>,         \* expired, denied, revoked
         <<"claimed", "spent">>,      \* what it was for has been issued
         <<"claimed", "void">>}       \* the request that took it was refused

Init == phase = [g \in Grant |-> "unissued"]

\* Time passing can void several grants at once.
Next ==
    /\ phase' \in [Grant -> Phase]
    /\ \A g \in Grant : phase'[g] = phase[g] \/ <<phase[g], phase'[g]>> \in Step

Spec == Init /\ [][Next]_phase
=============================================================================
