---------------------------- MODULE MCGrantFlows ----------------------------
(* Instances of GrantFlows for model checking. *)
EXTENDS GrantFlows

CONSTANTS c1, c2, u1, u2, s1

\* u2 is not registered: an exchange may still present it.
OneUri == {<<c1, u1>>}

\* c2 is a public client: it pushes without a secret.
C1Only == {<<c1, s1>>}
=============================================================================
