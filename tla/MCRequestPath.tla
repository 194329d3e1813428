---------------------------- MODULE MCRequestPath ----------------------------
(* Instances of RequestPath for model checking. *)
EXTENDS RequestPath

CONSTANTS r1, r2, t1, t2, f1, f2, c1

OneOwner == [t \in Token |-> c1]
=============================================================================
