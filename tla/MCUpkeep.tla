------------------------------ MODULE MCUpkeep ------------------------------
(* Instances of Upkeep for model checking. *)
EXTENDS Upkeep

TwoUrls == <<"u1", "u2">>
=============================================================================
