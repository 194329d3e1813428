--------------------------- MODULE MCTokenManager ---------------------------
(* Instances of TokenManager for model checking. *)
EXTENDS TokenManager, TLC

CONSTANTS c1, c2, p1, p2, s1, read, write

\* One registration throughout, or one that is replaced by one without a
\* scope restriction.
ReadOnly == {[secret |-> s1, scopes |-> {read}]}
TwoRegs == {[secret |-> s1, scopes |-> {read}], [secret |-> s1, scopes |-> {}]}

ClientProcSymmetry == Permutations(Proc) \cup Permutations(Client)
=============================================================================
