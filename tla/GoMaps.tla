------------------------------- MODULE GoMaps -------------------------------
(***************************************************************************)
(* Go maps as functions with a finite domain.  The proxy keeps every table *)
(* (tokens, refresh tokens, clients, codes, sessions ...) in a map that is *)
(* read and written under a lock; a critical section is a TLA+ step and a  *)
(* map operation is one of the operators below.                            *)
(***************************************************************************)
EXTENDS Functions

\* make(map[K]V)
EmptyMap == [k \in {} |-> k]

\* m[k] = v
Put(m, k, v) == [x \in DOMAIN m \cup {k} |-> IF x = k THEN v ELSE m[x]]

\* delete(m, k) for every k in K; deleting an absent key is a no-op
Drop(m, K) == Restrict(m, DOMAIN m \ K)

\* v, ok := m[k]; if !ok { v = default }
Get(m, k, default) == IF k \in DOMAIN m THEN m[k] ELSE default
=============================================================================
