------------------------------- MODULE MCCatalog -------------------------------
(* One author with two agents, a skill and a group that a colleague is in. *)
EXTENDS Catalog, TLC

CONSTANTS u1, u2, g1, a1, a2, k1, n1, n2, e1, e2, e3

Owners  == [p \in {a1, a2, k1} |-> u1]
Leaders == [g \in {g1} |-> u1]
Deep    == [p \in {a1, a2, k1} |-> IF p = a1 THEN 1 ELSE 2]
Called  == [p \in {a1, a2, k1} |-> IF p = a2 THEN n2 ELSE n1]

Symmetric == Permutations({e1, e2, e3})

================================================================================
