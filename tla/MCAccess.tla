------------------------------- MODULE MCAccess -------------------------------
(* The first administrator and his group, a second user and two logins. *)
EXTENDS Access, TLC

CONSTANTS u1, u2, g1

Leaders == [g \in {g1} |-> u1]

\* Bound: the owner of the group does not apply to join it when he is off its roster.
OnlyOthersApply == \A j \in JoinRequest : joins[j] # "none" => j[1] # GroupOwner[j[2]]

Symmetric == Permutations(Token) \cup Permutations(Replica)

================================================================================
