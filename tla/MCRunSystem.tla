------------------------------ MODULE MCRunSystem ------------------------------
(***************************************************************************)
(* Instances of RunSystem for TLC.                                         *)
(***************************************************************************)
EXTENDS RunSystem, TLC

\* All runs belong to the same conversation.
OneThread == [r \in Run |-> CHOOSE t \in Thread : TRUE]

\* Tokens of a run nobody cancels are not followed up: only their place after the
\* cancellation matters to a property.
TokensMatter == \A r \in Run : Tokens(r) # {} => r \in flag

Symmetric == Permutations(Worker) \cup Permutations(Slot) \cup Permutations(Client)
================================================================================
