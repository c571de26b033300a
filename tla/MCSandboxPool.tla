------------------------------ MODULE MCSandboxPool ------------------------------
(***************************************************************************)
(* Instances of SandboxPool for TLC.                                       *)
(***************************************************************************)
EXTENDS SandboxPool, TLC

CONSTANTS r1, r2, r3, r4, t1, t2, t3

\* The first two runs share a conversation, the others have their own.
Shared == [r \in Run |-> IF r \in {r1, r2} THEN t1 ELSE IF r = r3 THEN t2 ELSE t3]

\* The last two runs and their conversations are interchangeable.
Swapped ==
    {f \in Permutations({r3, r4, t2, t3}) :
        {f[r3], f[r4]} = {r3, r4} /\ (f[r3] = r4 <=> f[t2] = t3)}

================================================================================
