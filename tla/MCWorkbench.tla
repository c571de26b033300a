----------------------------- MODULE MCWorkbench -----------------------------
(* One conversation and the requests of its owner. *)
EXTENDS Workbench

\* Bound: midnight, which only the quota sees, passes in the behaviours without a fault or a
\* tool call.
QuietMidnight == old = {} \/ (faults = 0 /\ \A n \in Attempt : call[n] = "idle")

================================================================================
