------------------------------ MODULE MCMemoryJobs ------------------------------
(* One job, two workers, two records; merging starts at two records. *)
EXTENDS MemoryJobs

CONSTANTS m1, m2

\* A model finds both, and merges the two into one or leaves them.
Answers == [extractor |-> {{m1, m2}}, consolidator |-> {{m1}, {m1, m2}}]

================================================================================
