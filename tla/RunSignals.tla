------------------------------- MODULE RunSignals -------------------------------
(***************************************************************************)
(* What other processes leave for the executor to find: the cancel flag    *)
(* in Redis (app/run/cancel.py) and the soft-delete mark on the thread row *)
(* (ThreadRepository.delete / active).  The flag's 48 h TTL outlives every *)
(* run and nothing calls clear(), so a raised flag stays.                  *)
(***************************************************************************)
EXTENDS Platform

VARIABLES flag, deleted

signalVars == <<flag, deleted>>

SignalTypeOK ==
    /\ flag \subseteq Run
    /\ deleted \subseteq Thread

SignalInit ==
    /\ flag = {}
    /\ deleted = {}

raise_flag(r) ==
    /\ flag' = flag \cup {r}
    /\ UNCHANGED deleted

\* Mutants: nobody looks at the flag; the key does not name the run.
NeverRaised(r) == FALSE
SharedKey(r)   == flag # {}

is_raised(r) == r \in flag

SoftDelete(t) ==
    /\ deleted' = deleted \cup {t}
    /\ UNCHANGED flag

active(t) == t \notin deleted
================================================================================
