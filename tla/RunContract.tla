------------------------------- MODULE RunContract -------------------------------
(***************************************************************************)
(* What the platform promises about one run, whoever carries it out: its   *)
(* status walks the state machine below, never leaves a terminal status,   *)
(* and at most one terminal event is ever published, for the status that   *)
(* was written, after it was written.                                      *)
(***************************************************************************)
CONSTANT Run

VARIABLES
    status,
    verdict                      \* verdict[r]: set of <<place in the log, terminal event>> of r

vars == <<status, verdict>>

Live == {"queued", "running", "waiting_approval"}
Over == {"succeeded", "failed", "cancelled"}

EventOf(s) == IF s = "succeeded" THEN "run.finished" ELSE
              IF s = "failed"    THEN "run.failed"   ELSE "run.cancelled"

Init ==
    /\ status = [r \in Run |-> "absent"]
    /\ verdict = [r \in Run |-> {}]

Move(r, from, to) ==
    /\ status[r] \in from
    /\ status' = [status EXCEPT ![r] = to]
    /\ UNCHANGED verdict

Submit(r)  == Move(r, {"absent"}, "queued")
Begin(r)   == Move(r, Live, "running")
Suspend(r) == Move(r, Live, "waiting_approval")
Requeue(r) == Move(r, {"waiting_approval"}, "queued")
Settle(r)  == \E s \in Over : Move(r, Live, s)

Announce(r) ==
    /\ status[r] \in Over
    /\ verdict[r] = {}
    /\ \E v \in verdict'[r] : /\ v[2] = EventOf(status[r])
                              /\ verdict' = [verdict EXCEPT ![r] = {v}]
    /\ UNCHANGED status

Next == \E r \in Run :
    Submit(r) \/ Begin(r) \/ Suspend(r) \/ Requeue(r) \/ Settle(r) \/ Announce(r)

Spec == Init /\ [][Next]_vars
================================================================================
