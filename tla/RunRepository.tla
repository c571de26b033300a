----------------------------- MODULE RunRepository -----------------------------
(***************************************************************************)
(* The `runs` table (app/run/repository.py).  Every write is one UPDATE    *)
(* whose WHERE clause names the statuses it may leave, so each operator    *)
(* below is one atomic compare-and-set; the boolean the code returns is    *)
(* the test "status[r] was in that set", which the callers repeat to       *)
(* choose their next step.                                                 *)
(*                                                                         *)
(* Token counters, error text and the configuration snapshot are columns   *)
(* no property tells apart and are left out.  started_at is abstracted to  *)
(* the two thresholds the crons compare it with.                           *)
(***************************************************************************)
EXTENDS Platform

VARIABLES
    status,                      \* runs.status, "absent" before the row exists
    age                          \* 0 fresh, 1 past the reaper's grace, 2 past the approval timeout

storeVars == <<status, age>>

UNFINISHED_STATUS  == {"queued", "running"}
CANCELLABLE_STATUS == {"queued", "running", "waiting_approval"}
RESUMABLE_STATUS   == {"running", "waiting_approval"}
TERMINAL_STATUS    == {"succeeded", "failed", "cancelled"}
RowStatus          == {"absent"} \cup CANCELLABLE_STATUS \cup TERMINAL_STATUS

StoreTypeOK ==
    /\ status \in [Run -> RowStatus]
    /\ age \in [Run -> 0..2]

StoreInit ==
    /\ status = [r \in Run |-> "absent"]
    /\ age = [r \in Run |-> 0]

(***************************************************************************)
(* _transit_from: change the status only if it is in `allowed` now.        *)
(***************************************************************************)
TransitFrom(r, allowed, to) ==
    /\ status' = IF status[r] \in allowed THEN [status EXCEPT ![r] = to] ELSE status
    /\ UNCHANGED age

\* _transit: the version that leaves terminal rows alone.
\* Mutant: an UPDATE without the status condition.
TransitAnyRow(r, to) == TransitFrom(r, RowStatus, to)

Transit(r, to) == TransitFrom(r, CANCELLABLE_STATUS, to)

\* The boolean _transit returns.  Mutant: the caller does not look at it.
AnyTransit(r) == status[r] # "absent"

CanTransit(r) == status[r] \in CANCELLABLE_STATUS

create(r) ==
    /\ status[r] = "absent"
    /\ status' = [status EXCEPT ![r] = "queued"]
    /\ UNCHANGED age

\* start() is two statements, hence two steps of its caller.
startFirst(r)   == TransitFrom(r, {"queued"}, "running")
startResumed(r) == TransitFrom(r, RESUMABLE_STATUS, "running")

succeed(r)       == Transit(r, "succeeded")
fail(r)          == Transit(r, "failed")
cancel(r)        == Transit(r, "cancelled")
wait_approval(r) == Transit(r, "waiting_approval")

\* Mutant: resume() written with _transit.
resumeAnyRow(r) == TransitFrom(r, RowStatus \ {"absent"}, "queued")

resume(r) == TransitFrom(r, {"waiting_approval"}, "queued")

\* Mutant: the reaper's query forgets the runs that never started.
unfinishedRunning == {r \in Run : status[r] = "running" /\ age[r] >= 1}

\* unfinished(started_before = now - grace), the reaper's query.
unfinished == {r \in Run : status[r] \in UNFINISHED_STATUS /\ age[r] >= 1}

\* approval.expired(), the approval sweeper's query.
expired == {r \in Run : status[r] = "waiting_approval" /\ age[r] = 2}

\* Wall-clock time passes one of the thresholds started_at is compared with.
GrowOlder(r) ==
    /\ status[r] # "absent"
    /\ age[r] < 2
    /\ age' = [age EXCEPT ![r] = @ + 1]
    /\ UNCHANGED status
================================================================================
