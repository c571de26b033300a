-------------------------------- MODULE RunSystem --------------------------------
(***************************************************************************)
(* The life of a run across the platform's processes: api requests, worker *)
(* handlers and the two crons, over Postgres rows, a Redis task stream, a  *)
(* Redis event log and the cancel flag.                                    *)
(***************************************************************************)
EXTENDS RunExecutor, RunApi, RunCron, FiniteSets

vars == <<storeVars, queueVars, log, signalVars, workerVars, req, cronVars>>

TypeOK ==
    /\ StoreTypeOK /\ QueueTypeOK /\ LogTypeOK /\ SignalTypeOK
    /\ WorkerTypeOK /\ ApiTypeOK /\ CronTypeOK

Init ==
    /\ StoreInit /\ QueueInit(~FreshDeploy) /\ LogInit /\ SignalInit
    /\ WorkerInit /\ ApiInit /\ CronInit

--------------------------------------------------------------------------------
WorkerRuns(h) == HandlerStep(h) /\ UNCHANGED <<req, cronVars>>

WorkerFault ==
    /\ \/ \E h \in Handler : Hiccup(h) \/ BeatStops(h)
       \/ \E w \in Worker : Crash(w)
    /\ UNCHANGED <<req, cronVars>>

WorkerBoots == Boot /\ UNCHANGED <<req, cronVars>>

UserActs ==
    /\ \E c \in Client, r \in Run : SubmitRun(c, r) \/ RaiseFlag(c, r) \/ ReadApproval(c, r)
    /\ UNCHANGED <<workerVars, cronVars>>

UserDeletes ==
    /\ \E t \in Thread : DeleteThread(t)
    /\ UNCHANGED <<workerVars, cronVars>>

ApiRuns(c) == RequestStep(c) /\ UNCHANGED <<workerVars, cronVars>>

ReaperRuns  == ReaperStep /\ UNCHANGED <<workerVars, req>>
SweeperRuns == SweeperStep /\ UNCHANGED <<workerVars, req>>

\* A dropped request or a killed cron spends one unit of the fault budget.
OtherFault ==
    /\ hiccups < MaxHiccup
    /\ hiccups' = hiccups + 1
    /\ \/ (\E c \in Client : DropRequest(c)) /\ UNCHANGED cronVars
       \/ CronDies /\ UNCHANGED req
    /\ UNCHANGED <<handlerVars, graphVars, crashes>>

\* The grace period dwarfs the pause between create() and publish().
TimePasses ==
    /\ \E r \in Run :
        /\ \A c \in Client : ~(req[c].op = "publish" /\ req[c].run = r)
        /\ age[r] < MaxAge
        /\ GrowOlder(r)
    /\ UNCHANGED <<queueVars, log, signalVars, workerVars, req, cronVars>>

Next ==
    \/ \E h \in Handler : WorkerRuns(h)
    \/ WorkerFault
    \/ WorkerBoots
    \/ UserActs
    \/ UserDeletes
    \/ \E c \in Client : ApiRuns(c)
    \/ ReaperRuns
    \/ SweeperRuns
    \/ OtherFault
    \/ TimePasses

Spec == Init /\ [][Next]_vars

(***************************************************************************)
(* Workers, requests already accepted and the cron schedule make progress  *)
(* and time passes; users and faults owe nothing.                          *)
(***************************************************************************)
Fairness ==
    /\ \A h \in Handler : WF_vars(WorkerRuns(h))
    /\ \A c \in Client : WF_vars(ApiRuns(c))
    /\ WF_vars(WorkerBoots)
    /\ WF_vars(ReaperRuns)
    /\ WF_vars(SweeperRuns)
    /\ WF_vars(TimePasses)

FairSpec == Spec /\ Fairness

--------------------------------------------------------------------------------
(***************************************************************************)
(* Safety.                                                                 *)
(***************************************************************************)
EventOf(s) == IF s = "succeeded" THEN "run.finished" ELSE
              IF s = "failed"    THEN "run.failed"   ELSE
              IF s = "cancelled" THEN "run.cancelled" ELSE "none"

\* The processes that have written a terminal status of r and not yet its event.
Owed(r) ==
    {<<"worker", h, VerdictOf(pc[h])>> : h \in {g \in Handler : pc[g] \in VerdictPc /\ RunIn(g) = r}}
    \cup {<<"api", c, "run.cancelled">> : c \in {d \in Client : req[d].op = "announce" /\ req[d].run = r}}
    \cup (IF rpc = "announce" /\ rcur = r THEN {<<"reaper", r, "run.failed">>} ELSE {})
    \cup (IF spc = "announce" /\ scur = r THEN {<<"sweeper", r, "run.cancelled">>} ELSE {})

\* The conditional update has one winner: at most one of api, workers, reaper and sweeper
\* owes a run its terminal event, it owes the event of the status in the table, and it
\* does so only while the log has none (RunRepository._transit and all its callers).
OneDebtor == \A r \in Run : \A d, e \in Owed(r) :
    d = e /\ d[3] = EventOf(status[r]) /\ Verdicts(r) = {}

\* Everybody else stays silent: a run's log never holds two terminal events, and the one
\* it holds is the event of the status in the table, whichever process wrote it
\* (RunExecutor._stop/_fail/_consume, cancel_run, both sweeps).
OneVerdict == \A r \in Run : \A i, j \in Verdicts(r) :
    i = j /\ log[r][i].type = EventOf(status[r])

\* Some request still owes the queue a message of r.
Publishing(r) == \E c \in Client : req[c].op \in {"publish", "republish"} /\ req[c].run = r

\* As long as no store call failed and no request was dropped, an unfinished run is
\* always carried by a message that is queued or unacknowledged, or is about to be:
\* worker crashes alone, redeliveries and approvals never orphan it (ack-after-execute
\* in Worker._handle, start()'s two-step update, resume-then-resubmit in approve_run).
CarriedUnlessFault ==
    hiccups = 0 => \A r \in Run : status[r] \in UNFINISHED_STATUS => InFlight(r) \/ Publishing(r)

\* A first task puts its question into the conversation whenever it is driven, so only a
\* redelivery repeats it: at most once more per crash, failed call or lost heartbeat
\* (XAUTOCLAIM's idle test in TaskQueue._claim, RunExecutor._start).
AskedPerFault == \A r \in Run : asked[r] <= 1 + crashes + hiccups

\* Unless something failed, run.started with resumed = FALSE is the first run.started of a
\* run: an approved run never looks like a new one, which would reset what the teacher
\* already sees (RunExecutor._drive, RunRepository.start).
FreshUnlessFault == crashes + hiccups = 0 =>
    \A r \in Run : \A i, j \in 1..Len(log[r]) :
        log[r][i] = RunStarted(FALSE) /\ log[r][j].type = "run.started" => i <= j

\* in_flight() takes three reads while workers reserve and acknowledge, yet a run the
\* reaper ends up suspecting has no unacknowledged message among those it could have seen
\* (TaskQueue.in_flight reads last-delivered-id first; app/run/reaper.py orphaned).
OrphansHaveNoMessage ==
    rpc = "judge" => \A r \in rlive : \A m \in 1..rmark :
        stream[m].run = r => m <= delivered /\ m \notin pending

\* One process never drives the same message in two slots, although XAUTOCLAIM hands out
\* entries the process itself owns (TaskQueue._held).
HeldOnce == \A g, h \in Handler :
    (Host(g) = Host(h) /\ g # h /\ job[g] # 0) => job[g] # job[h]

\* After the teacher's cancellation is announced, each handler reports at most one further
\* graph step, the one it was already past the flag check of (cancel_run raises the flag
\* before it writes the status; _consume reads it at every `updates` chunk).  Nothing is said
\* of the tokens: the model call that is running streams on until the next boundary.  The
\* approval sweeper and the deleted-thread guard cancel without a flag, so their runs are
\* left out.
CancelIsPrompt == \A r \in flag : \A i \in Verdicts(r) :
    log[r][i].type = "run.cancelled" /\ age[r] < 2 /\ active(ThreadOf[r]) =>
    Cardinality({j \in (i + 1)..Len(log[r]) : log[r][j].type = "progress"}) <= Cardinality(Handler)

\* A run is cancelled only if its teacher asked for that run, its thread was deleted, or it
\* waited for an approval past the timeout: runs that share a queue, workers and even a
\* conversation do not cancel one another (run/cancel.py keys the flag by run;
\* RunExecutor._drive, approval.sweep).
CancelledForAReason == \A r \in Run :
    status[r] = "cancelled" => r \in flag \/ ~active(ThreadOf[r]) \/ age[r] = 2

\* What RunContract promises is what these processes together implement.
Contract == INSTANCE RunContract WITH
    verdict <- [r \in Run |-> {<<i, log[r][i].type>> : i \in Verdicts(r)}]

ContractSpec == Contract!Spec

(***************************************************************************)
(* Liveness.                                                               *)
(***************************************************************************)
\* Every submitted run ends: through its worker, through the reaper when a fault orphaned
\* it, or through the approval sweeper when the teacher never answers (app/run/reaper.py,
\* app/run/approval.py: no run spins for ever).
EveryRunEnds == \A r \in Run :
    status[r] # "absent" ~> status[r] \in TERMINAL_STATUS
================================================================================
