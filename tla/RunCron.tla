--------------------------------- MODULE RunCron --------------------------------
(***************************************************************************)
(* The two cron jobs that end runs from outside: the orphan reaper         *)
(* (app/run/reaper.py) and the approval sweeper (app/run/approval.py).     *)
(* Both list candidates first and act on the list afterwards, one          *)
(* conditional update and one event per run.                               *)
(***************************************************************************)
EXTENDS RunRepository, TaskQueue, EventLog, RunSignals

VARIABLES
    rpc,                         \* the reaper's position
    rlive,                       \* runs it still suspects
    rlast,                       \* last-delivered-id as it read it
    rmark,                       \* history: length of the stream when it finished reading
    rcur,                        \* the run whose event it owes
    spc, stodo, scur             \* the same for the approval sweeper

reaperVars  == <<rpc, rlive, rlast, rmark, rcur>>
sweeperVars == <<spc, stodo, scur>>
cronVars    == <<reaperVars, sweeperVars>>

AnyRun == CHOOSE r \in Run : TRUE

CronTypeOK ==
    /\ rpc \in {"idle", "group", "holding", "waiting", "judge", "announce"}
    /\ rlive \subseteq Run
    /\ rlast \in Nat
    /\ rmark \in Nat
    /\ rcur \in Run
    /\ spc \in {"idle", "judge", "announce"}
    /\ stodo \subseteq Run
    /\ scur \in Run

CronInit ==
    /\ rpc = "idle" /\ rlive = {} /\ rlast = 0 /\ rmark = 0 /\ rcur = AnyRun
    /\ spc = "idle" /\ stodo = {} /\ scur = AnyRun

\* What a finished (or killed) pass leaves behind: nothing.
ReaperRest ==
    /\ rpc' = "idle" /\ rlive' = {} /\ rlast' = 0 /\ rmark' = 0 /\ rcur' = AnyRun

SweeperRest == spc' = "idle" /\ stodo' = {} /\ scur' = AnyRun

--------------------------------------------------------------------------------
\* orphaned(): the database first ...
ReapRows ==
    /\ rpc = "idle"
    /\ unfinished # {}
    /\ rlive' = unfinished
    /\ rpc' = "group"
    /\ UNCHANGED <<rlast, rmark, rcur, sweeperVars>>
    /\ UNCHANGED <<storeVars, queueVars, log, signalVars>>

\* ... then in_flight(): XINFO GROUPS, where a missing group means "nothing
\* is in flight", ...
ReapGroup ==
    /\ rpc = "group"
    /\ rpc' = IF grouped THEN "holding" ELSE "judge"
    /\ rlast' = delivered
    /\ rmark' = IF grouped THEN rmark ELSE Len(stream)
    /\ UNCHANGED <<rlive, rcur, sweeperVars>>
    /\ UNCHANGED <<storeVars, queueVars, log, signalVars>>

\* ... the pending list, ...
ReapHolding ==
    /\ rpc = "holding"
    /\ rlive' = rlive \ HoldingRun
    /\ rpc' = "waiting"
    /\ UNCHANGED <<rlast, rmark, rcur, sweeperVars>>
    /\ UNCHANGED <<storeVars, queueVars, log, signalVars>>

\* ... and the entries after the last-delivered-id read before.
ReapWaiting ==
    /\ rpc = "waiting"
    /\ rlive' = rlive \ WaitingRun(rlast)
    /\ rmark' = Len(stream)
    /\ rpc' = "judge"
    /\ UNCHANGED <<rlast, rcur, sweeperVars>>
    /\ UNCHANGED <<storeVars, queueVars, log, signalVars>>

\* sweep(): fail one orphan, announce it if the update took effect.
ReapJudge(r) ==
    /\ rpc = "judge"
    /\ r \in rlive
    /\ fail(r)
    /\ rlive' = rlive \ {r}
    /\ IF CanTransit(r) THEN rpc' = "announce" /\ rcur' = r ELSE UNCHANGED <<rpc, rcur>>
    /\ UNCHANGED <<rlast, rmark, sweeperVars>>
    /\ UNCHANGED <<queueVars, log, signalVars>>

ReapAnnounce ==
    /\ rpc = "announce"
    /\ append(rcur, Plain("run.failed"))
    /\ rpc' = "judge"
    /\ rcur' = AnyRun
    /\ UNCHANGED <<rlive, rlast, rmark, sweeperVars>>
    /\ UNCHANGED <<storeVars, queueVars, signalVars>>

ReapDone ==
    /\ rpc = "judge"
    /\ rlive = {}
    /\ ReaperRest
    /\ UNCHANGED <<sweeperVars, storeVars, queueVars, log, signalVars>>

ReaperStep ==
    \/ ReapRows \/ ReapGroup \/ ReapHolding \/ ReapWaiting
    \/ (\E r \in Run : ReapJudge(r)) \/ ReapAnnounce \/ ReapDone

--------------------------------------------------------------------------------
\* approval.sweep: list what has waited too long, then cancel it.
SweepRows ==
    /\ spc = "idle"
    /\ expired # {}
    /\ stodo' = expired
    /\ spc' = "judge"
    /\ UNCHANGED <<scur, reaperVars>>
    /\ UNCHANGED <<storeVars, queueVars, log, signalVars>>

SweepJudge(r) ==
    /\ spc = "judge"
    /\ r \in stodo
    /\ cancel(r)
    /\ stodo' = stodo \ {r}
    /\ IF CanTransit(r) THEN spc' = "announce" /\ scur' = r ELSE UNCHANGED <<spc, scur>>
    /\ UNCHANGED <<reaperVars, queueVars, log, signalVars>>

SweepAnnounce ==
    /\ spc = "announce"
    /\ append(scur, Plain("run.cancelled"))
    /\ spc' = "judge"
    /\ scur' = AnyRun
    /\ UNCHANGED <<stodo, reaperVars>>
    /\ UNCHANGED <<storeVars, queueVars, signalVars>>

SweepDone ==
    /\ spc = "judge"
    /\ stodo = {}
    /\ SweeperRest
    /\ UNCHANGED <<reaperVars, storeVars, queueVars, log, signalVars>>

SweeperStep ==
    \/ SweepRows \/ (\E r \in Run : SweepJudge(r)) \/ SweepAnnounce \/ SweepDone

\* A cron process is killed, or a store call of it fails, in mid-pass.
CronDies ==
    /\ \/ rpc # "idle" /\ ReaperRest /\ UNCHANGED sweeperVars
       \/ spc # "idle" /\ SweeperRest /\ UNCHANGED reaperVars
    /\ UNCHANGED <<storeVars, queueVars, log, signalVars>>
================================================================================
