------------------------------ MODULE RunExecutor ------------------------------
(***************************************************************************)
(* The worker process: the reserve/execute/ack loop (app/worker/loop.py)   *)
(* and the executor it drives (app/run/executor.py).  A handler is one     *)
(* task slot of one worker.  Each step ends where the code awaits Redis,   *)
(* Postgres, the broker or the agent, so anything else may happen between  *)
(* two steps.  The agent graph (LangGraph, outside the repository) is      *)
(* reduced to what its checkpoint of a conversation records: how often a   *)
(* question was put into it, how many interrupts it raised, and which one  *)
(* is open.                                                                *)
(***************************************************************************)
EXTENDS RunRepository, TaskQueue, EventLog, RunSignals

VARIABLES
    pc,                          \* where each handler is
    job,                         \* message id in hand, 0 when idle
    task,                        \* the RunTask decoded from it
    mode,                        \* RunStart of this delivery
    steps,                       \* graph steps this delivery has taken
    seen,                        \* interrupt found by inspect(), 0 for none
    beating,                     \* the _keep_alive task is still alive
    raised,                      \* raised[t]: interrupts the graph of t has raised
    open,                        \* open[t]: the interrupt it waits on, 0 for none
    asked,                       \* asked[r]: times the question of r entered the checkpoint
    answered,                    \* pairs <<decisions were for, decisions were applied to>>
    crashes, hiccups             \* faults so far, bounded by MaxCrash and MaxHiccup

handlerVars == <<pc, job, task, mode, steps, seen, beating>>
graphVars   == <<raised, open, asked, answered>>
faultVars   == <<crashes, hiccups>>
workerVars  == <<handlerVars, graphVars, faultVars>>

\* Awaits outside the try block of _drive: an exception there reaches the main
\* loop, which logs it and acknowledges the message.
OutsideTry == {"check", "guard", "halt", "halted", "start", "restart", "started", "ready"}
\* Awaits inside it: an exception becomes _fail.
InsideTry  == {"enter", "step", "emit", "inspect", "suspend", "interrupt",
               "succeed", "finished", "stop", "cancelled"}
\* Awaits of the exception handlers themselves, and of acquire's.
Failing    == {"fail", "failed"}

HandlerPc == {"idle", "acquire", "ack"} \cup OutsideTry \cup InsideTry \cup Failing

\* The pcs at which a handler has written a terminal status and owes its event.
VerdictPc  == {"finished", "failed", "cancelled", "halted"}

NoTask == [run |-> CHOOSE r \in Run : TRUE, answer |-> 0]

HandlerTypeOK ==
    /\ pc \in [Handler -> HandlerPc]
    /\ job \in [Handler -> Nat]
    /\ task \in [Handler -> RunTask]
    /\ mode \in [Handler -> {"first", "resumed"}]
    /\ steps \in [Handler -> 0..RecursionLimit]
    /\ seen \in [Handler -> 0..MaxAsk]
    /\ beating \in [Handler -> BOOLEAN]

GraphTypeOK ==
    /\ raised \in [Thread -> 0..MaxAsk]
    /\ open \in [Thread -> 0..MaxAsk]
    /\ asked \in [Run -> Nat]
    /\ answered \subseteq (0..MaxAsk) \X (0..MaxAsk)

FaultTypeOK ==
    /\ crashes \in 0..MaxCrash
    /\ hiccups \in 0..MaxHiccup

WorkerTypeOK == HandlerTypeOK /\ GraphTypeOK /\ FaultTypeOK

WorkerInit ==
    /\ pc = [h \in Handler |-> "idle"]
    /\ job = [h \in Handler |-> 0]
    /\ task = [h \in Handler |-> NoTask]
    /\ mode = [h \in Handler |-> "first"]
    /\ steps = [h \in Handler |-> 0]
    /\ seen = [h \in Handler |-> 0]
    /\ beating = [h \in Handler |-> FALSE]
    /\ raised = [t \in Thread |-> 0]
    /\ open = [t \in Thread |-> 0]
    /\ asked = [r \in Run |-> 0]
    /\ answered = {}
    /\ crashes = 0
    /\ hiccups = 0

RunIn(h)    == task[h].run
ThreadIn(h) == ThreadOf[RunIn(h)]

At(h, p)   == pc[h] = p
Goto(h, p) == pc' = [pc EXCEPT ![h] = p]

\* Only the pc of a handler moves.
Only(h, p) ==
    /\ Goto(h, p)
    /\ UNCHANGED <<job, task, mode, steps, seen, beating>>

--------------------------------------------------------------------------------
(***************************************************************************)
(* Worker.run / _spawn: an idle slot reserves a stale or a new message.    *)
(* reserve() tries XAUTOCLAIM first, but its XREADGROUP then blocks for    *)
(* seconds, so the order of the two sources is not observable here.  A     *)
(* message is idle when no live handler keeps touching it.                 *)
(***************************************************************************)
Idle(m) == \A h \in Handler : job[h] = m => ~beating[h]

Reserve(h) ==
    /\ At(h, "idle")
    /\ \E m \in 1..Len(stream) :
        /\ ReadNew(Host(h), m) \/ Claim(Host(h), m, Idle(m))
        /\ job' = [job EXCEPT ![h] = m]
        /\ task' = [task EXCEPT ![h] = stream[m]]
    /\ mode' = [mode EXCEPT ![h] = "first"]
    /\ steps' = [steps EXCEPT ![h] = 0]
    /\ seen' = [seen EXCEPT ![h] = 0]
    /\ beating' = [beating EXCEPT ![h] = TRUE]
    /\ Goto(h, "check")
    /\ UNCHANGED <<storeVars, log, signalVars, graphVars, faultVars>>

\* _drive: is somebody cancelling it?  Is the conversation still there?
CheckCancel(h) ==
    /\ At(h, "check")
    /\ Only(h, IF is_raised(RunIn(h)) THEN "halt" ELSE "guard")
    /\ UNCHANGED <<storeVars, queueVars, log, signalVars, graphVars, faultVars>>

CheckThread(h) ==
    /\ At(h, "guard")
    /\ Only(h, IF active(ThreadIn(h)) THEN "start" ELSE "halt")
    /\ UNCHANGED <<storeVars, queueVars, log, signalVars, graphVars, faultVars>>

\* repository.start(): two conditional updates, one after the other.
StartFirst(h) ==
    /\ At(h, "start")
    /\ startFirst(RunIn(h))
    /\ Only(h, IF status[RunIn(h)] = "queued" THEN "started" ELSE "restart")
    /\ UNCHANGED <<queueVars, log, signalVars, graphVars, faultVars>>

StartResumed(h) ==
    /\ At(h, "restart")
    /\ startResumed(RunIn(h))
    /\ Goto(h, IF status[RunIn(h)] \in RESUMABLE_STATUS THEN "started" ELSE "ack")
    /\ mode' = [mode EXCEPT ![h] = "resumed"]
    /\ UNCHANGED <<job, task, steps, seen, beating>>
    /\ UNCHANGED <<queueVars, log, signalVars, graphVars, faultVars>>

\* Mutant: only the row says whether this is the first start.
EmitStartedByRow(h) ==
    /\ At(h, "started")
    /\ append(RunIn(h), RunStarted(mode[h] = "resumed"))
    /\ Only(h, "acquire")
    /\ UNCHANGED <<storeVars, queueVars, signalVars, graphVars, faultVars>>

EmitStarted(h) ==
    /\ At(h, "started")
    /\ append(RunIn(h), RunStarted(task[h].answer # 0 \/ mode[h] = "resumed"))
    /\ Only(h, "acquire")
    /\ UNCHANGED <<storeVars, queueVars, signalVars, graphVars, faultVars>>

\* _acquire: the broker hands out a sandbox, or refuses or times out.
Acquire(h) ==
    /\ At(h, "acquire")
    /\ \E p \in {"ready", "fail"} : Only(h, p)
    /\ UNCHANGED <<storeVars, queueVars, log, signalVars, graphVars, faultVars>>

EmitReady(h) ==
    /\ At(h, "ready")
    /\ append(RunIn(h), Plain("sandbox.ready"))
    /\ Only(h, "enter")
    /\ UNCHANGED <<storeVars, queueVars, signalVars, graphVars, faultVars>>

--------------------------------------------------------------------------------
\* Mutant: a resumed run carries the question too.
EnterGraphAsking(h) ==
    LET r == RunIn(h)
        t == ThreadIn(h)
        k == task[h].answer
    IN  /\ At(h, "enter")
        /\ Only(h, "step")
        /\ asked' = [asked EXCEPT ![r] = @ + 1]
        /\ answered' = IF k # 0 /\ open[t] # 0
                         THEN answered \cup {<<k, open[t]>>} ELSE answered
        /\ open' = [open EXCEPT ![t] = 0]
        /\ UNCHANGED raised
        /\ UNCHANGED <<storeVars, queueVars, log, signalVars, faultVars>>

(***************************************************************************)
(* _start: without decisions the question is put into the conversation,    *)
(* as new input that supersedes an open interrupt; with decisions whatever *)
(* interrupt is open now is resumed with them.                             *)
(***************************************************************************)
EnterGraph(h) ==
    LET r == RunIn(h)
        t == ThreadIn(h)
        k == task[h].answer
    IN  /\ At(h, "enter")
        /\ Only(h, "step")
        /\ asked' = IF k = 0 THEN [asked EXCEPT ![r] = @ + 1] ELSE asked
        /\ answered' = IF k # 0 /\ open[t] # 0
                         THEN answered \cup {<<k, open[t]>>} ELSE answered
        /\ open' = [open EXCEPT ![t] = 0]
        /\ UNCHANGED raised
        /\ UNCHANGED <<storeVars, queueVars, log, signalVars, faultVars>>

\* Mutant: no recursion limit.
GraphStepEndless(h) ==
    /\ At(h, "step")
    /\ steps' = [steps EXCEPT ![h] = @ + 1]
    /\ Goto(h, IF is_raised(RunIn(h)) THEN "stop" ELSE "emit")
    /\ UNCHANGED <<job, task, mode, seen, beating>>
    /\ UNCHANGED <<storeVars, queueVars, log, signalVars, graphVars, faultVars>>

\* One `updates` chunk: a step boundary, the only place where the cancel flag is read.  A
\* chunk that maps to no event and finds no flag changes nothing and is left out.
GraphStep(h) ==
    /\ At(h, "step")
    /\ steps[h] < RecursionLimit
    /\ steps' = [steps EXCEPT ![h] = @ + 1]
    /\ Goto(h, IF is_raised(RunIn(h)) THEN "stop" ELSE "emit")
    /\ UNCHANGED <<job, task, mode, seen, beating>>
    /\ UNCHANGED <<storeVars, queueVars, log, signalVars, graphVars, faultVars>>

\* The first event of that chunk.
EmitProgress(h) ==
    /\ At(h, "emit")
    /\ append(RunIn(h), Plain("progress"))
    /\ Only(h, "step")
    /\ UNCHANGED <<storeVars, queueVars, signalVars, graphVars, faultVars>>

\* A further event of it, or the event of a `messages` chunk: no flag is read, so any
\* number of them follows until the next boundary.
EmitToken(h) ==
    /\ At(h, "step")
    /\ Cardinality(Tokens(RunIn(h))) < MaxToken
    /\ append(RunIn(h), Plain("token"))
    /\ Only(h, "step")
    /\ UNCHANGED <<storeVars, queueVars, signalVars, graphVars, faultVars>>

\* The stream ends because the answer is complete, or because the graph
\* stopped on a tool call that needs the teacher.
GraphEnds(h) ==
    LET t == ThreadIn(h)
    IN  /\ At(h, "step")
        /\ Only(h, "inspect")
        /\ \/ UNCHANGED <<raised, open>>
           \/ /\ raised[t] < MaxAsk
              /\ raised' = [raised EXCEPT ![t] = @ + 1]
              /\ open' = [open EXCEPT ![t] = raised[t] + 1]
        /\ UNCHANGED <<asked, answered>>
        /\ UNCHANGED <<storeVars, queueVars, log, signalVars, faultVars>>

\* Model disconnects, tool errors, the recursion limit: the except branches.
GraphRaises(h) ==
    /\ At(h, "step")
    /\ Only(h, "fail")
    /\ UNCHANGED <<storeVars, queueVars, log, signalVars, graphVars, faultVars>>

\* agent.inspect: the open interrupt is read from the checkpoint.
Inspect(h) ==
    /\ At(h, "inspect")
    /\ seen' = [seen EXCEPT ![h] = open[ThreadIn(h)]]
    /\ Goto(h, IF open[ThreadIn(h)] # 0 THEN "suspend" ELSE "succeed")
    /\ UNCHANGED <<job, task, mode, steps, beating>>
    /\ UNCHANGED <<storeVars, queueVars, log, signalVars, graphVars, faultVars>>

--------------------------------------------------------------------------------
(***************************************************************************)
(* The status is written first and the event only if the write took        *)
(* effect: _suspend, the end of _consume, _fail and _stop.                 *)
(***************************************************************************)
Settle(h, from, to, update) ==
    /\ At(h, from)
    /\ update
    /\ Only(h, IF CanTransit(RunIn(h)) THEN to ELSE "ack")
    /\ UNCHANGED <<queueVars, log, signalVars, graphVars, faultVars>>

Suspend(h) == Settle(h, "suspend", "interrupt", wait_approval(RunIn(h)))
Succeed(h) == Settle(h, "succeed", "finished", succeed(RunIn(h)))
Fail(h)    == Settle(h, "fail", "failed", fail(RunIn(h)))
Stop(h)    == Settle(h, "stop", "cancelled", cancel(RunIn(h)))
Halt(h)    == Settle(h, "halt", "halted", cancel(RunIn(h)))

EmitInterrupt(h) ==
    /\ At(h, "interrupt")
    /\ append(RunIn(h), Interrupt(seen[h]))
    /\ Only(h, "ack")
    /\ UNCHANGED <<storeVars, queueVars, signalVars, graphVars, faultVars>>

VerdictOf(p) ==
    IF p = "finished" THEN "run.finished" ELSE
    IF p = "failed"   THEN "run.failed"   ELSE "run.cancelled"

EmitVerdict(h) ==
    /\ pc[h] \in VerdictPc
    /\ append(RunIn(h), Plain(VerdictOf(pc[h])))
    /\ Only(h, "ack")
    /\ UNCHANGED <<storeVars, queueVars, signalVars, graphVars, faultVars>>

\* _handle's finally: a heartbeat that died raises again when it is awaited,
\* so the XACK after it is skipped and the message stays in _held.
Finish(h) ==
    /\ At(h, "ack")
    /\ IF beating[h] THEN ack(Host(h), job[h]) ELSE UNCHANGED queueVars
    /\ job' = [job EXCEPT ![h] = 0]
    /\ task' = [task EXCEPT ![h] = NoTask]
    /\ mode' = [mode EXCEPT ![h] = "first"]
    /\ steps' = [steps EXCEPT ![h] = 0]
    /\ seen' = [seen EXCEPT ![h] = 0]
    /\ beating' = [beating EXCEPT ![h] = FALSE]
    /\ Goto(h, "idle")
    /\ UNCHANGED <<storeVars, log, signalVars, graphVars, faultVars>>

HandlerStep(h) ==
    \/ Reserve(h) \/ CheckCancel(h) \/ CheckThread(h)
    \/ StartFirst(h) \/ StartResumed(h) \/ EmitStarted(h)
    \/ Acquire(h) \/ EmitReady(h) \/ EnterGraph(h)
    \/ GraphStep(h) \/ EmitProgress(h) \/ EmitToken(h) \/ GraphEnds(h) \/ GraphRaises(h)
    \/ Inspect(h) \/ Suspend(h) \/ EmitInterrupt(h)
    \/ Succeed(h) \/ Fail(h) \/ Stop(h) \/ Halt(h) \/ EmitVerdict(h)
    \/ Finish(h)

--------------------------------------------------------------------------------
(***************************************************************************)
(* Faults.                                                                 *)
(***************************************************************************)
\* A Redis or Postgres call fails without effect.
Hiccup(h) ==
    /\ hiccups < MaxHiccup
    /\ hiccups' = hiccups + 1
    /\ pc[h] \in OutsideTry \cup InsideTry \cup Failing
    /\ Only(h, IF pc[h] \in InsideTry THEN "fail" ELSE "ack")
    /\ UNCHANGED crashes
    /\ UNCHANGED <<storeVars, queueVars, log, signalVars, graphVars>>

\* touch() raises once and ends the _keep_alive task: from here on nothing renews
\* the message.
BeatStops(h) ==
    /\ hiccups < MaxHiccup
    /\ hiccups' = hiccups + 1
    /\ beating[h]
    /\ beating' = [beating EXCEPT ![h] = FALSE]
    /\ UNCHANGED <<pc, job, task, mode, steps, seen, crashes>>
    /\ UNCHANGED <<storeVars, queueVars, log, signalVars, graphVars>>

\* kill -9, OOM or the watchdog's os._exit: every handler of w is gone and the
\* process comes back empty.
Crash(w) ==
    LET back(f, value) == [h \in Handler |-> IF Host(h) = w THEN value ELSE f[h]]
    IN  /\ crashes < MaxCrash
        /\ crashes' = crashes + 1
        /\ \E h \in Handler : Host(h) = w /\ pc[h] # "idle"
        /\ pc' = back(pc, "idle")
        /\ job' = back(job, 0)
        /\ task' = back(task, NoTask)
        /\ mode' = back(mode, "first")
        /\ steps' = back(steps, 0)
        /\ seen' = back(seen, 0)
        /\ beating' = back(beating, FALSE)
        /\ ForgetHeld(w)
        /\ UNCHANGED hiccups
        /\ UNCHANGED <<storeVars, log, signalVars, graphVars>>

\* Worker.run calls ensure_group before its first reserve.
Boot ==
    /\ ensure_group
    /\ UNCHANGED <<storeVars, log, signalVars, workerVars>>
================================================================================
