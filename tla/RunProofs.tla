------------------------------- MODULE RunProofs -------------------------------
(***************************************************************************)
(* What the queue and the workers guarantee, and how runs end, for every   *)
(* number of runs, workers, slots, requests, crashes and failed calls.     *)
(*                                                                         *)
(* First the queue: types; a process drives a message in one slot; the     *)
(* reaper suspects no run whose message is on its way; a question is asked *)
(* once more per fault at most; and without a fault a first start is the   *)
(* first announcement.  Each section adds what the one before cannot say:  *)
(* QueueInv ties a handler to its message, ReapInv dates the reaper's      *)
(* reads, TaskInv says that the first task of a run is published once,     *)
(* CreditInv keeps an account of the deliveries a first task can still     *)
(* have, and FreshInv what cannot have happened before it.                 *)
(*                                                                         *)
(* Then the verdict: at most one terminal event, and the right one;        *)
(* RunContract is implemented; a cancellation has a cause and takes effect *)
(* at once; and without a failed call no unfinished run is left without a  *)
(* message.  OneVerdict is not inductive: a process that has written a     *)
(* terminal status and not yet appended its event would be free to append  *)
(* a second one.  OneDebtor says who may append.  Both are statements      *)
(* about one run, and a step changes the status, log and debts of one run  *)
(* only, in one of three ways: nothing that matters changes; a live run    *)
(* moves, and if it ends somebody owes the event; the debtor pays.         *)
(***************************************************************************)
EXTENDS RunSystem, FiniteSetTheorems, TLAPS

LEMMA AnyRunType == AnyRun \in Run /\ NoTask \in RunTask /\ NoRequest \in Request
BY PlatformAssumption DEF AnyRun, NoTask, RunTask, NoRequest, Request, RequestOp

LEMMA HostType == \A h \in Handler : Host(h) \in Worker
BY DEF Handler, Host

\* A handler that only moves keeps the types of the handlers' state.
LEMMA OnlyType ==
    ASSUME HandlerTypeOK, NEW h \in Handler, NEW p \in HandlerPc, Only(h, p)
    PROVE  HandlerTypeOK'
BY DEF HandlerTypeOK, Only, Goto

LEMMA AppendType ==
    ASSUME LogTypeOK, NEW r \in Run, NEW e \in Event, append(r, e)
    PROVE  LogTypeOK'
BY DEF LogTypeOK, append

LEMMA TransitType ==
    ASSUME StoreTypeOK, NEW r \in Run, NEW allowed, NEW to \in RowStatus, TransitFrom(r, allowed, to)
    PROVE  StoreTypeOK'
BY DEF StoreTypeOK, TransitFrom

LEMMA PublishType ==
    ASSUME QueueTypeOK, NEW t \in RunTask, publish(t)
    PROVE  QueueTypeOK'
BY DEF QueueTypeOK, publish

LEMMA PlainType == \A type \in EventType : Plain(type) \in Event
BY PlatformAssumption DEF Plain, Event

LEMMA StartedType == \A b \in BOOLEAN : RunStarted(b) \in Event
BY PlatformAssumption DEF RunStarted, Event, EventType

LEMMA InterruptType == \A n \in 0..MaxAsk : Interrupt(n) \in Event
BY PlatformAssumption DEF Interrupt, Event, EventType

\* What a handler has in hand is a task of a run.
LEMMA RunInType ==
    ASSUME HandlerTypeOK, NEW h \in Handler
    PROVE  RunIn(h) \in Run /\ ThreadIn(h) \in Thread /\ task[h].answer \in 0..MaxAsk
BY PlatformAssumption DEF HandlerTypeOK, RunTask, RunIn, ThreadIn

\* The parts of TypeOK a worker's step may touch.
SharedTypeOK == StoreTypeOK /\ QueueTypeOK /\ LogTypeOK /\ SignalTypeOK
WorldTypeOK  == SharedTypeOK /\ WorkerTypeOK

--------------------------------------------------------------------------------
\* Steps that only move the pc: a read, then a decision.
LEMMA ReadStepType ==
    ASSUME WorldTypeOK, NEW h \in Handler, NEW p \in HandlerPc, Only(h, p),
           UNCHANGED <<storeVars, queueVars, log, signalVars, graphVars, faultVars>>
    PROVE  WorldTypeOK'
<1>1. HandlerTypeOK'
  BY OnlyType DEF WorldTypeOK, WorkerTypeOK
<1>2. SharedTypeOK'
  BY DEF WorldTypeOK, SharedTypeOK, StoreTypeOK, QueueTypeOK, LogTypeOK, SignalTypeOK,
         storeVars, queueVars, signalVars
<1>3. GraphTypeOK' /\ FaultTypeOK'
  BY DEF WorldTypeOK, WorkerTypeOK, GraphTypeOK, FaultTypeOK, graphVars, faultVars
<1>. QED BY <1>1, <1>2, <1>3 DEF WorldTypeOK, WorkerTypeOK

\* Steps that append one event.
LEMMA EmitStepType ==
    ASSUME WorldTypeOK, NEW h \in Handler, NEW p \in HandlerPc, Only(h, p),
           NEW e \in Event, append(RunIn(h), e),
           UNCHANGED <<storeVars, queueVars, signalVars, graphVars, faultVars>>
    PROVE  WorldTypeOK'
<1>1. HandlerTypeOK'
  BY OnlyType DEF WorldTypeOK, WorkerTypeOK
<1>2. LogTypeOK'
  BY AppendType, RunInType DEF WorldTypeOK, SharedTypeOK, WorkerTypeOK
<1>3. StoreTypeOK' /\ QueueTypeOK' /\ SignalTypeOK'
  BY DEF WorldTypeOK, SharedTypeOK, StoreTypeOK, QueueTypeOK, SignalTypeOK,
         storeVars, queueVars, signalVars
<1>4. GraphTypeOK' /\ FaultTypeOK'
  BY DEF WorldTypeOK, WorkerTypeOK, GraphTypeOK, FaultTypeOK, graphVars, faultVars
<1>. QED BY <1>1, <1>2, <1>3, <1>4 DEF WorldTypeOK, SharedTypeOK, WorkerTypeOK

\* Steps that write the status of the run in hand.
LEMMA StatusStepType ==
    ASSUME WorldTypeOK, NEW h \in Handler, HandlerTypeOK',
           NEW allowed, NEW to \in RowStatus, TransitFrom(RunIn(h), allowed, to),
           UNCHANGED <<queueVars, log, signalVars, graphVars, faultVars>>
    PROVE  WorldTypeOK'
<1>1. StoreTypeOK'
  BY TransitType, RunInType DEF WorldTypeOK, SharedTypeOK, WorkerTypeOK
<1>2. QueueTypeOK' /\ LogTypeOK' /\ SignalTypeOK'
  BY DEF WorldTypeOK, SharedTypeOK, QueueTypeOK, LogTypeOK, SignalTypeOK, queueVars, signalVars
<1>3. GraphTypeOK' /\ FaultTypeOK'
  BY DEF WorldTypeOK, WorkerTypeOK, GraphTypeOK, FaultTypeOK, graphVars, faultVars
<1>. QED BY <1>1, <1>2, <1>3 DEF WorldTypeOK, SharedTypeOK, WorkerTypeOK

LEMMA SettleType ==
    ASSUME WorldTypeOK, NEW h \in Handler, NEW from, NEW p \in HandlerPc,
           NEW to \in RowStatus, Settle(h, from, p, Transit(RunIn(h), to))
    PROVE  WorldTypeOK'
<1>1. HandlerTypeOK'
  <2>1. \E q \in HandlerPc : Only(h, q)
    BY DEF Settle, HandlerPc
  <2>. QED BY <2>1, OnlyType DEF WorldTypeOK, WorkerTypeOK
<1>2. TransitFrom(RunIn(h), CANCELLABLE_STATUS, to)
  BY DEF Settle, Transit
<1>. QED BY <1>1, <1>2, StatusStepType DEF Settle

LEMMA ReserveType ==
    ASSUME WorldTypeOK, NEW h \in Handler, Reserve(h)
    PROVE  WorldTypeOK'
<1>1. PICK m \in 1..Len(stream) :
        /\ ReadNew(Host(h), m) \/ Claim(Host(h), m, Idle(m))
        /\ job' = [job EXCEPT ![h] = m]
        /\ task' = [task EXCEPT ![h] = stream[m]]
  BY DEF Reserve
<1>2. stream[m] \in RunTask /\ m \in Nat
  BY DEF WorldTypeOK, SharedTypeOK, QueueTypeOK
<1>3. HandlerTypeOK'
  BY <1>1, <1>2, PlatformAssumption
     DEF WorldTypeOK, WorkerTypeOK, HandlerTypeOK, Reserve, Goto, HandlerPc, OutsideTry
<1>4. QueueTypeOK'
  <2>1. CASE ReadNew(Host(h), m)
    BY <2>1, HostType DEF ReadNew, WorldTypeOK, SharedTypeOK, QueueTypeOK
  <2>2. CASE Claim(Host(h), m, Idle(m))
    BY <2>2, HostType DEF Claim, WorldTypeOK, SharedTypeOK, QueueTypeOK
  <2>. QED BY <1>1, <2>1, <2>2
<1>5. StoreTypeOK' /\ LogTypeOK' /\ SignalTypeOK'
  BY DEF Reserve, WorldTypeOK, SharedTypeOK, StoreTypeOK, LogTypeOK, SignalTypeOK,
         storeVars, signalVars
<1>6. GraphTypeOK' /\ FaultTypeOK'
  BY DEF Reserve, WorldTypeOK, WorkerTypeOK, GraphTypeOK, FaultTypeOK, graphVars, faultVars
<1>. QED BY <1>3, <1>4, <1>5, <1>6 DEF WorldTypeOK, SharedTypeOK, WorkerTypeOK
LEMMA EnterGraphType ==
    ASSUME WorldTypeOK, NEW h \in Handler, EnterGraph(h)
    PROVE  WorldTypeOK'
<1>1. HandlerTypeOK'
  BY OnlyType DEF EnterGraph, WorldTypeOK, WorkerTypeOK, HandlerPc, InsideTry
<1>2. GraphTypeOK'
  BY RunInType, PlatformAssumption DEF EnterGraph, WorldTypeOK, WorkerTypeOK, GraphTypeOK
<1>3. SharedTypeOK'
  BY DEF EnterGraph, WorldTypeOK, SharedTypeOK, StoreTypeOK, QueueTypeOK, LogTypeOK, SignalTypeOK,
         storeVars, queueVars, signalVars
<1>4. FaultTypeOK'
  BY DEF EnterGraph, WorldTypeOK, WorkerTypeOK, FaultTypeOK, faultVars
<1>. QED BY <1>1, <1>2, <1>3, <1>4 DEF WorldTypeOK, WorkerTypeOK

LEMMA GraphEndsType ==
    ASSUME WorldTypeOK, NEW h \in Handler, GraphEnds(h)
    PROVE  WorldTypeOK'
<1>1. HandlerTypeOK'
  BY OnlyType DEF GraphEnds, WorldTypeOK, WorkerTypeOK, HandlerPc, InsideTry
<1>2. GraphTypeOK'
  BY RunInType, PlatformAssumption DEF GraphEnds, WorldTypeOK, WorkerTypeOK, GraphTypeOK
<1>3. SharedTypeOK'
  BY DEF GraphEnds, WorldTypeOK, SharedTypeOK, StoreTypeOK, QueueTypeOK, LogTypeOK, SignalTypeOK,
         storeVars, queueVars, signalVars
<1>4. FaultTypeOK'
  BY DEF GraphEnds, WorldTypeOK, WorkerTypeOK, FaultTypeOK, faultVars
<1>. QED BY <1>1, <1>2, <1>3, <1>4 DEF WorldTypeOK, WorkerTypeOK

\* GraphStep and Inspect move the pc and write one more field of the handler.
LEMMA LocalStepType ==
    ASSUME WorldTypeOK, NEW h \in Handler, GraphStep(h) \/ Inspect(h)
    PROVE  WorldTypeOK'
<1>1. HandlerTypeOK'
  <2>1. CASE GraphStep(h)
    BY <2>1, PlatformAssumption
       DEF GraphStep, Goto, WorldTypeOK, WorkerTypeOK, HandlerTypeOK, HandlerPc, InsideTry
  <2>2. CASE Inspect(h)
    BY <2>2, RunInType
       DEF Inspect, Goto, WorldTypeOK, WorkerTypeOK, HandlerTypeOK, GraphTypeOK, HandlerPc, InsideTry
  <2>. QED BY <2>1, <2>2
<1>2. SharedTypeOK'
  BY DEF GraphStep, Inspect, WorldTypeOK, SharedTypeOK, StoreTypeOK, QueueTypeOK, LogTypeOK,
         SignalTypeOK, storeVars, queueVars, signalVars
<1>3. GraphTypeOK' /\ FaultTypeOK'
  BY DEF GraphStep, Inspect, WorldTypeOK, WorkerTypeOK, GraphTypeOK, FaultTypeOK, graphVars, faultVars
<1>. QED BY <1>1, <1>2, <1>3 DEF WorldTypeOK, WorkerTypeOK

LEMMA FinishType ==
    ASSUME WorldTypeOK, NEW h \in Handler, Finish(h)
    PROVE  WorldTypeOK'
<1>1. HandlerTypeOK'
  BY AnyRunType, PlatformAssumption
     DEF Finish, Goto, WorldTypeOK, WorkerTypeOK, HandlerTypeOK, HandlerPc
<1>2. QueueTypeOK'
  BY HostType DEF Finish, ack, WorldTypeOK, SharedTypeOK, QueueTypeOK, queueVars
<1>3. StoreTypeOK' /\ LogTypeOK' /\ SignalTypeOK'
  BY DEF Finish, WorldTypeOK, SharedTypeOK, StoreTypeOK, LogTypeOK, SignalTypeOK, storeVars, signalVars
<1>4. GraphTypeOK' /\ FaultTypeOK'
  BY DEF Finish, WorldTypeOK, WorkerTypeOK, GraphTypeOK, FaultTypeOK, graphVars, faultVars
<1>. QED BY <1>1, <1>2, <1>3, <1>4 DEF WorldTypeOK, SharedTypeOK, WorkerTypeOK

LEMMA StartType ==
    ASSUME WorldTypeOK, NEW h \in Handler, StartFirst(h) \/ StartResumed(h)
    PROVE  WorldTypeOK'
<1>0. "running" \in RowStatus
  BY DEF RowStatus, CANCELLABLE_STATUS
<1>1. CASE StartFirst(h)
  <2>1. HandlerTypeOK'
    BY <1>1, OnlyType DEF StartFirst, WorldTypeOK, WorkerTypeOK, HandlerPc, OutsideTry
  <2>. QED BY <1>0, <1>1, <2>1, StatusStepType DEF StartFirst, startFirst
<1>2. CASE StartResumed(h)
  <2>1. HandlerTypeOK'
    BY <1>2 DEF StartResumed, Goto, WorldTypeOK, WorkerTypeOK, HandlerTypeOK, HandlerPc, OutsideTry
  <2>. QED BY <1>0, <1>2, <2>1, StatusStepType DEF StartResumed, startResumed
<1>. QED BY <1>1, <1>2

LEMMA EmitType ==
    ASSUME WorldTypeOK, NEW h \in Handler,
           \/ EmitStarted(h) \/ EmitReady(h) \/ EmitProgress(h) \/ EmitToken(h)
           \/ EmitInterrupt(h) \/ EmitVerdict(h)
    PROVE  WorldTypeOK'
<1>0. {"acquire", "enter", "step", "ack"} \subseteq HandlerPc
  BY DEF HandlerPc, InsideTry
<1>1. CASE EmitStarted(h)
  <2>1. (task[h].answer # 0 \/ mode[h] = "resumed") \in BOOLEAN
    OBVIOUS
  <2>2. RunStarted(task[h].answer # 0 \/ mode[h] = "resumed") \in Event
    BY <2>1, StartedType
  <2>. QED BY <1>0, <1>1, <2>2, EmitStepType DEF EmitStarted
<1>2. CASE EmitReady(h)
  <2>1. Plain("sandbox.ready") \in Event
    BY PlainType DEF EventType
  <2>. QED BY <1>0, <1>2, <2>1, EmitStepType DEF EmitReady
<1>3. CASE EmitProgress(h) \/ EmitToken(h)
  <2>1. Plain("progress") \in Event /\ Plain("token") \in Event
    BY PlainType DEF EventType
  <2>. QED BY <1>0, <1>3, <2>1, EmitStepType DEF EmitProgress, EmitToken
<1>4. CASE EmitInterrupt(h)
  <2>1. Interrupt(seen[h]) \in Event
    BY InterruptType DEF WorldTypeOK, WorkerTypeOK, HandlerTypeOK
  <2>. QED BY <1>0, <1>4, <2>1, EmitStepType DEF EmitInterrupt
<1>5. CASE EmitVerdict(h)
  <2>1. VerdictOf(pc[h]) \in EventType
    BY <1>5 DEF EmitVerdict, VerdictPc, VerdictOf, EventType, TERMINAL_EVENT_TYPE
  <2>2. Plain(VerdictOf(pc[h])) \in Event
    BY <2>1, PlainType
  <2>. QED BY <1>0, <1>5, <2>2, EmitStepType DEF EmitVerdict
<1>. QED BY <1>1, <1>2, <1>3, <1>4, <1>5

LEMMA SettlingType ==
    ASSUME WorldTypeOK, NEW h \in Handler,
           Suspend(h) \/ Succeed(h) \/ Fail(h) \/ Stop(h) \/ Halt(h)
    PROVE  WorldTypeOK'
<1>0. {"waiting_approval", "succeeded", "failed", "cancelled"} \subseteq RowStatus
  BY DEF RowStatus, CANCELLABLE_STATUS, TERMINAL_STATUS
<1>1. {"interrupt", "finished", "failed", "cancelled", "halted"} \subseteq HandlerPc
  BY DEF HandlerPc, InsideTry, OutsideTry, Failing
<1>2. CASE Suspend(h) BY <1>0, <1>1, <1>2, SettleType DEF Suspend, wait_approval
<1>3. CASE Succeed(h) BY <1>0, <1>1, <1>3, SettleType DEF Succeed, succeed
<1>4. CASE Fail(h)    BY <1>0, <1>1, <1>4, SettleType DEF Fail, fail
<1>5. CASE Stop(h)    BY <1>0, <1>1, <1>5, SettleType DEF Stop, cancel
<1>6. CASE Halt(h)    BY <1>0, <1>1, <1>6, SettleType DEF Halt, cancel
<1>. QED BY <1>2, <1>3, <1>4, <1>5, <1>6

LEMMA DecideType ==
    ASSUME WorldTypeOK, NEW h \in Handler,
           CheckCancel(h) \/ CheckThread(h) \/ Acquire(h) \/ GraphRaises(h)
    PROVE  WorldTypeOK'
<1>1. \E p \in HandlerPc : Only(h, p)
  BY DEF CheckCancel, CheckThread, Acquire, GraphRaises, HandlerPc, OutsideTry, Failing
<1>2. UNCHANGED <<storeVars, queueVars, log, signalVars, graphVars, faultVars>>
  BY DEF CheckCancel, CheckThread, Acquire, GraphRaises
<1>. QED BY <1>1, <1>2, ReadStepType

LEMMA HandlerStepType ==
    ASSUME WorldTypeOK, NEW h \in Handler, HandlerStep(h)
    PROVE  WorldTypeOK'
BY ReserveType, DecideType, StartType, EmitType, EnterGraphType, LocalStepType,
   GraphEndsType, SettlingType, FinishType DEF HandlerStep

--------------------------------------------------------------------------------
LEMMA WorkerFaultType ==
    ASSUME WorldTypeOK, WorkerFault
    PROVE  WorldTypeOK'
<1>1. SharedTypeOK' /\ GraphTypeOK'
  <2>1. QueueTypeOK'
    BY DEF WorkerFault, Hiccup, BeatStops, Crash, ForgetHeld, WorldTypeOK, SharedTypeOK,
           QueueTypeOK, queueVars
  <2>2. UNCHANGED <<storeVars, log, signalVars, graphVars>>
    BY DEF WorkerFault, Hiccup, BeatStops, Crash
  <2>. QED
    BY <2>1, <2>2 DEF WorldTypeOK, SharedTypeOK, WorkerTypeOK, StoreTypeOK, LogTypeOK,
                      SignalTypeOK, GraphTypeOK, storeVars, signalVars, graphVars
<1>2. HandlerTypeOK' /\ FaultTypeOK'
  <2>1. ASSUME NEW h \in Handler, Hiccup(h) PROVE HandlerTypeOK' /\ FaultTypeOK'
    <3>1. HandlerTypeOK'
      BY <2>1, OnlyType DEF Hiccup, WorldTypeOK, WorkerTypeOK, HandlerPc, Failing
    <3>2. FaultTypeOK'
      BY <2>1, PlatformAssumption DEF Hiccup, WorldTypeOK, WorkerTypeOK, FaultTypeOK
    <3>. QED BY <3>1, <3>2
  <2>2. ASSUME NEW h \in Handler, BeatStops(h) PROVE HandlerTypeOK' /\ FaultTypeOK'
    BY <2>2, PlatformAssumption
       DEF BeatStops, WorldTypeOK, WorkerTypeOK, HandlerTypeOK, FaultTypeOK
  <2>3. ASSUME NEW w \in Worker, Crash(w) PROVE HandlerTypeOK' /\ FaultTypeOK'
    <3>1. HandlerTypeOK'
      <4>. USE <2>3 DEF Crash, WorldTypeOK, WorkerTypeOK, HandlerTypeOK
      <4>1. pc' \in [Handler -> HandlerPc]
        BY DEF HandlerPc
      <4>2. job' \in [Handler -> Nat]
        OBVIOUS
      <4>3. task' \in [Handler -> RunTask]
        BY AnyRunType
      <4>4. mode' \in [Handler -> {"first", "resumed"}]
        OBVIOUS
      <4>5. steps' \in [Handler -> 0..RecursionLimit] /\ seen' \in [Handler -> 0..MaxAsk]
        BY PlatformAssumption
      <4>6. beating' \in [Handler -> BOOLEAN]
        OBVIOUS
      <4>. QED BY <4>1, <4>2, <4>3, <4>4, <4>5, <4>6
    <3>2. FaultTypeOK'
      BY <2>3, PlatformAssumption DEF Crash, WorldTypeOK, WorkerTypeOK, FaultTypeOK
    <3>. QED BY <3>1, <3>2
  <2>. QED BY <2>1, <2>2, <2>3 DEF WorkerFault
<1>. QED BY <1>1, <1>2 DEF WorldTypeOK, WorkerTypeOK

LEMMA RequestType ==
    \A op \in RequestOp, r \in Run, k \in 0..MaxAsk :
        [op |-> op, run |-> r, answer |-> k] \in Request
BY DEF Request

\* The steps of a request once it has begun, and of the user who begins one.
LEMMA ApiStepType ==
    ASSUME SharedTypeOK, ApiTypeOK, NEW c \in Client,
           RequestStep(c) \/ DropRequest(c)
    PROVE  SharedTypeOK' /\ ApiTypeOK'
<1>. DEFINE r == req[c].run
            k == req[c].answer
<1>0. r \in Run /\ k \in 0..MaxAsk
  BY DEF ApiTypeOK, Request
<1>1. ApiTypeOK'
  BY <1>0, RequestType, AnyRunType, PlatformAssumption
     DEF ApiTypeOK, RequestStep, CreateRun, PublishRun, CancelRow, AnnounceCancel, ResumeRow, Republish,
         DropRequest, Next_op, Done, RequestOp
<1>2. StoreTypeOK'
  <2>1. CASE CancelRow(c)
    BY <2>1, <1>0, TransitType
       DEF CancelRow, cancel, Transit, SharedTypeOK, RowStatus, TERMINAL_STATUS
  <2>2. CASE ResumeRow(c)
    BY <2>2, <1>0, TransitType DEF ResumeRow, resume, SharedTypeOK, RowStatus, CANCELLABLE_STATUS
  <2>3. CASE UNCHANGED storeVars
    BY <2>3 DEF storeVars, SharedTypeOK, StoreTypeOK
  <2>4. CASE CreateRun(c)
    BY <2>4, <1>0 DEF CreateRun, create, SharedTypeOK, StoreTypeOK, RowStatus, CANCELLABLE_STATUS
  <2>. QED
    BY <2>1, <2>2, <2>3, <2>4 DEF RequestStep, PublishRun, AnnounceCancel, Republish, DropRequest
<1>3. QueueTypeOK'
  <2>1. [run |-> r, answer |-> 0] \in RunTask /\ [run |-> r, answer |-> k] \in RunTask
    BY <1>0, PlatformAssumption DEF RunTask
  <2>2. CASE PublishRun(c) \/ Republish(c)
    BY <2>1, <2>2, PublishType DEF PublishRun, Republish, SharedTypeOK
  <2>3. CASE UNCHANGED queueVars
    BY <2>3 DEF queueVars, SharedTypeOK, QueueTypeOK
  <2>. QED
    BY <2>2, <2>3 DEF RequestStep, CreateRun, CancelRow, AnnounceCancel, ResumeRow, DropRequest
<1>4. LogTypeOK'
  <2>1. CASE AnnounceCancel(c)
    <3>1. Plain("run.cancelled") \in Event
      BY PlainType DEF EventType, TERMINAL_EVENT_TYPE
    <3>. QED BY <2>1, <3>1, <1>0, AppendType DEF AnnounceCancel, SharedTypeOK
  <2>2. CASE UNCHANGED log
    BY <2>2 DEF SharedTypeOK, LogTypeOK
  <2>. QED
    BY <2>1, <2>2 DEF RequestStep, CreateRun, PublishRun, CancelRow, ResumeRow, Republish, DropRequest
<1>5. SignalTypeOK'
  BY DEF RequestStep, CreateRun, PublishRun, CancelRow, AnnounceCancel, ResumeRow, Republish, DropRequest,
         SharedTypeOK, SignalTypeOK, signalVars
<1>. QED BY <1>1, <1>2, <1>3, <1>4, <1>5 DEF SharedTypeOK

LEMMA ShownAskType ==
    ASSUME LogTypeOK, NEW r \in Run
    PROVE  ShownAsk(r) \subseteq 0..MaxAsk
<1>1. \A i \in 1..Len(log[r]) : log[r][i] \in Event
  BY DEF LogTypeOK
<1>2. \A e \in Event : e.ask \in 0..MaxAsk
  BY DEF Event
<1>. QED BY <1>1, <1>2 DEF ShownAsk

LEMMA UserType ==
    ASSUME SharedTypeOK, ApiTypeOK, NEW c \in Client, NEW r \in Run,
           SubmitRun(c, r) \/ RaiseFlag(c, r) \/ ReadApproval(c, r)
    PROVE  SharedTypeOK' /\ ApiTypeOK'
<1>1. ApiTypeOK'
  <2>1. \E op \in RequestOp, k \in 0..MaxAsk : Next_op(c, op, r, k)
    BY ShownAskType, PlatformAssumption
       DEF SubmitRun, RaiseFlag, ReadApproval, SharedTypeOK, RequestOp
  <2>. QED BY <2>1, RequestType DEF ApiTypeOK, Next_op
<1>2. StoreTypeOK' /\ SignalTypeOK'
  BY DEF SubmitRun, RaiseFlag, ReadApproval, raise_flag, SharedTypeOK, StoreTypeOK,
         SignalTypeOK, storeVars, signalVars
<1>3. QueueTypeOK' /\ LogTypeOK'
  BY DEF SubmitRun, RaiseFlag, ReadApproval, SharedTypeOK, QueueTypeOK, LogTypeOK, queueVars
<1>. QED BY <1>1, <1>2, <1>3 DEF SharedTypeOK

--------------------------------------------------------------------------------
LEMMA ReaperType ==
    ASSUME SharedTypeOK, CronTypeOK, ReaperStep
    PROVE  SharedTypeOK' /\ CronTypeOK'
<1>1. CronTypeOK'
  BY AnyRunType
     DEF ReaperStep, ReapRows, ReapGroup, ReapHolding, ReapWaiting, ReapJudge, ReapAnnounce, ReapDone,
         ReaperRest, CronTypeOK, sweeperVars, unfinished, SharedTypeOK, QueueTypeOK
<1>2. StoreTypeOK'
  <2>1. ASSUME NEW r \in Run, ReapJudge(r) PROVE StoreTypeOK'
    BY <2>1, TransitType DEF ReapJudge, fail, Transit, SharedTypeOK, RowStatus, TERMINAL_STATUS
  <2>2. CASE UNCHANGED storeVars
    BY <2>2 DEF storeVars, SharedTypeOK, StoreTypeOK
  <2>. QED
    BY <2>1, <2>2 DEF ReaperStep, ReapRows, ReapGroup, ReapHolding, ReapWaiting, ReapAnnounce, ReapDone
<1>3. LogTypeOK'
  <2>1. CASE ReapAnnounce
    <3>1. Plain("run.failed") \in Event
      BY PlainType DEF EventType, TERMINAL_EVENT_TYPE
    <3>. QED BY <2>1, <3>1, AppendType DEF ReapAnnounce, SharedTypeOK, CronTypeOK
  <2>2. CASE UNCHANGED log
    BY <2>2 DEF SharedTypeOK, LogTypeOK
  <2>. QED
    BY <2>1, <2>2 DEF ReaperStep, ReapRows, ReapGroup, ReapHolding, ReapWaiting, ReapJudge, ReapDone
<1>4. QueueTypeOK' /\ SignalTypeOK'
  <2>1. UNCHANGED <<queueVars, signalVars>>
    BY DEF ReaperStep, ReapRows, ReapGroup, ReapHolding, ReapWaiting, ReapJudge, ReapAnnounce, ReapDone
  <2>. QED BY <2>1 DEF SharedTypeOK, QueueTypeOK, SignalTypeOK, queueVars, signalVars
<1>. QED BY <1>1, <1>2, <1>3, <1>4 DEF SharedTypeOK

LEMMA SweeperType ==
    ASSUME SharedTypeOK, CronTypeOK, SweeperStep
    PROVE  SharedTypeOK' /\ CronTypeOK'
<1>1. CronTypeOK'
  BY AnyRunType
     DEF SweeperStep, SweepRows, SweepJudge, SweepAnnounce, SweepDone, SweeperRest,
         CronTypeOK, reaperVars, expired
<1>2. StoreTypeOK'
  <2>1. ASSUME NEW r \in Run, SweepJudge(r) PROVE StoreTypeOK'
    BY <2>1, TransitType DEF SweepJudge, cancel, Transit, SharedTypeOK, RowStatus, TERMINAL_STATUS
  <2>2. CASE UNCHANGED storeVars
    BY <2>2 DEF storeVars, SharedTypeOK, StoreTypeOK
  <2>. QED BY <2>1, <2>2 DEF SweeperStep, SweepRows, SweepAnnounce, SweepDone
<1>3. LogTypeOK'
  <2>1. CASE SweepAnnounce
    <3>1. Plain("run.cancelled") \in Event
      BY PlainType DEF EventType, TERMINAL_EVENT_TYPE
    <3>. QED BY <2>1, <3>1, AppendType DEF SweepAnnounce, SharedTypeOK, CronTypeOK
  <2>2. CASE UNCHANGED log
    BY <2>2 DEF SharedTypeOK, LogTypeOK
  <2>. QED BY <2>1, <2>2 DEF SweeperStep, SweepRows, SweepJudge, SweepDone
<1>4. QueueTypeOK' /\ SignalTypeOK'
  <2>1. UNCHANGED <<queueVars, signalVars>>
    BY DEF SweeperStep, SweepRows, SweepJudge, SweepAnnounce, SweepDone
  <2>. QED BY <2>1 DEF SharedTypeOK, QueueTypeOK, SignalTypeOK, queueVars, signalVars
<1>. QED BY <1>1, <1>2, <1>3, <1>4 DEF SharedTypeOK

LEMMA OtherFaultType ==
    ASSUME TypeOK, OtherFault
    PROVE  TypeOK'
<1>1. HandlerTypeOK' /\ GraphTypeOK' /\ FaultTypeOK'
  BY PlatformAssumption
     DEF OtherFault, TypeOK, WorkerTypeOK, HandlerTypeOK, GraphTypeOK, FaultTypeOK,
         handlerVars, graphVars
<1>2. CASE (\E c \in Client : DropRequest(c)) /\ UNCHANGED cronVars
  <2>1. SharedTypeOK' /\ ApiTypeOK'
    BY <1>2, ApiStepType DEF TypeOK, SharedTypeOK
  <2>2. CronTypeOK'
    BY <1>2 DEF TypeOK, CronTypeOK, cronVars, reaperVars, sweeperVars
  <2>. QED BY <1>1, <2>1, <2>2 DEF TypeOK, SharedTypeOK, WorkerTypeOK
<1>3. CASE CronDies /\ UNCHANGED req
  <2>1. CronTypeOK' /\ ApiTypeOK'
    BY <1>3, AnyRunType DEF CronDies, ReaperRest, SweeperRest, reaperVars, sweeperVars,
                            TypeOK, CronTypeOK, ApiTypeOK
  <2>2. SharedTypeOK'
    BY <1>3 DEF CronDies, TypeOK, SharedTypeOK, StoreTypeOK, QueueTypeOK, LogTypeOK, SignalTypeOK,
                storeVars, queueVars, signalVars
  <2>. QED BY <1>1, <2>1, <2>2 DEF TypeOK, SharedTypeOK, WorkerTypeOK
<1>. QED BY <1>2, <1>3 DEF OtherFault

\* Booting, deleting a thread and the passing of time.
LEMMA BackgroundType ==
    ASSUME TypeOK, WorkerBoots \/ UserDeletes \/ TimePasses
    PROVE  TypeOK'
<1>1. StoreTypeOK' /\ QueueTypeOK' /\ SignalTypeOK' /\ LogTypeOK'
  <2>. USE DEF TypeOK, StoreTypeOK, QueueTypeOK, SignalTypeOK, LogTypeOK,
               storeVars, queueVars, signalVars
  <2>1. CASE WorkerBoots
    BY <2>1 DEF WorkerBoots, Boot, ensure_group
  <2>2. CASE UserDeletes
    BY <2>2 DEF UserDeletes, DeleteThread, SoftDelete
  <2>3. CASE TimePasses
    <3>1. UNCHANGED <<queueVars, log, signalVars>>
      BY <2>3 DEF TimePasses
    <3>2. StoreTypeOK'
      BY <2>3 DEF TimePasses, GrowOlder
    <3>. QED BY <3>1, <3>2
  <2>. QED BY <2>1, <2>2, <2>3
<1>2. WorkerTypeOK'
  <2>1. UNCHANGED <<handlerVars, graphVars, faultVars>>
    BY DEF WorkerBoots, Boot, UserDeletes, TimePasses, workerVars
  <2>. QED BY <2>1 DEF TypeOK, WorkerTypeOK, HandlerTypeOK, GraphTypeOK, FaultTypeOK,
                       handlerVars, graphVars, faultVars
<1>3. ApiTypeOK' /\ CronTypeOK'
  BY DEF WorkerBoots, UserDeletes, DeleteThread, TimePasses, TypeOK, ApiTypeOK, CronTypeOK,
         cronVars, reaperVars, sweeperVars
<1>. QED BY <1>1, <1>2, <1>3 DEF TypeOK

LEMMA InitType == Init => TypeOK
<1>. SUFFICES ASSUME Init PROVE TypeOK
  OBVIOUS
<1>1. StoreTypeOK /\ QueueTypeOK /\ LogTypeOK /\ SignalTypeOK
  BY PlatformAssumption
     DEF Init, StoreInit, QueueInit, LogInit, SignalInit,
         StoreTypeOK, QueueTypeOK, LogTypeOK, SignalTypeOK, RowStatus
<1>2. WorkerTypeOK
  BY AnyRunType, PlatformAssumption
     DEF Init, WorkerInit, WorkerTypeOK, HandlerTypeOK, GraphTypeOK, FaultTypeOK, HandlerPc
<1>3. ApiTypeOK /\ CronTypeOK
  BY AnyRunType DEF Init, ApiInit, CronInit, ApiTypeOK, CronTypeOK
<1>. QED BY <1>1, <1>2, <1>3 DEF TypeOK

LEMMA NextType == TypeOK /\ [Next]_vars => TypeOK'
<1>. SUFFICES ASSUME TypeOK, [Next]_vars PROVE TypeOK'
  OBVIOUS
<1>0. WorldTypeOK /\ SharedTypeOK /\ ApiTypeOK /\ CronTypeOK
  BY DEF TypeOK, WorldTypeOK, SharedTypeOK
<1>. DEFINE QuietWorker == UNCHANGED workerVars
            QuietApi    == UNCHANGED req
            QuietCron   == UNCHANGED cronVars
<1>1. QuietWorker => WorkerTypeOK'
  BY DEF TypeOK, WorkerTypeOK, HandlerTypeOK, GraphTypeOK, FaultTypeOK,
         workerVars, handlerVars, graphVars, faultVars
<1>2. QuietApi => ApiTypeOK'
  BY DEF TypeOK, ApiTypeOK
<1>3. QuietCron => CronTypeOK'
  BY DEF TypeOK, CronTypeOK, cronVars, reaperVars, sweeperVars
<1>4. ASSUME NEW h \in Handler, WorkerRuns(h) PROVE TypeOK'
  BY <1>0, <1>2, <1>3, <1>4, HandlerStepType DEF WorkerRuns, WorldTypeOK, SharedTypeOK, TypeOK
<1>5. CASE WorkerFault
  BY <1>0, <1>2, <1>3, <1>5, WorkerFaultType DEF WorkerFault, WorldTypeOK, SharedTypeOK, TypeOK
<1>6. CASE WorkerBoots \/ UserDeletes \/ TimePasses
  BY <1>6, BackgroundType
<1>7. CASE UserActs
  BY <1>0, <1>1, <1>3, <1>7, UserType DEF UserActs, SharedTypeOK, TypeOK
<1>8. ASSUME NEW c \in Client, ApiRuns(c) PROVE TypeOK'
  BY <1>0, <1>1, <1>3, <1>8, ApiStepType DEF ApiRuns, SharedTypeOK, TypeOK
<1>9. CASE ReaperRuns
  BY <1>0, <1>1, <1>2, <1>9, ReaperType DEF ReaperRuns, SharedTypeOK, TypeOK
<1>10. CASE SweeperRuns
  BY <1>0, <1>1, <1>2, <1>10, SweeperType DEF SweeperRuns, SharedTypeOK, TypeOK
<1>11. CASE OtherFault
  BY <1>11, OtherFaultType
<1>12. CASE UNCHANGED vars
  <2>1. QuietWorker /\ QuietApi /\ QuietCron /\ UNCHANGED <<storeVars, queueVars, log, signalVars>>
    BY <1>12 DEF vars
  <2>2. SharedTypeOK'
    BY <2>1 DEF TypeOK, SharedTypeOK, StoreTypeOK, QueueTypeOK, LogTypeOK, SignalTypeOK,
                storeVars, queueVars, signalVars
  <2>. QED BY <1>1, <1>2, <1>3, <2>1, <2>2 DEF TypeOK, SharedTypeOK
<1>. QED
  BY <1>4, <1>5, <1>6, <1>7, <1>8, <1>9, <1>10, <1>11, <1>12 DEF Next

\* Every state the platform's processes reach has the types TypeOK names: rows, stream,
\* pending list, log, handlers, requests and cron passes, whatever the constants are.
THEOREM TypeCorrect == Spec => []TypeOK
BY InitType, NextType, PTL DEF Spec

--------------------------------------------------------------------------------
(***************************************************************************)
(* Messages in hand.                                                       *)
(***************************************************************************)
\* A slot has a message in hand exactly while it is busy; the task is the one the message
\* carries, and the process remembers having it.
JobInv == \A h \in Handler :
    /\ pc[h] = "idle" => job[h] = 0 /\ ~beating[h]
    /\ pc[h] # "idle" => job[h] \in 1..delivered /\ task[h] = stream[job[h]]
    /\ job[h] # 0 => job[h] \in held[Host(h)]

\* A message is renewed by one handler at most.
OneBeater == \A g, h \in Handler : beating[g] /\ beating[h] /\ job[g] = job[h] => g = h

\* Unless a store call failed, every message in hand is renewed and unacknowledged.
Undisturbed == hiccups = 0 => \A h \in Handler : pc[h] # "idle" => beating[h] /\ job[h] \in pending

QueueInv == JobInv /\ HeldOnce /\ OneBeater /\ Undisturbed

\* A busy handler goes on with the message it has.
GoesOn(h) ==
    /\ pc[h] # "idle"
    /\ \E p \in HandlerPc \ {"idle"} : Goto(h, p)
    /\ UNCHANGED <<job, task, beating, queueVars>>

\* No handler moves; at most a message is published.
Rest ==
    /\ UNCHANGED <<pc, job, task, beating, delivered, pending, held>>
    /\ stream' = stream \/ \E t \in RunTask : stream' = Append(stream, t)

LEMMA BusyPc ==
    {"check", "guard", "halt", "halted", "start", "restart", "started", "acquire", "ready", "enter",
     "step", "emit", "inspect", "suspend", "interrupt", "succeed", "finished", "stop", "cancelled",
     "fail", "failed", "ack"} \subseteq HandlerPc \ {"idle"}
BY DEF HandlerPc, OutsideTry, InsideTry, Failing

LEMMA BusySteps ==
    ASSUME NEW h \in Handler, HandlerStep(h)
    PROVE  (Reserve(h) \/ Finish(h) \/ GoesOn(h)) /\ hiccups' = hiccups /\ crashes' = crashes
<1>1. hiccups' = hiccups /\ crashes' = crashes
  BY DEF HandlerStep, Reserve, CheckCancel, CheckThread, StartFirst, StartResumed, EmitStarted, Acquire,
         EmitReady, EnterGraph, GraphStep, EmitProgress, EmitToken, GraphEnds, GraphRaises, Inspect, Settle,
         Suspend, EmitInterrupt, Succeed, Fail, Stop, Halt, EmitVerdict, Finish, faultVars
<1>2. CASE \/ CheckCancel(h) \/ CheckThread(h) \/ StartFirst(h) \/ StartResumed(h) \/ Acquire(h)
           \/ EmitStarted(h) \/ EmitReady(h) \/ EmitProgress(h) \/ EmitToken(h) \/ EmitInterrupt(h) \/ EmitVerdict(h)
           \/ EnterGraph(h) \/ GraphStep(h) \/ GraphEnds(h) \/ GraphRaises(h) \/ Inspect(h)
           \/ Suspend(h) \/ Succeed(h) \/ Fail(h) \/ Stop(h) \/ Halt(h)
  <2>. USE DEF CheckCancel, CheckThread, StartFirst, StartResumed, Acquire, EmitStarted, EmitReady,
               EmitProgress, EmitToken, EmitInterrupt, EmitVerdict, EnterGraph, GraphStep, GraphEnds, GraphRaises,
               Inspect, Suspend, Succeed, Fail, Stop, Halt, Settle
  <2>1. pc[h] # "idle"
    BY <1>2 DEF At, VerdictPc
  <2>2. UNCHANGED <<job, task, beating, queueVars>>
    BY <1>2 DEF Only
  <2>3. \E p \in HandlerPc \ {"idle"} : Goto(h, p)
    BY <1>2, BusyPc DEF Only
  <2>. QED BY <1>1, <2>1, <2>2, <2>3 DEF GoesOn
<1>. QED BY <1>1, <1>2 DEF HandlerStep

\* Every step, as far as handlers and messages are concerned.
QueueStep ==
    \/ \E h \in Handler : Reserve(h) \/ Finish(h) \/ GoesOn(h) \/ BeatStops(h)
    \/ \E w \in Worker : Crash(w)
    \/ Rest

\* What the api, the crons, time and a booting worker do never moves a handler.
LEMMA QuietRests ==
    ASSUME TypeOK,
           \/ WorkerBoots \/ UserActs \/ UserDeletes \/ ReaperRuns \/ SweeperRuns \/ TimePasses
           \/ (\E c \in Client : ApiRuns(c)) \/ UNCHANGED vars \/ OtherFault
    PROVE  Rest
<1>1. UNCHANGED handlerVars
  BY DEF WorkerBoots, Boot, UserActs, UserDeletes, ReaperRuns, SweeperRuns, TimePasses, ApiRuns,
         OtherFault, vars, workerVars
<1>2. UNCHANGED <<pc, job, task, beating>>
  BY <1>1 DEF handlerVars
<1>3. UNCHANGED queueVars \/ WorkerBoots \/ \E c \in Client : PublishRun(c) \/ Republish(c)
  BY DEF UserActs, SubmitRun, RaiseFlag, ReadApproval, UserDeletes, DeleteThread,
         ApiRuns, RequestStep, CreateRun, CancelRow, AnnounceCancel, ResumeRow,
         ReaperRuns, ReaperStep, ReapRows, ReapGroup, ReapHolding, ReapWaiting, ReapJudge,
         ReapAnnounce, ReapDone, SweeperRuns, SweeperStep, SweepRows, SweepJudge, SweepAnnounce,
         SweepDone, TimePasses, OtherFault, DropRequest, CronDies, vars
<1>4. ASSUME NEW c \in Client, PublishRun(c) \/ Republish(c)
      PROVE  UNCHANGED <<delivered, pending, held>> /\ \E t \in RunTask : stream' = Append(stream, t)
  <2>1. req[c].run \in Run /\ req[c].answer \in 0..MaxAsk /\ 0 \in 0..MaxAsk
    BY PlatformAssumption DEF TypeOK, ApiTypeOK, Request
  <2>. QED BY <1>4, <2>1 DEF PublishRun, Republish, publish, RunTask
<1>5. CASE UNCHANGED queueVars \/ WorkerBoots
  BY <1>2, <1>5 DEF queueVars, WorkerBoots, Boot, ensure_group, Rest
<1>. QED BY <1>2, <1>3, <1>4, <1>5 DEF Rest

LEMMA QueueKinds ==
    ASSUME TypeOK, [Next]_vars
    PROVE  QueueStep /\ (hiccups' = 0 => hiccups = 0)
<1>0. hiccups \in Nat
  BY PlatformAssumption DEF TypeOK, WorkerTypeOK, FaultTypeOK
<1>1. ASSUME NEW h \in Handler, WorkerRuns(h) PROVE QueueStep /\ hiccups' = hiccups
  BY <1>1, BusySteps DEF WorkerRuns, QueueStep
<1>2. CASE WorkerFault
  <2>1. ASSUME NEW h \in Handler, Hiccup(h) PROVE GoesOn(h) /\ hiccups' = hiccups + 1
    BY <2>1, BusyPc DEF Hiccup, Only, GoesOn, OutsideTry, InsideTry, Failing
  <2>2. ASSUME NEW h \in Handler, BeatStops(h) PROVE hiccups' = hiccups + 1
    BY <2>2 DEF BeatStops
  <2>3. ASSUME NEW w \in Worker, Crash(w) PROVE hiccups' = hiccups
    BY <2>3 DEF Crash
  <2>. QED BY <1>0, <1>2, <2>1, <2>2, <2>3 DEF WorkerFault, QueueStep
<1>3. CASE \/ WorkerBoots \/ UserActs \/ UserDeletes \/ ReaperRuns \/ SweeperRuns \/ TimePasses
           \/ (\E c \in Client : ApiRuns(c)) \/ UNCHANGED vars \/ OtherFault
  <2>1. hiccups' \in {hiccups, hiccups + 1}
    BY <1>3 DEF WorkerBoots, Boot, UserActs, UserDeletes, ReaperRuns, SweeperRuns, TimePasses, ApiRuns,
                OtherFault, vars, workerVars, faultVars
  <2>. QED BY <1>0, <1>3, <2>1, QuietRests DEF QueueStep
<1>. QED BY <1>1, <1>2, <1>3 DEF Next

\* An idle slot takes message m.
Take(h, m) ==
    /\ pc[h] = "idle" /\ pc'[h] = "check"
    /\ m \in 1..delivered' /\ m \in pending' /\ m \notin held[Host(h)]
    /\ job'[h] = m /\ task'[h] = stream[m] /\ beating'[h] = TRUE
    /\ stream' = stream /\ pending' = pending \cup {m}
    /\ delivered' \in Nat /\ delivered <= delivered'
    /\ held'[Host(h)] = held[Host(h)] \cup {m}
    /\ \A w \in Worker : w # Host(h) => held'[w] = held[w]
    /\ \A g \in Handler : g # h => /\ pc'[g] = pc[g] /\ job'[g] = job[g] /\ task'[g] = task[g]
                                   /\ beating'[g] = beating[g]
    /\ \A g \in Handler : g # h /\ job[g] = m => ~beating[g]

LEMMA ReserveTakes ==
    ASSUME TypeOK, JobInv, NEW h \in Handler, Reserve(h)
    PROVE  \E m \in 1..Len(stream) : Take(h, m) /\ (m = delivered + 1 \/ (m \in pending /\ delivered' = delivered))
<1>1. PICK m \in 1..Len(stream) :
        /\ ReadNew(Host(h), m) \/ Claim(Host(h), m, Idle(m))
        /\ job' = [job EXCEPT ![h] = m]
        /\ task' = [task EXCEPT ![h] = stream[m]]
  BY DEF Reserve
<1>. USE HostType DEF TypeOK, QueueTypeOK, WorkerTypeOK, HandlerTypeOK
<1>2. /\ pc[h] = "idle" /\ pc'[h] = "check"
      /\ job'[h] = m /\ task'[h] = stream[m] /\ beating'[h] = TRUE
  BY <1>1 DEF Reserve, At, Goto
<1>3. \A g \in Handler : g # h => /\ pc'[g] = pc[g] /\ job'[g] = job[g] /\ task'[g] = task[g]
                                  /\ beating'[g] = beating[g]
  BY <1>1 DEF Reserve, Goto
<1>4. CASE ReadNew(Host(h), m)
  <2>1. /\ m = delivered + 1 /\ delivered' = m /\ pending' = pending \cup {m} /\ stream' = stream
        /\ held' = [held EXCEPT ![Host(h)] = @ \cup {m}]
    BY <1>4 DEF ReadNew
  <2>2. \A g \in Handler : job[g] # m
    BY <2>1 DEF JobInv
  <2>3. m \notin held[Host(h)] /\ m \in 1..delivered'
    BY <2>1
  <2>4. /\ held'[Host(h)] = held[Host(h)] \cup {m}
        /\ \A w \in Worker : w # Host(h) => held'[w] = held[w]
    BY <2>1
  <2>5. delivered' \in Nat /\ delivered <= delivered' /\ m \in pending'
    BY <2>1
  <2>. QED BY <1>2, <1>3, <2>1, <2>2, <2>3, <2>4, <2>5 DEF Take
<1>5. CASE Claim(Host(h), m, Idle(m))
  <2>1. /\ m \in pending /\ m \notin held[Host(h)] /\ Idle(m)
        /\ delivered' = delivered /\ pending' = pending /\ stream' = stream
        /\ held' = [held EXCEPT ![Host(h)] = @ \cup {m}]
    BY <1>5 DEF Claim
  <2>2. \A g \in Handler : job[g] = m => ~beating[g]
    BY <2>1 DEF Idle
  <2>3. /\ m \in 1..delivered' /\ delivered' \in Nat /\ delivered <= delivered'
        /\ pending' = pending \cup {m} /\ m \in pending'
    BY <2>1
  <2>4. /\ held'[Host(h)] = held[Host(h)] \cup {m}
        /\ \A w \in Worker : w # Host(h) => held'[w] = held[w]
    BY <2>1
  <2>. QED BY <1>2, <1>3, <2>1, <2>2, <2>3, <2>4 DEF Take
<1>. QED BY <1>1, <1>4, <1>5

\* A finished handler lets go of its message.
Drop(h) ==
    /\ pc[h] = "ack" /\ pc'[h] = "idle" /\ job'[h] = 0 /\ beating'[h] = FALSE
    /\ stream' = stream /\ delivered' = delivered
    /\ \/ beating[h] /\ pending' = pending \ {job[h]}
       \/ ~beating[h] /\ pending' = pending
    /\ \A w \in Worker : held[w] \ {job[h]} \subseteq held'[w]
    /\ \A w \in Worker : w # Host(h) => held'[w] = held[w]
    /\ \A g \in Handler : g # h => /\ pc'[g] = pc[g] /\ job'[g] = job[g] /\ task'[g] = task[g]
                                   /\ beating'[g] = beating[g]

LEMMA FinishDrops ==
    ASSUME TypeOK, NEW h \in Handler, Finish(h)
    PROVE  Drop(h)
<1>. USE HostType DEF TypeOK, QueueTypeOK, WorkerTypeOK, HandlerTypeOK
<1>1. /\ pc[h] = "ack" /\ pc'[h] = "idle" /\ job'[h] = 0 /\ beating'[h] = FALSE
      /\ \A g \in Handler : g # h => /\ pc'[g] = pc[g] /\ job'[g] = job[g] /\ task'[g] = task[g]
                                     /\ beating'[g] = beating[g]
  BY DEF Finish, At, Goto
<1>2. CASE beating[h]
  <2>1. /\ pending' = pending \ {job[h]} /\ stream' = stream /\ delivered' = delivered
        /\ held' = [held EXCEPT ![Host(h)] = @ \ {job[h]}]
    BY <1>2 DEF Finish, ack
  <2>2. /\ \A w \in Worker : held[w] \ {job[h]} \subseteq held'[w]
        /\ \A w \in Worker : w # Host(h) => held'[w] = held[w]
    BY <2>1
  <2>. QED BY <1>1, <1>2, <2>1, <2>2 DEF Drop
<1>3. CASE ~beating[h]
  <2>1. pending' = pending /\ stream' = stream /\ delivered' = delivered /\ held' = held
    BY <1>3 DEF Finish, queueVars
  <2>. QED BY <1>1, <1>3, <2>1 DEF Drop
<1>. QED BY <1>2, <1>3

\* A worker process dies: its slots are empty and it remembers nothing.
Gone(w) ==
    /\ \A g \in Handler : Host(g) = w => pc'[g] = "idle" /\ job'[g] = 0 /\ beating'[g] = FALSE
    /\ \A g \in Handler : Host(g) # w => /\ pc'[g] = pc[g] /\ job'[g] = job[g] /\ task'[g] = task[g]
                                         /\ beating'[g] = beating[g]
    /\ \A v \in Worker : v # w => held'[v] = held[v]
    /\ stream' = stream /\ delivered' = delivered /\ pending' = pending

LEMMA CrashGone ==
    ASSUME TypeOK, NEW w \in Worker, Crash(w)
    PROVE  Gone(w)
<1>1. /\ \A g \in Handler : Host(g) = w => pc'[g] = "idle" /\ job'[g] = 0 /\ beating'[g] = FALSE
      /\ \A g \in Handler : Host(g) # w => /\ pc'[g] = pc[g] /\ job'[g] = job[g] /\ task'[g] = task[g]
                                           /\ beating'[g] = beating[g]
  BY DEF Crash
<1>2. /\ stream' = stream /\ delivered' = delivered /\ pending' = pending
      /\ \A v \in Worker : v # w => held'[v] = held[v]
  BY DEF Crash, ForgetHeld, TypeOK, QueueTypeOK
<1>. QED BY <1>1, <1>2 DEF Gone

\* A heartbeat ends.
LEMMA BeatStopsMutes ==
    ASSUME TypeOK, NEW h \in Handler, BeatStops(h)
    PROVE  /\ beating'[h] = FALSE /\ \A g \in Handler : g # h => beating'[g] = beating[g]
           /\ UNCHANGED <<pc, job, task, stream, delivered, pending, held>>
           /\ hiccups' # 0
<1>1. hiccups \in Nat
  BY PlatformAssumption DEF TypeOK, WorkerTypeOK, FaultTypeOK
<1>. QED BY <1>1 DEF BeatStops, queueVars, TypeOK, WorkerTypeOK, HandlerTypeOK

LEMMA GoesOnPc ==
    ASSUME TypeOK, NEW h \in Handler, GoesOn(h)
    PROVE  /\ pc[h] # "idle" /\ pc'[h] # "idle" /\ \A g \in Handler : g # h => pc'[g] = pc[g]
           /\ UNCHANGED <<job, task, beating, stream, delivered, pending, held>>
BY DEF GoesOn, Goto, queueVars, TypeOK, WorkerTypeOK, HandlerTypeOK

\* What is in the stream stays where it is.
LEMMA StreamStays ==
    ASSUME QueueTypeOK, stream' = stream \/ \E t \in RunTask : stream' = Append(stream, t)
    PROVE  /\ Len(stream) <= Len(stream')
           /\ \A m \in 1..Len(stream) : stream'[m] = stream[m]
BY DEF QueueTypeOK

--------------------------------------------------------------------------------
LEMMA JobStep ==
    ASSUME TypeOK, QueueInv, QueueStep
    PROVE  JobInv'
<1>. USE DEF TypeOK, QueueTypeOK
<1>0. ASSUME NEW g \in Handler
      PROVE  /\ pc[g] = "idle" => job[g] = 0 /\ ~beating[g]
             /\ pc[g] # "idle" => job[g] \in 1..delivered /\ task[g] = stream[job[g]]
             /\ job[g] # 0 => job[g] \in held[Host(g)]
             /\ Host(g) \in Worker
  BY HostType DEF QueueInv, JobInv
<1>1. ASSUME NEW h \in Handler, Reserve(h) PROVE JobInv'
  <2>1. PICK m \in 1..Len(stream) : Take(h, m)
    BY <1>1, ReserveTakes DEF QueueInv
  <2>2. ASSUME NEW g \in Handler, g # h
        PROVE  /\ pc'[g] = "idle" => job'[g] = 0 /\ ~beating'[g]
               /\ pc'[g] # "idle" => job'[g] \in 1..delivered' /\ task'[g] = stream'[job'[g]]
               /\ job'[g] # 0 => job'[g] \in held'[Host(g)]
    <3>1. /\ pc'[g] = pc[g] /\ job'[g] = job[g] /\ task'[g] = task[g] /\ beating'[g] = beating[g]
          /\ stream' = stream /\ delivered' \in Nat /\ delivered <= delivered' /\ held[Host(g)] \subseteq held'[Host(g)]
      BY <1>0, <2>1, <2>2 DEF Take
    <3>2. delivered \in Nat /\ 1..delivered \subseteq 1..delivered'
      BY <3>1
    <3>. QED BY <1>0, <3>1, <3>2
  <2>3. /\ pc'[h] = "check" /\ job'[h] \in 1..delivered' /\ task'[h] = stream'[job'[h]]
        /\ job'[h] \in held'[Host(h)]
    BY <1>0, <2>1 DEF Take
  <2>. QED BY <2>2, <2>3 DEF JobInv
<1>2. ASSUME NEW h \in Handler, Finish(h) PROVE JobInv'
  <2>1. Drop(h)
    BY <1>2, FinishDrops
  <2>2. \A g \in Handler : g # h /\ job[g] # 0 => job[g] \in held'[Host(g)]
    BY <1>0, <2>1 DEF Drop, QueueInv, HeldOnce
  <2>. QED BY <1>0, <2>1, <2>2 DEF Drop, JobInv
<1>3. ASSUME NEW h \in Handler, GoesOn(h) PROVE JobInv'
  BY <1>0, <1>3, GoesOnPc DEF JobInv
<1>4. ASSUME NEW h \in Handler, BeatStops(h) PROVE JobInv'
  BY <1>0, <1>4, BeatStopsMutes DEF JobInv
<1>5. ASSUME NEW w \in Worker, Crash(w) PROVE JobInv'
  <2>1. Gone(w)
    BY <1>5, CrashGone
  <2>2. ASSUME NEW g \in Handler
        PROVE  /\ pc'[g] = "idle" => job'[g] = 0 /\ ~beating'[g]
               /\ pc'[g] # "idle" => job'[g] \in 1..delivered' /\ task'[g] = stream'[job'[g]]
               /\ job'[g] # 0 => job'[g] \in held'[Host(g)]
    BY <1>0, <2>1 DEF Gone
  <2>. QED BY <2>2 DEF JobInv
<1>6. CASE Rest
  <2>1. /\ UNCHANGED <<pc, job, task, beating, delivered, held>>
        /\ \A m \in 1..Len(stream) : stream'[m] = stream[m]
    BY <1>6, StreamStays DEF Rest
  <2>2. 1..delivered \subseteq 1..Len(stream)
    OBVIOUS
  <2>. QED BY <1>0, <2>1, <2>2 DEF JobInv
<1>. QED BY <1>1, <1>2, <1>3, <1>4, <1>5, <1>6 DEF QueueStep

LEMMA HeldStep ==
    ASSUME TypeOK, QueueInv, QueueStep
    PROVE  HeldOnce'
<1>0. ASSUME NEW g \in Handler
      PROVE  /\ job[g] # 0 => job[g] \in held[Host(g)]
             /\ \A h \in Handler : Host(g) = Host(h) /\ g # h /\ job[g] # 0 => job[g] # job[h]
  BY DEF QueueInv, JobInv, HeldOnce
<1>1. ASSUME NEW h \in Handler, Reserve(h) PROVE HeldOnce'
  <2>1. PICK m \in 1..Len(stream) : Take(h, m)
    BY <1>1, ReserveTakes DEF QueueInv
  <2>2. \A g \in Handler : Host(g) = Host(h) => job[g] # m
    BY <1>0, <2>1 DEF Take
  <2>. QED BY <1>0, <2>1, <2>2 DEF Take, HeldOnce
<1>2. ASSUME NEW h \in Handler, Finish(h) PROVE HeldOnce'
  <2>1. job'[h] = 0 /\ \A g \in Handler : g # h => job'[g] = job[g]
    BY <1>2, FinishDrops DEF Drop
  <2>. QED BY <1>0, <2>1 DEF HeldOnce
<1>3. ASSUME NEW h \in Handler, GoesOn(h) \/ BeatStops(h) PROVE HeldOnce'
  <2>1. job' = job
    BY <1>3, GoesOnPc, BeatStopsMutes
  <2>. QED BY <1>0, <2>1 DEF HeldOnce
<1>4. ASSUME NEW w \in Worker, Crash(w) PROVE HeldOnce'
  <2>1. \A g \in Handler : job'[g] = IF Host(g) = w THEN 0 ELSE job[g]
    BY <1>4, CrashGone DEF Gone
  <2>. QED BY <1>0, <2>1 DEF HeldOnce
<1>5. CASE Rest
  BY <1>0, <1>5 DEF Rest, HeldOnce
<1>. QED BY <1>1, <1>2, <1>3, <1>4, <1>5 DEF QueueStep

LEMMA BeatStep ==
    ASSUME TypeOK, QueueInv, QueueStep, hiccups' = 0 => hiccups = 0
    PROVE  OneBeater' /\ Undisturbed'
<1>0. /\ \A g, h \in Handler : beating[g] /\ beating[h] /\ job[g] = job[h] => g = h
      /\ hiccups = 0 => \A h \in Handler : pc[h] # "idle" => beating[h] /\ job[h] \in pending
      /\ \A h \in Handler : pc[h] = "idle" => ~beating[h]
  BY DEF QueueInv, JobInv, OneBeater, Undisturbed
<1>1. ASSUME NEW h \in Handler, Reserve(h) PROVE OneBeater' /\ Undisturbed'
  <2>1. PICK m \in 1..Len(stream) : Take(h, m)
    BY <1>1, ReserveTakes DEF QueueInv
  <2>. QED BY <1>0, <2>1 DEF Take, OneBeater, Undisturbed
<1>2. ASSUME NEW h \in Handler, Finish(h) PROVE OneBeater' /\ Undisturbed'
  <2>1. Drop(h)
    BY <1>2, FinishDrops
  <2>2. OneBeater'
    BY <1>0, <2>1 DEF Drop, OneBeater
  <2>3. ASSUME hiccups' = 0, NEW g \in Handler, pc'[g] # "idle" PROVE beating'[g] /\ job'[g] \in pending'
    <3>1. g # h /\ pc[g] # "idle" /\ job'[g] = job[g] /\ beating'[g] = beating[g] /\ pc[h] # "idle"
      BY <2>1, <2>3 DEF Drop
    <3>2. beating[g] /\ job[g] \in pending /\ beating[h]
      BY <1>0, <2>3, <3>1
    <3>3. job[g] # job[h]
      BY <1>0, <3>1, <3>2
    <3>. QED BY <2>1, <3>1, <3>2, <3>3 DEF Drop
  <2>. QED BY <2>2, <2>3 DEF Undisturbed
<1>3. ASSUME NEW h \in Handler, GoesOn(h) PROVE OneBeater' /\ Undisturbed'
  BY <1>0, <1>3, GoesOnPc DEF OneBeater, Undisturbed
<1>4. ASSUME NEW h \in Handler, BeatStops(h) PROVE OneBeater' /\ Undisturbed'
  BY <1>0, <1>4, BeatStopsMutes DEF OneBeater, Undisturbed
<1>5. ASSUME NEW w \in Worker, Crash(w) PROVE OneBeater' /\ Undisturbed'
  BY <1>0, <1>5, CrashGone DEF Gone, OneBeater, Undisturbed
<1>6. CASE Rest
  BY <1>0, <1>6 DEF Rest, OneBeater, Undisturbed
<1>. QED BY <1>1, <1>2, <1>3, <1>4, <1>5, <1>6 DEF QueueStep

LEMMA InitQueue == Init => QueueInv
BY DEF Init, WorkerInit, QueueInit, QueueInv, JobInv, HeldOnce, OneBeater, Undisturbed

LEMMA NextQueue == TypeOK /\ QueueInv /\ [Next]_vars => QueueInv'
BY QueueKinds, JobStep, HeldStep, BeatStep DEF QueueInv

\* A worker process never drives the same message in two of its slots, however often the
\* message is redelivered (TaskQueue._held against XAUTOCLAIM).
THEOREM MessageHeldOnce == Spec => []HeldOnce
<1>1. QueueInv => HeldOnce
  BY DEF QueueInv
<1>. QED BY <1>1, InitQueue, NextQueue, TypeCorrect, PTL DEF Spec

--------------------------------------------------------------------------------
(***************************************************************************)
(* The reaper reads the last-delivered-id, the pending list and the rest   *)
(* of the stream while workers take and acknowledge messages.  Read in     *)
(* this order nothing slips through: what was delivered before the first   *)
(* read can only leave the pending list, and what was not is found in the  *)
(* stream whether or not it is delivered in between.                       *)
(***************************************************************************)
\* No message of r up to m is still to be acknowledged.
Cleared(r, n) == \A m \in 1..n : stream[m].run = r => m <= delivered /\ m \notin pending

ReapInv == ~FreshDeploy =>
    /\ grouped
    /\ rpc \in {"holding", "waiting"} => rlast <= delivered
    /\ rpc = "waiting" => \A r \in rlive : Cleared(r, rlast)
    /\ rpc \in {"judge", "announce"} => rmark <= Len(stream) /\ \A r \in rlive : Cleared(r, rmark)

LEMMA QueueGrows ==
    ASSUME TypeOK, QueueInv, QueueStep
    PROVE  /\ delivered \in Nat /\ delivered' \in Nat /\ delivered <= delivered'
           /\ \A m \in pending' : m \in pending \/ m > delivered
           /\ Len(stream) \in Nat /\ Len(stream') \in Nat /\ Len(stream) <= Len(stream')
           /\ \A m \in 1..Len(stream) : stream'[m] = stream[m]
<1>. USE DEF TypeOK, QueueTypeOK
<1>0. delivered \in Nat /\ Len(stream) \in Nat
  OBVIOUS
<1>1. ASSUME NEW h \in Handler, Reserve(h)
      PROVE  /\ stream' = stream /\ delivered' \in Nat /\ delivered <= delivered'
             /\ \A m \in pending' : m \in pending \/ m > delivered
  <2>1. PICK m \in 1..Len(stream) : Take(h, m) /\ (m = delivered + 1 \/ m \in pending)
    BY <1>1, ReserveTakes DEF QueueInv
  <2>. QED BY <1>0, <2>1 DEF Take
<1>2. ASSUME NEW h \in Handler, Finish(h)
      PROVE  stream' = stream /\ delivered' = delivered /\ pending' \subseteq pending
  BY <1>2, FinishDrops DEF Drop
<1>3. ASSUME NEW h \in Handler, GoesOn(h) \/ BeatStops(h)
      PROVE  stream' = stream /\ delivered' = delivered /\ pending' = pending
  BY <1>3, GoesOnPc, BeatStopsMutes
<1>4. ASSUME NEW w \in Worker, Crash(w)
      PROVE  stream' = stream /\ delivered' = delivered /\ pending' = pending
  BY <1>4, CrashGone DEF Gone
<1>5. CASE Rest
  <2>1. /\ delivered' = delivered /\ pending' = pending
        /\ stream' = stream \/ \E t \in RunTask : stream' = Append(stream, t)
    BY <1>5 DEF Rest
  <2>2. Len(stream') \in Nat
    BY <2>1
  <2>. QED BY <1>0, <2>1, <2>2, StreamStays
<1>. QED BY <1>0, <1>1, <1>2, <1>3, <1>4, <1>5 DEF QueueStep

\* The reaper does not move; others do.
LEMMA ReapStill ==
    ASSUME TypeOK, QueueInv, ReapInv, QueueStep, grouped => grouped',
           UNCHANGED <<rpc, rlive, rlast, rmark>>
    PROVE  ReapInv'
<1>. SUFFICES ASSUME ~FreshDeploy PROVE ReapInv'
  BY DEF ReapInv
<1>0. rlast \in Nat /\ rmark \in Nat
  BY DEF TypeOK, CronTypeOK
<1>1. ASSUME NEW n \in Nat, n <= Len(stream), NEW r \in Run, Cleared(r, n) PROVE Cleared(r, n)'
  BY <1>1, QueueGrows DEF Cleared
<1>2. delivered <= Len(stream) /\ rlive \subseteq Run
  BY DEF TypeOK, QueueTypeOK, CronTypeOK
<1>3. grouped' /\ (rpc \in {"holding", "waiting"} => rlast <= delivered')
  BY <1>0, QueueGrows DEF ReapInv
<1>4. rpc = "waiting" => \A r \in rlive : Cleared(r, rlast)'
  <2>1. rpc = "waiting" => rlast <= Len(stream)
    BY <1>0, <1>2, QueueGrows DEF ReapInv
  <2>. QED BY <1>0, <1>1, <1>2, <2>1 DEF ReapInv
<1>5. rpc \in {"judge", "announce"} => rmark <= Len(stream') /\ \A r \in rlive : Cleared(r, rmark)'
  BY <1>0, <1>1, <1>2, QueueGrows DEF ReapInv
<1>. QED BY <1>3, <1>4, <1>5 DEF ReapInv, Cleared

LEMMA ReaperStepInv ==
    ASSUME TypeOK, ReapInv, ReaperStep
    PROVE  ReapInv'
<1>. SUFFICES ASSUME ~FreshDeploy PROVE ReapInv'
  BY DEF ReapInv
<1>0. /\ grouped' = grouped /\ stream' = stream /\ delivered' = delivered /\ pending' = pending
      /\ \A r, n : Cleared(r, n)' <=> Cleared(r, n)
  <2>1. UNCHANGED queueVars
    BY DEF ReaperStep, ReapRows, ReapGroup, ReapHolding, ReapWaiting, ReapJudge, ReapAnnounce, ReapDone
  <2>. QED BY <2>1 DEF queueVars, Cleared
<1>1. grouped /\ delivered \in Nat /\ delivered <= Len(stream) /\ Len(stream) \in Nat /\ rlast \in Nat
  BY DEF ReapInv, TypeOK, QueueTypeOK, CronTypeOK
<1>2. CASE ReapRows \/ ReapDone
  <2>1. rpc' \in {"group", "idle"}
    BY <1>2 DEF ReapRows, ReapDone, ReaperRest
  <2>. QED BY <1>0, <1>1, <2>1 DEF ReapInv
<1>3. CASE ReapGroup
  <2>1. rpc' = "holding" /\ rlast' = delivered
    BY <1>1, <1>3 DEF ReapGroup
  <2>. QED BY <1>0, <1>1, <2>1 DEF ReapInv
<1>4. CASE ReapHolding
  <2>1. /\ rpc = "holding" /\ rpc' = "waiting" /\ rlast' = rlast /\ rlive' = rlive \ HoldingRun
        /\ rlast <= delivered
    BY <1>4 DEF ReapHolding, ReapInv
  <2>2. \A r \in rlive' : Cleared(r, rlast)
    BY <1>1, <2>1 DEF HoldingRun, Cleared
  <2>. QED BY <1>0, <1>1, <2>1, <2>2 DEF ReapInv
<1>5. CASE ReapWaiting
  <2>1. /\ rpc = "waiting" /\ rpc' = "judge" /\ rmark' = Len(stream)
        /\ rlive' = rlive \ WaitingRun(rlast) /\ \A r \in rlive : Cleared(r, rlast)
    BY <1>5 DEF ReapWaiting, ReapInv
  <2>2. \A r \in rlive' : Cleared(r, Len(stream))
    BY <1>1, <2>1 DEF WaitingRun, Cleared
  <2>. QED BY <1>0, <1>1, <2>1, <2>2 DEF ReapInv
<1>6. ASSUME NEW r \in Run, ReapJudge(r) PROVE ReapInv'
  <2>1. /\ rpc = "judge" /\ rpc' \in {"judge", "announce"} /\ rlive' \subseteq rlive /\ rmark' = rmark
    BY <1>6 DEF ReapJudge
  <2>. QED BY <1>0, <1>1, <2>1 DEF ReapInv
<1>7. CASE ReapAnnounce
  <2>1. rpc = "announce" /\ rpc' = "judge" /\ rlive' = rlive /\ rmark' = rmark
    BY <1>7 DEF ReapAnnounce
  <2>. QED BY <1>0, <1>1, <2>1 DEF ReapInv
<1>. QED BY <1>2, <1>3, <1>4, <1>5, <1>6, <1>7 DEF ReaperStep

LEMMA InitReap == Init => ReapInv
BY DEF Init, CronInit, QueueInit, ReapInv

LEMMA NextReap == TypeOK /\ QueueInv /\ ReapInv /\ [Next]_vars => ReapInv'
<1>. SUFFICES ASSUME TypeOK, QueueInv, ReapInv, [Next]_vars PROVE ReapInv'
  OBVIOUS
<1>1. QueueStep
  BY QueueKinds
<1>2. grouped => grouped'
  <2>1. ASSUME NEW h \in Handler, HandlerStep(h) PROVE grouped' = grouped
    <3>1. CASE Reserve(h) \/ Finish(h)
      BY <3>1 DEF Reserve, ReadNew, Claim, Finish, ack, queueVars
    <3>. QED BY <2>1, <3>1, BusySteps DEF GoesOn, queueVars
  <2>2. CASE WorkerFault
    BY <2>2 DEF WorkerFault, Hiccup, BeatStops, Crash, ForgetHeld, queueVars
  <2>3. CASE \/ UserActs \/ UserDeletes \/ ReaperRuns \/ SweeperRuns \/ TimePasses \/ WorkerBoots
             \/ (\E c \in Client : ApiRuns(c)) \/ OtherFault \/ UNCHANGED vars
    BY <2>3 DEF UserActs, SubmitRun, RaiseFlag, ReadApproval, UserDeletes, DeleteThread, WorkerBoots,
                Boot, ensure_group, ApiRuns, RequestStep, CreateRun, PublishRun, CancelRow,
                AnnounceCancel, ResumeRow, Republish, publish,
                ReaperRuns, ReaperStep, ReapRows, ReapGroup, ReapHolding, ReapWaiting, ReapJudge,
                ReapAnnounce, ReapDone, SweeperRuns, SweeperStep, SweepRows, SweepJudge, SweepAnnounce,
                SweepDone, TimePasses, OtherFault, DropRequest, CronDies, vars, queueVars
  <2>. QED BY <2>1, <2>2, <2>3 DEF Next, WorkerRuns
<1>3. CASE ReaperRuns
  BY <1>3, ReaperStepInv DEF ReaperRuns
<1>4. CASE UNCHANGED reaperVars
  BY <1>1, <1>2, <1>4, ReapStill DEF reaperVars
<1>5. CASE OtherFault
  <2>1. CASE UNCHANGED reaperVars
    BY <1>4, <2>1
  <2>2. CASE ReaperRest
    BY <1>2, <2>2 DEF ReaperRest, ReapInv
  <2>. QED BY <1>5, <2>1, <2>2 DEF OtherFault, CronDies, cronVars
<1>. QED
  BY <1>3, <1>4, <1>5
     DEF Next, WorkerRuns, WorkerFault, WorkerBoots, UserActs, UserDeletes, ApiRuns, SweeperRuns,
         SweeperStep, SweepRows, SweepJudge, SweepAnnounce, SweepDone, TimePasses, cronVars, vars

\* Once the consumer group exists (some worker has ever started), a run the reaper ends up
\* suspecting has no unacknowledged message among those that existed when it finished
\* reading, whatever workers took and acknowledged between its three reads.
THEOREM OrphansAreOrphans == Spec => [](~FreshDeploy => OrphansHaveNoMessage)
<1>1. ReapInv => (~FreshDeploy => OrphansHaveNoMessage)
  BY DEF ReapInv, Cleared, OrphansHaveNoMessage
<1>. QED BY <1>1, InitQueue, NextQueue, InitReap, NextReap, TypeCorrect, PTL DEF Spec

--------------------------------------------------------------------------------
(***************************************************************************)
(* First tasks.  A run has one task without decisions: create() is the     *)
(* only source of one, and the decisions of an approval answer an          *)
(* interrupt that was shown, whose number is not 0.                        *)
(***************************************************************************)
FirstTask(r) == [run |-> r, answer |-> 0]

\* Every interrupt shown, and every answer on its way to the queue, has a number.
AnswersReal ==
    /\ \A r \in Run : 0 \notin ShownAsk(r)
    /\ \A h \in Handler : pc[h] \in {"suspend", "interrupt"} => seen[h] # 0
    /\ \A c \in Client : req[c].op \in {"resume", "republish"} => req[c].answer # 0

PublishingFirst(c, r) == req[c].op = "publish" /\ req[c].run = r

\* The first task of r is still to be published.
Unpublished(r) == status[r] = "absent" \/ \E c \in Client : PublishingFirst(c, r)

OneFirst == \A r \in Run :
    /\ \A m, n \in 1..Len(stream) : stream[m] = FirstTask(r) /\ stream[n] = FirstTask(r) => m = n
    /\ Unpublished(r) => \A m \in 1..Len(stream) : stream[m] # FirstTask(r)
    /\ \A c, d \in Client : PublishingFirst(c, r) /\ PublishingFirst(d, r) => c = d
    /\ status[r] = "absent" => \A c \in Client : ~PublishingFirst(c, r)

TaskInv == AnswersReal /\ OneFirst

\* What an appended event does to the interrupts shown.
LEMMA AppendShown ==
    ASSUME LogTypeOK, NEW r \in Run, NEW e \in Event, append(r, e),
           e.type = "interrupt" => e.ask # 0, NEW q \in Run, 0 \notin ShownAsk(q)
    PROVE  0 \notin ShownAsk(q)'
<1>1. log' = [log EXCEPT ![r] = Append(@, e)] /\ log[r] \in Seq(Event)
  BY DEF append, LogTypeOK
<1>2. CASE q # r
  <2>1. log'[q] = log[q]
    BY <1>1, <1>2 DEF LogTypeOK
  <2>. QED BY <2>1 DEF ShownAsk
<1>3. CASE q = r
  <2>1. log'[q] = Append(log[q], e)
    BY <1>1, <1>3 DEF LogTypeOK
  <2>2. \A i \in 1..Len(log[q]) : log[q][i].type = "interrupt" => log[q][i].ask # 0
    BY DEF ShownAsk
  <2>3. \A i \in 1..Len(log'[q]) : log'[q][i].type = "interrupt" => log'[q][i].ask # 0
    BY <1>1, <1>3, <2>1, <2>2
  <2>. QED BY <2>3 DEF ShownAsk
<1>. QED BY <1>2, <1>3

\* Every step, as far as the logs are concerned.
LogStep ==
    \/ UNCHANGED log
    \/ \E h \in Handler : EmitStarted(h) \/ EmitInterrupt(h) \/ EmitProgress(h) \/ EmitToken(h)
    \/ \E r \in Run, v \in TERMINAL_EVENT_TYPE \cup {"sandbox.ready"} : append(r, Plain(v))

LEMMA LogKinds ==
    ASSUME TypeOK, [Next]_vars
    PROVE  LogStep
<1>1. ASSUME NEW h \in Handler, HandlerStep(h) PROVE LogStep
  <2>0. RunIn(h) \in Run
    BY RunInType DEF TypeOK, WorkerTypeOK
  <2>1. CASE EmitReady(h)
    BY <2>0, <2>1 DEF EmitReady, LogStep
  <2>2. CASE EmitVerdict(h)
    <3>1. VerdictOf(pc[h]) \in TERMINAL_EVENT_TYPE
      BY DEF VerdictOf, TERMINAL_EVENT_TYPE
    <3>. QED BY <2>0, <2>2, <3>1 DEF EmitVerdict, LogStep
  <2>3. CASE EmitStarted(h) \/ EmitInterrupt(h) \/ EmitProgress(h) \/ EmitToken(h)
    BY <2>3 DEF LogStep
  <2>4. CASE \/ CheckCancel(h) \/ CheckThread(h) \/ StartFirst(h) \/ StartResumed(h) \/ Acquire(h)
             \/ EnterGraph(h) \/ GraphStep(h) \/ GraphEnds(h) \/ GraphRaises(h) \/ Inspect(h)
             \/ Suspend(h) \/ Succeed(h) \/ Fail(h) \/ Stop(h) \/ Halt(h) \/ Reserve(h) \/ Finish(h)
    BY <2>4 DEF CheckCancel, CheckThread, StartFirst, StartResumed, Acquire, EnterGraph, GraphStep,
                GraphEnds, GraphRaises, Inspect, Suspend, Succeed, Fail, Stop, Halt, Settle, Reserve,
                Finish, LogStep
  <2>. QED BY <1>1, <2>1, <2>2, <2>3, <2>4 DEF HandlerStep
<1>2. ASSUME NEW c \in Client, RequestStep(c) PROVE LogStep
  <2>1. CASE AnnounceCancel(c)
    BY <2>1 DEF AnnounceCancel, TypeOK, ApiTypeOK, Request, LogStep, TERMINAL_EVENT_TYPE
  <2>. QED BY <1>2, <2>1 DEF RequestStep, CreateRun, PublishRun, CancelRow, ResumeRow, Republish, LogStep
<1>3. CASE ReaperStep
  <2>1. CASE ReapAnnounce
    BY <2>1 DEF ReapAnnounce, TypeOK, CronTypeOK, LogStep, TERMINAL_EVENT_TYPE
  <2>. QED BY <1>3, <2>1 DEF ReaperStep, ReapRows, ReapGroup, ReapHolding, ReapWaiting, ReapJudge,
                             ReapDone, LogStep
<1>4. CASE SweeperStep
  <2>1. CASE SweepAnnounce
    BY <2>1 DEF SweepAnnounce, TypeOK, CronTypeOK, LogStep, TERMINAL_EVENT_TYPE
  <2>. QED BY <1>4, <2>1 DEF SweeperStep, SweepRows, SweepJudge, SweepDone, LogStep
<1>5. CASE \/ WorkerFault \/ WorkerBoots \/ UserActs \/ UserDeletes \/ OtherFault \/ TimePasses
           \/ UNCHANGED vars
  BY <1>5 DEF WorkerFault, Hiccup, BeatStops, Crash, WorkerBoots, Boot, UserActs, SubmitRun, RaiseFlag,
              ReadApproval, UserDeletes, DeleteThread, OtherFault, DropRequest, CronDies, TimePasses,
              vars, LogStep
<1>. QED BY <1>1, <1>2, <1>3, <1>4, <1>5 DEF Next, WorkerRuns, ApiRuns, ReaperRuns, SweeperRuns

\* Every step, as far as requests, the stream and the appearance of rows are concerned.
SameRows == \A r \in Run : status'[r] = "absent" <=> status[r] = "absent"

RequestTurns(c) ==
    /\ SameRows /\ UNCHANGED stream
    /\ \E x \in Request : /\ req' = [req EXCEPT ![c] = x]
                          /\ x.op # "publish"
                          /\ x.op \in {"resume", "republish"} => x.answer # 0

FirstStep ==
    \/ UNCHANGED <<req, stream>> /\ SameRows
    \/ \E c \in Client : CreateRun(c) \/ PublishRun(c) \/ Republish(c) \/ RequestTurns(c)

LEMMA TransitRows ==
    ASSUME StoreTypeOK, NEW r \in Run, NEW from, NEW to, TransitFrom(r, from, to),
           "absent" \notin from, to # "absent"
    PROVE  SameRows
BY DEF StoreTypeOK, TransitFrom, SameRows

LEMMA FirstKinds ==
    ASSUME TypeOK, AnswersReal, [Next]_vars
    PROVE  FirstStep
<1>0. "absent" \notin CANCELLABLE_STATUS \cup RESUMABLE_STATUS
  BY DEF CANCELLABLE_STATUS, RESUMABLE_STATUS
<1>1. status' = status => SameRows
  BY DEF SameRows
<1>2. ASSUME NEW h \in Handler, WorkerRuns(h) PROVE FirstStep
  <2>1. SameRows
    <3>1. CASE StartFirst(h) \/ StartResumed(h)
      <4>1. \E from \in {{"queued"}, RESUMABLE_STATUS} : TransitFrom(RunIn(h), from, "running")
        BY <3>1 DEF StartFirst, StartResumed, startFirst, startResumed
      <4>. QED BY <1>0, <4>1, RunInType, TransitRows DEF TypeOK, WorkerTypeOK
    <3>2. CASE Suspend(h) \/ Succeed(h) \/ Fail(h) \/ Stop(h) \/ Halt(h)
      <4>1. \E to \in {"waiting_approval", "succeeded", "failed", "cancelled"} :
              TransitFrom(RunIn(h), CANCELLABLE_STATUS, to)
        BY <3>2 DEF Suspend, Succeed, Fail, Stop, Halt, Settle, Transit, wait_approval, succeed,
                    fail, cancel
      <4>. QED BY <1>0, <4>1, RunInType, TransitRows DEF TypeOK, WorkerTypeOK
    <3>3. CASE \/ CheckCancel(h) \/ CheckThread(h) \/ Acquire(h) \/ EnterGraph(h) \/ GraphStep(h)
               \/ GraphEnds(h) \/ GraphRaises(h) \/ Inspect(h) \/ Reserve(h) \/ Finish(h)
               \/ EmitStarted(h) \/ EmitReady(h) \/ EmitProgress(h) \/ EmitToken(h) \/ EmitInterrupt(h) \/ EmitVerdict(h)
      BY <1>1, <3>3 DEF CheckCancel, CheckThread, Acquire, EnterGraph, GraphStep, GraphEnds, GraphRaises,
                        Inspect, Reserve, Finish, EmitStarted, EmitReady, EmitProgress, EmitToken, EmitInterrupt,
                        EmitVerdict, storeVars
    <3>. QED BY <1>2, <3>1, <3>2, <3>3 DEF WorkerRuns, HandlerStep
  <2>2. UNCHANGED <<req, stream>>
    <3>1. CASE Reserve(h) \/ Finish(h)
      BY <1>2, <3>1 DEF WorkerRuns, Reserve, ReadNew, Claim, Finish, ack, queueVars
    <3>. QED BY <1>2, <3>1, BusySteps DEF WorkerRuns, GoesOn, queueVars
  <2>. QED BY <2>1, <2>2 DEF FirstStep
<1>3. CASE WorkerFault \/ WorkerBoots \/ UserDeletes \/ TimePasses \/ UNCHANGED vars
  <2>1. UNCHANGED <<req, stream, status>>
    BY <1>3 DEF WorkerFault, Hiccup, BeatStops, Crash, ForgetHeld, WorkerBoots, Boot, ensure_group,
                UserDeletes, DeleteThread, TimePasses, GrowOlder, vars, storeVars, queueVars
  <2>. QED BY <1>1, <2>1 DEF FirstStep
<1>4. CASE UserActs
  <2>1. PICK c \in Client, r \in Run : SubmitRun(c, r) \/ RaiseFlag(c, r) \/ ReadApproval(c, r)
    BY <1>4 DEF UserActs
  <2>2. PICK op \in {"submit", "cancel", "resume"}, k \in 0..MaxAsk :
          Next_op(c, op, r, k) /\ (op = "resume" => k # 0)
    BY <2>1, ShownAskType, PlatformAssumption
       DEF SubmitRun, RaiseFlag, ReadApproval, TypeOK, AnswersReal
  <2>3. [op |-> op, run |-> r, answer |-> k] \in Request
    BY DEF Request, RequestOp
  <2>4. UNCHANGED <<stream, status>>
    BY <2>1 DEF SubmitRun, RaiseFlag, ReadApproval, storeVars, queueVars
  <2>. QED BY <1>1, <2>2, <2>3, <2>4 DEF Next_op, RequestTurns, FirstStep
<1>5. ASSUME NEW c \in Client, ApiRuns(c) PROVE FirstStep
  <2>0. /\ req[c].run \in Run /\ req[c].answer \in 0..MaxAsk
        /\ NoRequest \in Request /\ NoRequest.op = "none"
    BY AnyRunType DEF NoRequest, TypeOK, ApiTypeOK, Request
  <2>1. CASE CreateRun(c) \/ PublishRun(c) \/ Republish(c)
    BY <2>1 DEF FirstStep
  <2>2. CASE CancelRow(c)
    <3>1. SameRows
      BY <1>0, <2>0, <2>2, TransitRows DEF CancelRow, cancel, Transit, TypeOK
    <3>2. [op |-> "announce", run |-> req[c].run, answer |-> 0] \in Request
      BY <2>0, PlatformAssumption DEF Request, RequestOp
    <3>. QED BY <2>0, <2>2, <3>1, <3>2
             DEF CancelRow, Next_op, Done, RequestTurns, FirstStep, queueVars
  <2>3. CASE AnnounceCancel(c)
    BY <1>1, <2>0, <2>3 DEF AnnounceCancel, Done, RequestTurns, FirstStep, storeVars, queueVars
  <2>4. CASE ResumeRow(c)
    <3>1. SameRows
      BY <1>0, <2>0, <2>4, TransitRows DEF ResumeRow, resume, TypeOK
    <3>2. [op |-> "republish", run |-> req[c].run, answer |-> req[c].answer] \in Request
      BY <2>0 DEF Request, RequestOp
    <3>3. req[c].answer # 0
      BY <2>4 DEF ResumeRow, AnswersReal
    <3>. QED BY <2>0, <2>4, <3>1, <3>2, <3>3
             DEF ResumeRow, Next_op, Done, RequestTurns, FirstStep, queueVars
  <2>. QED BY <1>5, <2>1, <2>2, <2>3, <2>4 DEF ApiRuns, RequestStep
<1>6. CASE ReaperRuns \/ SweeperRuns
  <2>1. UNCHANGED <<req, stream>>
    BY <1>6 DEF ReaperRuns, ReaperStep, ReapRows, ReapGroup, ReapHolding, ReapWaiting, ReapJudge,
                ReapAnnounce, ReapDone, SweeperRuns, SweeperStep, SweepRows, SweepJudge, SweepAnnounce,
                SweepDone, queueVars
  <2>2. ASSUME NEW r \in Run, ReapJudge(r) \/ SweepJudge(r) PROVE SameRows
    <3>1. \E to \in {"failed", "cancelled"} : TransitFrom(r, CANCELLABLE_STATUS, to)
      BY <2>2 DEF ReapJudge, SweepJudge, fail, cancel, Transit
    <3>. QED BY <1>0, <3>1, TransitRows DEF TypeOK
  <2>3. SameRows
    BY <1>1, <1>6, <2>2
       DEF ReaperRuns, ReaperStep, ReapRows, ReapGroup, ReapHolding, ReapWaiting,
           ReapAnnounce, ReapDone, SweeperRuns, SweeperStep, SweepRows, SweepAnnounce, SweepDone, storeVars
  <2>. QED BY <2>1, <2>3 DEF FirstStep
<1>7. CASE OtherFault
  <2>0. NoRequest \in Request /\ NoRequest.op = "none"
    BY AnyRunType DEF NoRequest
  <2>1. UNCHANGED <<stream, status>>
    BY <1>7 DEF OtherFault, DropRequest, CronDies, storeVars, queueVars
  <2>. QED BY <1>1, <1>7, <2>0, <2>1 DEF OtherFault, DropRequest, CronDies, Done, RequestTurns, FirstStep
<1>. QED BY <1>2, <1>3, <1>4, <1>5, <1>6, <1>7 DEF Next

LEMMA ShownStep ==
    ASSUME TypeOK, AnswersReal, LogStep, NEW q \in Run
    PROVE  0 \notin ShownAsk(q)'
<1>0. LogTypeOK /\ 0 \notin ShownAsk(q)
  BY DEF TypeOK, AnswersReal
<1>1. CASE UNCHANGED log
  BY <1>0, <1>1 DEF ShownAsk
<1>2. ASSUME NEW h \in Handler, EmitStarted(h) \/ EmitInterrupt(h) \/ EmitProgress(h) \/ EmitToken(h)
      PROVE  0 \notin ShownAsk(q)'
  <2>0. RunIn(h) \in Run
    BY RunInType DEF TypeOK, WorkerTypeOK
  <2>1. CASE EmitStarted(h)
    <3>. DEFINE again == (task[h].answer # 0 \/ mode[h] = "resumed")
    <3>1. again \in BOOLEAN
      OBVIOUS
    <3>2. RunStarted(again) \in Event /\ RunStarted(again).type # "interrupt"
      BY <3>1, StartedType DEF RunStarted
    <3>. QED BY <1>0, <2>0, <2>1, <3>2, AppendShown DEF EmitStarted
  <2>2. CASE EmitInterrupt(h)
    <3>1. Interrupt(seen[h]) \in Event /\ Interrupt(seen[h]).ask # 0
      BY <2>2, InterruptType DEF EmitInterrupt, At, Interrupt, AnswersReal, TypeOK, WorkerTypeOK, HandlerTypeOK
    <3>. QED BY <1>0, <2>0, <2>2, <3>1, AppendShown DEF EmitInterrupt
  <2>3. CASE EmitProgress(h) \/ EmitToken(h)
    <3>1. PICK v \in {"progress", "token"} : append(RunIn(h), Plain(v))
      BY <2>3 DEF EmitProgress, EmitToken
    <3>2. Plain(v) \in Event /\ Plain(v).type # "interrupt"
      BY PlainType DEF Plain, EventType
    <3>. QED BY <1>0, <2>0, <3>1, <3>2, AppendShown
  <2>. QED BY <1>2, <2>1, <2>2, <2>3
<1>3. ASSUME NEW r \in Run, NEW v \in TERMINAL_EVENT_TYPE \cup {"sandbox.ready"}, append(r, Plain(v))
      PROVE  0 \notin ShownAsk(q)'
  <2>1. Plain(v) \in Event /\ Plain(v).type # "interrupt"
    BY PlainType DEF Plain, EventType, TERMINAL_EVENT_TYPE
  <2>. QED BY <1>0, <1>3, <2>1, AppendShown
<1>. QED BY <1>1, <1>2, <1>3 DEF LogStep

LEMMA SeenStep ==
    ASSUME TypeOK, AnswersReal, [Next]_vars, NEW g \in Handler, pc'[g] \in {"suspend", "interrupt"}
    PROVE  seen'[g] # 0
<1>. USE DEF TypeOK, WorkerTypeOK, HandlerTypeOK
<1>0. pc[g] \in {"suspend", "interrupt"} => seen[g] # 0
  BY DEF AnswersReal
<1>1. ASSUME NEW h \in Handler, HandlerStep(h) PROVE seen'[g] # 0
  <2>1. CASE Inspect(h)
    BY <1>0, <2>1 DEF Inspect, Goto
  <2>2. CASE Suspend(h)
    BY <1>0, <2>2 DEF Suspend, Settle, Only, Goto, At
  <2>3. CASE Reserve(h) \/ Finish(h)
    BY <1>0, <2>3 DEF Reserve, Finish, Goto
  <2>4. CASE GraphStep(h) \/ StartResumed(h)
    BY <1>0, <2>4 DEF GraphStep, StartResumed, Goto
  <2>5. CASE \/ CheckCancel(h) \/ CheckThread(h) \/ StartFirst(h) \/ Acquire(h)
             \/ EmitStarted(h) \/ EmitReady(h) \/ EmitProgress(h) \/ EmitToken(h) \/ EmitInterrupt(h) \/ EmitVerdict(h)
             \/ EnterGraph(h) \/ GraphEnds(h) \/ GraphRaises(h)
             \/ Succeed(h) \/ Fail(h) \/ Stop(h) \/ Halt(h)
    <3>1. UNCHANGED seen /\ \E p \in HandlerPc \ {"suspend", "interrupt"} : Goto(h, p)
      BY <2>5, BusyPc
         DEF CheckCancel, CheckThread, StartFirst, Acquire, EmitStarted, EmitReady, EmitProgress, EmitToken,
             EmitInterrupt, EmitVerdict, EnterGraph, GraphEnds, GraphRaises, Succeed, Fail, Stop, Halt,
             Settle, Only
    <3>. QED BY <1>0, <3>1 DEF Goto
  <2>. QED BY <1>1, <2>1, <2>2, <2>3, <2>4, <2>5 DEF HandlerStep
<1>2. CASE WorkerFault
  <2>1. ASSUME NEW h \in Handler, Hiccup(h) \/ BeatStops(h) PROVE seen'[g] # 0
    BY <1>0, <2>1 DEF Hiccup, BeatStops, Only, Goto
  <2>2. ASSUME NEW w \in Worker, Crash(w) PROVE seen'[g] # 0
    BY <1>0, <2>2 DEF Crash
  <2>. QED BY <1>2, <2>1, <2>2 DEF WorkerFault
<1>3. CASE UNCHANGED <<pc, seen>>
  BY <1>0, <1>3
<1>. QED
  BY <1>1, <1>2, <1>3
     DEF Next, WorkerRuns, WorkerBoots, Boot, UserActs, UserDeletes, ApiRuns, ReaperRuns, SweeperRuns,
         OtherFault, TimePasses, workerVars, handlerVars, vars

LEMMA AnswersStep ==
    ASSUME TypeOK, AnswersReal, [Next]_vars
    PROVE  AnswersReal'
<1>1. \A q \in Run : 0 \notin ShownAsk(q)'
  BY LogKinds, ShownStep
<1>2. ASSUME NEW c \in Client, req'[c].op \in {"resume", "republish"} PROVE req'[c].answer # 0
  <2>. USE DEF TypeOK, ApiTypeOK
  <2>0. req[c].op \in {"resume", "republish"} => req[c].answer # 0
    BY DEF AnswersReal
  <2>1. CASE UNCHANGED req
    BY <1>2, <2>0, <2>1
  <2>2. ASSUME NEW d \in Client, CreateRun(d) \/ PublishRun(d) \/ Republish(d) PROVE req'[c].answer # 0
    <3>1. \E x : req' = [req EXCEPT ![d] = x] /\ x.op \in {"publish", "none"}
      BY <2>2 DEF CreateRun, PublishRun, Republish, Next_op, Done, NoRequest
    <3>. QED BY <1>2, <2>0, <3>1
  <2>3. ASSUME NEW d \in Client, RequestTurns(d) PROVE req'[c].answer # 0
    BY <1>2, <2>0, <2>3 DEF RequestTurns
  <2>. QED BY <2>1, <2>2, <2>3, FirstKinds DEF FirstStep
<1>. QED BY <1>1, <1>2, SeenStep DEF AnswersReal

LEMMA FirstKept ==
    ASSUME TypeOK, TaskInv, FirstStep
    PROVE  OneFirst'
<1>. USE DEF TypeOK, ApiTypeOK
<1>0. ASSUME NEW r \in Run
      PROVE  /\ \A m, n \in 1..Len(stream) : stream[m] = FirstTask(r) /\ stream[n] = FirstTask(r) => m = n
             /\ Unpublished(r) => \A m \in 1..Len(stream) : stream[m] # FirstTask(r)
             /\ \A c, d \in Client : PublishingFirst(c, r) /\ PublishingFirst(d, r) => c = d
             /\ status[r] = "absent" => \A c \in Client : ~PublishingFirst(c, r)
  BY DEF TaskInv, OneFirst
<1>1. CASE UNCHANGED <<req, stream>> /\ SameRows
  <2>1. \A r \in Run : Unpublished(r)' <=> Unpublished(r)
    BY <1>1 DEF SameRows, Unpublished, PublishingFirst
  <2>2. \A c \in Client, r \in Run : PublishingFirst(c, r)' <=> PublishingFirst(c, r)
    BY <1>1 DEF PublishingFirst
  <2>. QED BY <1>0, <1>1, <2>1, <2>2 DEF OneFirst, SameRows, FirstTask
<1>2. ASSUME NEW c \in Client, RequestTurns(c) PROVE OneFirst'
  <2>1. \A d \in Client, r \in Run : PublishingFirst(d, r)' => PublishingFirst(d, r)
    BY <1>2 DEF RequestTurns, PublishingFirst
  <2>2. \A r \in Run : Unpublished(r)' => Unpublished(r)
    BY <1>2, <2>1 DEF RequestTurns, SameRows, Unpublished
  <2>. QED BY <1>0, <1>2, <2>1, <2>2 DEF RequestTurns, OneFirst, SameRows, FirstTask
<1>3. ASSUME NEW c \in Client, CreateRun(c) PROVE OneFirst'
  <2>1. PICK r \in Run : r = req[c].run
    BY DEF Request
  <2>2. /\ status[r] = "absent" /\ status' = [status EXCEPT ![r] = "queued"]
        /\ req' = [req EXCEPT ![c] = [op |-> "publish", run |-> r, answer |-> 0]]
        /\ stream' = stream
    BY <1>3, <2>1 DEF CreateRun, create, Next_op, queueVars
  <2>3. \A q \in Run : q # r => status'[q] = status[q]
    BY <2>2 DEF StoreTypeOK
  <2>4. status'[r] = "queued"
    BY <2>2 DEF StoreTypeOK
  <2>5. \A d \in Client, q \in Run : PublishingFirst(d, q)' =>
            PublishingFirst(d, q) \/ (d = c /\ q = r)
    BY <2>2 DEF PublishingFirst
  <2>6. \A q \in Run : Unpublished(q)' => Unpublished(q)
    BY <2>2, <2>3, <2>4, <2>5 DEF Unpublished
  <2>. QED BY <1>0, <2>2, <2>3, <2>4, <2>5, <2>6 DEF OneFirst, FirstTask
<1>4. ASSUME NEW c \in Client, PublishRun(c) \/ Republish(c) PROVE OneFirst'
  <2>1. PICK r \in Run, k \in 0..MaxAsk :
          /\ r = req[c].run
          /\ stream' = Append(stream, [run |-> r, answer |-> k])
          /\ (k # 0 \/ PublishingFirst(c, r))
    BY <1>4, PlatformAssumption
       DEF PublishRun, Republish, publish, Request, TaskInv, AnswersReal, PublishingFirst
  <2>2. req' = [req EXCEPT ![c] = NoRequest] /\ status' = status
    BY <1>4 DEF PublishRun, Republish, Done, storeVars
  <2>3. \A d \in Client, q \in Run : PublishingFirst(d, q)' => PublishingFirst(d, q) /\ d # c
    BY <2>2 DEF PublishingFirst, NoRequest
  <2>4. \A q \in Run : Unpublished(q)' => Unpublished(q)
    BY <2>2, <2>3 DEF Unpublished
  <2>. DEFINE t == [run |-> r, answer |-> k]
              L == Len(stream)
  <2>5. /\ L \in Nat /\ Len(stream') = L + 1 /\ stream'[L + 1] = t
        /\ \A m \in 1..L : stream'[m] = stream[m]
    BY <2>1 DEF QueueTypeOK
  <2>6. \A q \in Run : t = FirstTask(q) => q = r /\ PublishingFirst(c, r)
    BY <2>1 DEF FirstTask
  <2>7. ASSUME NEW q \in Run, t = FirstTask(q) PROVE ~Unpublished(q)' /\ Unpublished(q)
    <3>1. q = r /\ PublishingFirst(c, r)
      BY <2>6, <2>7
    <3>2. status[r] # "absent" /\ \A d \in Client : PublishingFirst(d, r) => d = c
      BY <1>0, <3>1
    <3>. QED BY <2>2, <2>3, <3>1, <3>2 DEF Unpublished
  <2>8. \A m \in 1..Len(stream') : m \in 1..L \/ m = L + 1
    BY <2>5
  <2>9. ASSUME NEW q \in Run
        PROVE  /\ \A m, n \in 1..Len(stream') : stream'[m] = FirstTask(q) /\ stream'[n] = FirstTask(q) => m = n
               /\ Unpublished(q)' => \A m \in 1..Len(stream') : stream'[m] # FirstTask(q)
    <3>1. CASE t = FirstTask(q)
      BY <1>0, <2>5, <2>7, <2>8, <3>1
    <3>2. CASE t # FirstTask(q)
      BY <1>0, <2>4, <2>5, <2>8, <3>2
    <3>. QED BY <3>1, <3>2
  <2>10. \A q \in Run : FirstTask(q)' = FirstTask(q)
    BY DEF FirstTask
  <2>. QED BY <1>0, <2>2, <2>3, <2>9, <2>10 DEF OneFirst
<1>. QED BY <1>1, <1>2, <1>3, <1>4 DEF FirstStep

LEMMA InitTask == Init => TaskInv
<1>. SUFFICES ASSUME Init PROVE TaskInv
  OBVIOUS
<1>1. /\ \A r \in Run : Len(log[r]) = 0
      /\ Len(stream) = 0
      /\ \A c \in Client : req[c].op = "none"
      /\ \A h \in Handler : pc[h] = "idle"
  BY DEF Init, LogInit, QueueInit, ApiInit, NoRequest, WorkerInit
<1>2. 1..0 = {}
  OBVIOUS
<1>3. \A r \in Run : 0 \notin ShownAsk(r)
  BY <1>1, <1>2 DEF ShownAsk
<1>. QED BY <1>1, <1>2, <1>3 DEF TaskInv, AnswersReal, OneFirst, PublishingFirst

LEMMA NextTask == TypeOK /\ TaskInv /\ [Next]_vars => TaskInv'
BY AnswersStep, FirstKinds, FirstKept DEF TaskInv

--------------------------------------------------------------------------------
(***************************************************************************)
(* A question enters the conversation once per delivery of the first task. *)
(* Every delivery that has not got there yet, and the delivery that is     *)
(* still possible, is counted with the questions already asked; a further  *)
(* one becomes possible only when a crash or a failed call ends the        *)
(* renewal of the message.                                                 *)
(***************************************************************************)
Early       == {"check", "guard", "start", "restart", "started"}
BeforeEnter == Early \cup {"acquire", "ready", "enter"}
Inside      == {"step", "emit", "inspect", "suspend", "interrupt"}

\* The handlers that are going to put the question of r.
Askers(r) == {h \in Handler : task[h] = FirstTask(r) /\ pc[h] \in BeforeEnter}

Beaten(m) == \E h \in Handler : job[h] = m /\ beating[h]

\* The first task of r can be delivered, now or after it has been published.
Reservable(r) ==
    \/ Unpublished(r)
    \/ \E m \in 1..Len(stream) : /\ stream[m] = FirstTask(r)
                                 /\ m > delivered \/ (m \in pending /\ ~Beaten(m))

Open(r) == IF Reservable(r) THEN 1 ELSE 0

CreditInv == \A r \in Run :
    asked[r] + Cardinality(Askers(r)) + Open(r) <= 1 + crashes + hiccups

LEMMA AskersFinite ==
    /\ IsFiniteSet(Handler) /\ Cardinality(Handler) \in Nat
    /\ \A S \in SUBSET Handler : IsFiniteSet(S) /\ Cardinality(S) \in Nat
    /\ \A S, T \in SUBSET Handler : S \subseteq T => Cardinality(S) <= Cardinality(T)
<1>1. IsFiniteSet(Handler)
  BY PlatformAssumption, FS_Product DEF Handler
<1>2. \A S \in SUBSET Handler : IsFiniteSet(S)
  BY <1>1, FS_Subset
<1>. QED BY <1>1, <1>2, FS_Subset, FS_CardinalityType

\* How a handler walks through the regions of the executor.
LEMMA Regions ==
    ASSUME TypeOK, NEW h \in Handler, HandlerStep(h), ~Reserve(h)
    PROVE  /\ pc'[h] \in Early => pc[h] \in Early
           /\ pc'[h] \in BeforeEnter => pc[h] \in BeforeEnter
           /\ pc'[h] \in Inside => pc[h] \in Inside \/ EnterGraph(h)
           /\ \A g \in Handler : g # h => pc'[g] = pc[g] /\ task'[g] = task[g]
           /\ pc'[h] # "idle" => task'[h] = task[h]
           /\ ~EnterGraph(h) => asked' = asked
<1>. USE DEF TypeOK, WorkerTypeOK, HandlerTypeOK, Early, BeforeEnter, Inside
<1>1. CASE CheckCancel(h) \/ CheckThread(h) \/ StartFirst(h) \/ Acquire(h) \/ EnterGraph(h)
  BY <1>1 DEF CheckCancel, CheckThread, StartFirst, Acquire, EnterGraph, At, Only, Goto, graphVars
<1>2. CASE StartResumed(h) \/ GraphStep(h) \/ Inspect(h) \/ Finish(h)
  BY <1>2 DEF StartResumed, GraphStep, Inspect, Finish, At, Goto, graphVars
<1>3. CASE \/ EmitStarted(h) \/ EmitReady(h) \/ EmitProgress(h) \/ EmitToken(h) \/ EmitInterrupt(h) \/ EmitVerdict(h)
  BY <1>3 DEF EmitStarted, EmitReady, EmitProgress, EmitToken, EmitInterrupt, EmitVerdict, At, Only, Goto, graphVars
<1>4. CASE GraphEnds(h) \/ GraphRaises(h)
  BY <1>4 DEF GraphEnds, GraphRaises, At, Only, Goto, graphVars
<1>5. CASE Suspend(h) \/ Succeed(h) \/ Fail(h) \/ Stop(h) \/ Halt(h)
  BY <1>5 DEF Suspend, Succeed, Fail, Stop, Halt, Settle, At, Only, Goto, graphVars
<1>. QED BY <1>1, <1>2, <1>3, <1>4, <1>5 DEF HandlerStep

\* Rows and requests never make a first task appear twice.
LEMMA UnpublishedFalls ==
    ASSUME TypeOK, TaskInv, FirstStep, NEW r \in Run
    PROVE  /\ Unpublished(r)' => Unpublished(r)
           /\ \A m \in 1..Len(stream') : stream'[m] = FirstTask(r) =>
                Unpublished(r) \/ (m \in 1..Len(stream) /\ stream[m] = FirstTask(r))
<1>. USE DEF TypeOK, ApiTypeOK
<1>1. CASE UNCHANGED <<req, stream>> /\ SameRows
  <2>1. Unpublished(r)' <=> Unpublished(r)
    BY <1>1 DEF SameRows, Unpublished, PublishingFirst
  <2>. QED BY <1>1, <2>1
<1>2. ASSUME NEW c \in Client, RequestTurns(c)
      PROVE  (Unpublished(r)' => Unpublished(r)) /\ stream' = stream
  <2>1. \A d \in Client : PublishingFirst(d, r)' => PublishingFirst(d, r)
    BY <1>2 DEF RequestTurns, PublishingFirst
  <2>. QED BY <1>2, <2>1 DEF RequestTurns, SameRows, Unpublished
<1>3. ASSUME NEW c \in Client, CreateRun(c)
      PROVE  (Unpublished(r)' => Unpublished(r)) /\ stream' = stream
  <2>1. PICK q \in Run : q = req[c].run
    BY DEF Request
  <2>2. /\ status[q] = "absent" /\ status' = [status EXCEPT ![q] = "queued"]
        /\ req' = [req EXCEPT ![c] = [op |-> "publish", run |-> q, answer |-> 0]]
        /\ stream' = stream
    BY <1>3, <2>1 DEF CreateRun, create, Next_op, queueVars
  <2>3. \A d \in Client : PublishingFirst(d, r)' => PublishingFirst(d, r) \/ r = q
    BY <2>2 DEF PublishingFirst
  <2>4. r # q => status'[r] = status[r]
    BY <2>2 DEF StoreTypeOK
  <2>. QED BY <2>2, <2>3, <2>4 DEF Unpublished
<1>4. ASSUME NEW c \in Client, PublishRun(c) \/ Republish(c)
      PROVE  /\ Unpublished(r)' => Unpublished(r)
             /\ \A m \in 1..Len(stream') : stream'[m] = FirstTask(r) =>
                  Unpublished(r) \/ (m \in 1..Len(stream) /\ stream[m] = FirstTask(r))
  <2>1. PICK q \in Run, k \in 0..MaxAsk :
          /\ stream' = Append(stream, [run |-> q, answer |-> k])
          /\ (k # 0 \/ PublishingFirst(c, q))
    BY <1>4, PlatformAssumption
       DEF PublishRun, Republish, publish, Request, TaskInv, AnswersReal, PublishingFirst
  <2>2. req' = [req EXCEPT ![c] = NoRequest] /\ status' = status
    BY <1>4 DEF PublishRun, Republish, Done, storeVars
  <2>3. \A d \in Client : PublishingFirst(d, r)' => PublishingFirst(d, r)
    BY <2>2 DEF PublishingFirst, NoRequest
  <2>4. [run |-> q, answer |-> k] = FirstTask(r) => Unpublished(r)
    BY <2>1 DEF FirstTask, Unpublished
  <2>5. /\ Len(stream) \in Nat /\ Len(stream') = Len(stream) + 1
        /\ stream'[Len(stream) + 1] = [run |-> q, answer |-> k]
        /\ \A m \in 1..Len(stream) : stream'[m] = stream[m]
    BY <2>1 DEF QueueTypeOK
  <2>6. Unpublished(r)' => Unpublished(r)
    BY <2>2, <2>3 DEF Unpublished
  <2>. QED BY <2>4, <2>5, <2>6
<1>. QED BY <1>1, <1>2, <1>3, <1>4 DEF FirstStep

\* Unless a renewal ends in a fault, no step makes a first task deliverable again.
LEMMA ReservableFalls ==
    ASSUME TypeOK, QueueInv, TaskInv, FirstStep,
           \/ Rest \/ \E h \in Handler : Reserve(h) \/ Finish(h) \/ GoesOn(h),
           NEW r \in Run, Reservable(r)'
    PROVE  Reservable(r)
<1>0. QueueStep /\ FirstTask(r)' = FirstTask(r)
  BY DEF QueueStep, FirstTask
<1>1. SUFFICES ASSUME ~Unpublished(r) PROVE Reservable(r)
  BY DEF Reservable
<1>2. PICK m \in 1..Len(stream') : /\ stream'[m] = FirstTask(r)
                                   /\ m > delivered' \/ (m \in pending' /\ ~Beaten(m)')
  BY <1>0, <1>1, UnpublishedFalls DEF Reservable
<1>3. m \in 1..Len(stream) /\ stream[m] = FirstTask(r)
  BY <1>1, <1>2, UnpublishedFalls
<1>4. m > delivered \/ (m \in pending /\ m \in pending' /\ ~Beaten(m)')
  BY <1>0, <1>2, QueueGrows
<1>5. m \in pending /\ m \in pending' /\ Beaten(m) => Beaten(m)'
  <2>. SUFFICES ASSUME m \in pending, m \in pending', NEW g \in Handler, job[g] = m, beating[g]
                PROVE  Beaten(m)'
    BY DEF Beaten
  <2>0. pc[g] # "idle"
    BY DEF QueueInv, JobInv
  <2>1. ASSUME NEW h \in Handler, Reserve(h) PROVE job'[g] = m /\ beating'[g]
    <3>1. PICK n \in 1..Len(stream) : Take(h, n)
      BY <2>1, ReserveTakes DEF QueueInv
    <3>. QED BY <2>0, <3>1 DEF Take
  <2>2. ASSUME NEW h \in Handler, Finish(h) PROVE job'[g] = m /\ beating'[g]
    <3>1. Drop(h)
      BY <2>2, FinishDrops
    <3>2. g # h
      BY <3>1 DEF Drop
    <3>. QED BY <3>1, <3>2 DEF Drop
  <2>3. ASSUME NEW h \in Handler, GoesOn(h) PROVE job'[g] = m /\ beating'[g]
    BY <2>3, GoesOnPc
  <2>4. CASE Rest
    BY <2>4 DEF Rest, Beaten
  <2>. QED BY <2>1, <2>2, <2>3, <2>4 DEF Beaten
<1>. QED BY <1>3, <1>4, <1>5 DEF Reservable

\* Taking the first task uses the delivery up.
LEMMA TakeUsesUp ==
    ASSUME TypeOK, QueueInv, TaskInv, FirstStep, NEW h \in Handler, NEW m \in 1..Len(stream),
           Take(h, m), m = delivered + 1 \/ m \in pending,
           NEW r \in Run, stream[m] = FirstTask(r)
    PROVE  Reservable(r) /\ ~Reservable(r)'
<1>0. delivered \in Nat /\ delivered' \in Nat /\ stream' = stream /\ FirstTask(r)' = FirstTask(r)
  BY DEF TypeOK, QueueTypeOK, Take, FirstTask
<1>1. ~Beaten(m)
  <2>1. job[h] # m
    BY DEF Take, QueueInv, JobInv
  <2>. QED BY <2>1 DEF Take, Beaten
<1>2. Reservable(r)
  BY <1>0, <1>1 DEF Reservable
<1>3. ~Unpublished(r)'
  BY UnpublishedFalls DEF TaskInv, OneFirst
<1>4. \A n \in 1..Len(stream) : stream[n] = FirstTask(r) => n = m
  BY DEF TaskInv, OneFirst
<1>5. Beaten(m)' /\ ~(m > delivered')
  BY <1>0 DEF Take, Beaten
<1>. QED BY <1>0, <1>2, <1>3, <1>4, <1>5 DEF Reservable

LEMMA NatSums ==
    /\ 1 \in Nat /\ \A a, b \in Nat : a + b \in Nat
    /\ \A a, b \in Nat : 1 + a + b = 1 + (a + b)
    /\ \A a, c, d \in Nat : d <= c => a + d <= a + c
    /\ \A x, y, p, q \in Nat : x <= y /\ p <= q => x + p <= y + q
    /\ \A x, y, z \in Nat : x <= y /\ y <= z => x <= z
    /\ \A x, o, f \in Nat : x + o <= 1 + f => x <= 1 + f
    /\ \A x, f, g \in Nat : x <= 1 + f /\ f <= g => x <= 1 + g
    /\ \A x, f, g \in Nat : x <= 1 + f /\ f < g => x + 1 <= 1 + g
OBVIOUS

LEMMA CreditTypes ==
    ASSUME TypeOK, NEW r \in Run
    PROVE  /\ asked[r] \in Nat /\ crashes \in Nat /\ hiccups \in Nat /\ crashes + hiccups \in Nat
           /\ Askers(r) \in SUBSET Handler /\ Cardinality(Askers(r)) \in Nat
           /\ Open(r) \in {0, 1} /\ Open(r) \in Nat /\ Open(r) <= 1
<1>1. Askers(r) \in SUBSET Handler
  BY DEF Askers
<1>2. asked[r] \in Nat /\ crashes \in Nat /\ hiccups \in Nat
  BY PlatformAssumption DEF TypeOK, WorkerTypeOK, GraphTypeOK, FaultTypeOK
<1>3. crashes + hiccups \in Nat
  BY <1>2
<1>4. Open(r) \in {0, 1} /\ Open(r) \in Nat /\ Open(r) <= 1
  BY DEF Open
<1>. QED BY <1>1, <1>2, <1>3, <1>4, AskersFinite

\* Handlers that leave, and faults, keep the account; a fault pays for one delivery.
LEMMA CreditFalls ==
    ASSUME TypeOK, TypeOK', NEW r \in Run,
           asked[r] + Cardinality(Askers(r)) + Open(r) <= 1 + crashes + hiccups,
           asked'[r] = asked[r], Askers(r)' \subseteq Askers(r),
           \/ crashes + hiccups <= crashes' + hiccups' /\ Open(r)' <= Open(r)
           \/ crashes + hiccups < crashes' + hiccups'
    PROVE  asked'[r] + Cardinality(Askers(r)') + Open(r)' <= 1 + crashes' + hiccups'
<1>1. /\ asked[r] \in Nat /\ crashes \in Nat /\ hiccups \in Nat /\ crashes + hiccups \in Nat
      /\ Cardinality(Askers(r)) \in Nat /\ Open(r) \in Nat
      /\ Askers(r) \in SUBSET Handler
  BY CreditTypes
<1>2. /\ asked'[r] \in Nat /\ crashes' \in Nat /\ hiccups' \in Nat /\ crashes' + hiccups' \in Nat
      /\ Cardinality(Askers(r)') \in Nat /\ Open(r)' \in Nat /\ Open(r)' <= 1
  <2>1. asked'[r] \in Nat /\ crashes' \in Nat /\ hiccups' \in Nat
    BY PlatformAssumption DEF TypeOK, WorkerTypeOK, GraphTypeOK, FaultTypeOK
  <2>2. Askers(r)' \in SUBSET Handler
    BY DEF Askers
  <2>3. Open(r)' \in Nat /\ Open(r)' <= 1
    BY DEF Open
  <2>. QED BY <2>1, <2>2, <2>3, AskersFinite, NatSums, Zenon
<1>3. Cardinality(Askers(r)') <= Cardinality(Askers(r))
  BY <1>1, AskersFinite
<1>5. /\ 1 + crashes + hiccups = 1 + (crashes + hiccups)
      /\ 1 + crashes' + hiccups' = 1 + (crashes' + hiccups')
  BY <1>1, <1>2, NatSums, Zenon
<1>6. asked[r] + Cardinality(Askers(r)) + Open(r) <= 1 + (crashes + hiccups)
  BY <1>5, Zenon
<1>7. asked[r] + Cardinality(Askers(r)') + Open(r)' <= 1 + (crashes' + hiccups')
  <2>. DEFINE x == asked[r] + Cardinality(Askers(r))
              y == asked[r] + Cardinality(Askers(r)')
              f == crashes + hiccups
              g == crashes' + hiccups'
  <2>1. x \in Nat /\ y \in Nat /\ y <= x /\ f \in Nat /\ g \in Nat
    BY <1>1, <1>2, <1>3, NatSums, Zenon
  <2>2. /\ x + Open(r) <= 1 + f
        /\ (f <= g /\ Open(r)' <= Open(r)) \/ f < g
    BY <1>6, Zenon
  <2>. HIDE DEF x, y, f, g
  <2>3. f <= g /\ Open(r)' <= Open(r) => y + Open(r)' <= 1 + g
    <3>. HAVE f <= g /\ Open(r)' <= Open(r)
    <3>1. y + Open(r)' <= x + Open(r)
      BY <1>1, <1>2, <2>1, NatSums, Zenon
    <3>2. y + Open(r)' \in Nat /\ x + Open(r) \in Nat /\ 1 + g \in Nat
      BY <1>1, <1>2, <2>1, NatSums, Zenon
    <3>3. x + Open(r) <= 1 + g
      BY <1>1, <1>2, <2>1, <2>2, <3>2, NatSums, Zenon
    <3>4. \A i, j, k \in Nat : i <= j /\ j <= k => i <= k
      OBVIOUS
    <3>. QED BY <3>1, <3>2, <3>3, <3>4, Zenon
  <2>4. f < g => y + Open(r)' <= 1 + g
    <3>. HAVE f < g
    <3>1. x + 1 <= 1 + g
      BY <1>1, <2>1, <2>2, NatSums, Zenon
    <3>2. y + Open(r)' <= x + 1
      BY <1>2, <2>1, NatSums, Zenon
    <3>3. y + Open(r)' \in Nat /\ x + 1 \in Nat /\ 1 + g \in Nat
      BY <1>2, <2>1, NatSums, Zenon
    <3>. QED BY <3>1, <3>2, <3>3, NatSums, Zenon
  <2>5. y + Open(r)' <= 1 + g
    BY <2>2, <2>3, <2>4, Zenon
  <2>. QED BY <2>5, Zenon DEF y, g
<1>. QED BY <1>5, <1>7, Zenon

LEMMA CreditStep ==
    ASSUME TypeOK, TypeOK', QueueInv, TaskInv, CreditInv, [Next]_vars, NEW r \in Run
    PROVE  asked'[r] + Cardinality(Askers(r)') + Open(r)' <= 1 + crashes' + hiccups'
<1>0. /\ asked[r] + Cardinality(Askers(r)) + Open(r) <= 1 + crashes + hiccups
      /\ asked[r] \in Nat /\ crashes \in Nat /\ hiccups \in Nat
      /\ Cardinality(Askers(r)) \in Nat /\ Open(r) \in {0, 1}
      /\ FirstStep /\ FirstTask(r)' = FirstTask(r)
  BY CreditTypes, FirstKinds DEF CreditInv, TaskInv, FirstTask
<1>1. ASSUME NEW h \in Handler, Reserve(h)
      PROVE  asked'[r] + Cardinality(Askers(r)') + Open(r)' <= 1 + crashes' + hiccups'
  <2>1. PICK m \in 1..Len(stream) : Take(h, m) /\ (m = delivered + 1 \/ m \in pending)
    BY <1>1, ReserveTakes DEF QueueInv
  <2>2. asked' = asked /\ crashes' = crashes /\ hiccups' = hiccups
    BY <1>1 DEF Reserve, graphVars, faultVars
  <2>3. h \notin Askers(r)
    BY <2>1 DEF Take, Askers, BeforeEnter, Early
  <2>4. CASE stream[m] = FirstTask(r)
    <3>1. Askers(r)' = Askers(r) \cup {h}
      BY <1>0, <2>1, <2>4 DEF Take, Askers, BeforeEnter, Early
    <3>2. Cardinality(Askers(r)') = Cardinality(Askers(r)) + 1
      <4>1. Askers(r) \in SUBSET Handler
        BY DEF Askers
      <4>. QED BY <2>3, <3>1, <4>1, AskersFinite, FS_AddElement
    <3>3. Open(r) = 1 /\ Open(r)' = 0
      BY <1>0, <2>1, <2>4, TakeUsesUp DEF Open
    <3>. QED BY <1>0, <2>2, <3>2, <3>3
  <2>5. CASE stream[m] # FirstTask(r)
    <3>1. Askers(r)' \subseteq Askers(r)
      BY <1>0, <2>1, <2>5 DEF Take, Askers
    <3>2. Open(r)' <= Open(r)
      BY <1>0, <1>1, ReservableFalls DEF Open
    <3>. QED BY <1>0, <2>2, <3>1, <3>2, CreditFalls
  <2>. QED BY <2>4, <2>5
<1>2. ASSUME NEW h \in Handler, HandlerStep(h), ~Reserve(h)
      PROVE  asked'[r] + Cardinality(Askers(r)') + Open(r)' <= 1 + crashes' + hiccups'
  <2>1. Reservable(r)' => Reservable(r)
    BY <1>0, <1>2, BusySteps, ReservableFalls
  <2>2. crashes' = crashes /\ hiccups' = hiccups
    BY <1>2, BusySteps
  <2>3. Askers(r)' \subseteq Askers(r)
    BY <1>0, <1>2, Regions DEF Askers, BeforeEnter, Early
  <2>4. CASE asked'[r] = asked[r]
    <3>1. Open(r)' <= Open(r)
      BY <2>1 DEF Open
    <3>. QED BY <1>0, <2>2, <2>3, <2>4, <3>1, CreditFalls
  <2>5. CASE asked'[r] # asked[r]
    <3>1. EnterGraph(h)
      BY <1>2, <2>5, Regions
    <3>2. RunIn(h) = r /\ task[h].answer = 0 /\ asked'[r] = asked[r] + 1
      BY <2>5, <3>1 DEF EnterGraph, TypeOK, WorkerTypeOK, GraphTypeOK
    <3>3. task[h] = FirstTask(r)
      BY <3>2 DEF RunIn, FirstTask, TypeOK, WorkerTypeOK, HandlerTypeOK, RunTask
    <3>4. h \in Askers(r)
      BY <3>1, <3>3 DEF EnterGraph, At, Askers, BeforeEnter
    <3>5. h \notin Askers(r)'
      <4>1. pc'[h] = "step"
        BY <3>1 DEF EnterGraph, Only, Goto, TypeOK, WorkerTypeOK, HandlerTypeOK
      <4>. QED BY <4>1 DEF Askers, BeforeEnter, Early
    <3>6. Cardinality(Askers(r)') <= Cardinality(Askers(r)) - 1 /\ Cardinality(Askers(r)') \in Nat
      <4>1. Askers(r) \in SUBSET Handler /\ Askers(r) \ {h} \in SUBSET Handler
        BY DEF Askers
      <4>2. Cardinality(Askers(r) \ {h}) = Cardinality(Askers(r)) - 1
        BY <3>4, <4>1, AskersFinite, FS_RemoveElement
      <4>3. Askers(r)' \subseteq Askers(r) \ {h} /\ Askers(r)' \in SUBSET Handler
        BY <2>3, <3>5, <4>1
      <4>. QED BY <4>1, <4>2, <4>3, AskersFinite
    <3>7. Open(r)' \in {0, 1} /\ Open(r)' <= Open(r)
      BY <2>1 DEF Open
    <3>. QED BY <1>0, <2>2, <3>2, <3>6, <3>7
  <2>. QED BY <2>4, <2>5
<1>3. ASSUME NEW h \in Handler, Hiccup(h) \/ BeatStops(h)
      PROVE  asked'[r] + Cardinality(Askers(r)') + Open(r)' <= 1 + crashes' + hiccups'
  <2>1. asked' = asked /\ crashes' = crashes /\ hiccups' = hiccups + 1
    BY <1>3 DEF Hiccup, BeatStops, graphVars
  <2>2. Askers(r)' \subseteq Askers(r)
    BY <1>0, <1>3 DEF Hiccup, BeatStops, Only, Goto, Askers, BeforeEnter, Early, TypeOK, WorkerTypeOK,
                      HandlerTypeOK
  <2>. QED BY <1>0, <2>1, <2>2, CreditFalls
<1>4. ASSUME NEW w \in Worker, Crash(w)
      PROVE  asked'[r] + Cardinality(Askers(r)') + Open(r)' <= 1 + crashes' + hiccups'
  <2>1. asked' = asked /\ crashes' = crashes + 1 /\ hiccups' = hiccups
    BY <1>4 DEF Crash, graphVars
  <2>2. Askers(r)' \subseteq Askers(r)
    BY <1>0, <1>4, CrashGone DEF Gone, Askers, BeforeEnter, Early
  <2>. QED BY <1>0, <2>1, <2>2, CreditFalls
<1>5. ASSUME UNCHANGED <<handlerVars, graphVars, crashes>>, hiccups' \in {hiccups, hiccups + 1}, Rest
      PROVE  asked'[r] + Cardinality(Askers(r)') + Open(r)' <= 1 + crashes' + hiccups'
  <2>1. Askers(r)' = Askers(r) /\ asked' = asked
    BY <1>0, <1>5 DEF handlerVars, graphVars, Askers
  <2>2. Open(r)' <= Open(r)
    BY <1>0, <1>5, ReservableFalls DEF Open
  <2>3. crashes + hiccups <= crashes' + hiccups'
    <3>1. crashes' = crashes /\ hiccups' \in {hiccups, hiccups + 1} /\ crashes \in Nat /\ hiccups \in Nat
      BY <1>0, <1>5
    <3>2. \A a, b \in Nat : a + b <= a + b /\ a + b <= a + (b + 1)
      OBVIOUS
    <3>. QED BY <3>1, <3>2, Zenon
  <2>4. asked'[r] = asked[r] /\ Askers(r)' \subseteq Askers(r)
    BY <2>1
  <2>. QED BY <1>0, <2>2, <2>3, <2>4, CreditFalls
<1>6. CASE \/ WorkerBoots \/ UserActs \/ UserDeletes \/ ReaperRuns \/ SweeperRuns \/ TimePasses
           \/ (\E c \in Client : ApiRuns(c)) \/ UNCHANGED vars \/ OtherFault
  <2>1. UNCHANGED <<handlerVars, graphVars, crashes>> /\ hiccups' \in {hiccups, hiccups + 1}
    BY <1>6 DEF WorkerBoots, Boot, UserActs, UserDeletes, ReaperRuns, SweeperRuns, TimePasses, ApiRuns,
                OtherFault, vars, workerVars, faultVars
  <2>. QED BY <1>5, <1>6, <2>1, QuietRests
<1>. QED BY <1>1, <1>2, <1>3, <1>4, <1>6 DEF Next, WorkerRuns, WorkerFault

LEMMA InitCredit == Init => CreditInv
<1>. SUFFICES ASSUME Init, NEW r \in Run
              PROVE  asked[r] + Cardinality(Askers(r)) + Open(r) <= 1 + crashes + hiccups
  BY DEF CreditInv
<1>1. asked[r] = 0 /\ crashes = 0 /\ hiccups = 0
  BY DEF Init, WorkerInit
<1>2. Askers(r) = {}
  BY DEF Init, WorkerInit, Askers, BeforeEnter, Early
<1>3. Cardinality(Askers(r)) = 0
  BY <1>2, FS_EmptySet
<1>4. Open(r) \in {0, 1}
  BY DEF Open
<1>. QED BY <1>1, <1>3, <1>4

LEMMA NextCredit == TypeOK /\ TypeOK' /\ QueueInv /\ TaskInv /\ CreditInv /\ [Next]_vars => CreditInv'
<1>. SUFFICES ASSUME TypeOK, TypeOK', QueueInv, TaskInv, CreditInv, [Next]_vars, NEW r \in Run
              PROVE  (asked[r] + Cardinality(Askers(r)) + Open(r) <= 1 + crashes + hiccups)'
  BY DEF CreditInv
<1>. QED BY CreditStep

\* The question of a run enters the conversation at most once more per crash, failed call
\* or lost heartbeat, however deliveries, redeliveries and approvals interleave.
THEOREM AskedOncePerFault == Spec => []AskedPerFault
<1>1. TypeOK /\ CreditInv => AskedPerFault
  <2>. SUFFICES ASSUME TypeOK, CreditInv, NEW r \in Run PROVE asked[r] <= 1 + crashes + hiccups
    BY DEF AskedPerFault
  <2>1. /\ asked[r] + Cardinality(Askers(r)) + Open(r) <= 1 + crashes + hiccups
        /\ asked[r] \in Nat /\ crashes \in Nat /\ hiccups \in Nat
        /\ Cardinality(Askers(r)) \in Nat /\ Open(r) \in Nat
    BY CreditTypes DEF CreditInv
  <2>. QED BY <2>1
<1>. QED BY <1>1, InitQueue, NextQueue, InitTask, NextTask, InitCredit, NextCredit, TypeCorrect, PTL
         DEF Spec

--------------------------------------------------------------------------------
(***************************************************************************)
(* Fresh starts.  Without a fault a first task is delivered once, and      *)
(* until its handler has announced the start nothing of the run can have   *)
(* been announced, interrupted or approved.                                *)
(***************************************************************************)
Untouched(r) ==
    /\ \A i \in 1..Len(log[r]) : log[r][i].type \notin {"run.started", "interrupt"}
    /\ \A m \in 1..Len(stream) : stream[m].run = r => stream[m].answer = 0
    /\ \A c \in Client : req[c].run = r => req[c].op \notin {"resume", "republish"}

\* The first task of r has not been announced yet.
Coming(r) == Reservable(r) \/ \E h \in Askers(r) : pc[h] \in Early

FreshInv ==
    /\ \A h \in Handler : pc[h] \in Inside /\ task[h].answer = 0 => asked[RunIn(h)] # 0
    /\ crashes + hiccups = 0 => \A r \in Run : Coming(r) => Untouched(r)
    /\ FreshUnlessFault

\* A handler inside the graph with a first task has put the question.
LEMMA InsideAsked ==
    ASSUME TypeOK, FreshInv, [Next]_vars, NEW g \in Handler, pc'[g] \in Inside, task'[g].answer = 0
    PROVE  asked'[task'[g].run] # 0
<1>. USE DEF TypeOK, WorkerTypeOK, HandlerTypeOK, GraphTypeOK
<1>0. /\ \A r \in Run : asked[r] \in Nat
      /\ pc[g] \in Inside /\ task[g].answer = 0 => asked[task[g].run] # 0
      /\ task[g].run \in Run
  BY RunInType DEF FreshInv, RunIn
<1>1. \A h \in Handler, r \in Run : EnterGraph(h) => asked'[r] = asked[r] \/ asked'[r] = asked[r] + 1
  BY <1>0 DEF EnterGraph
<1>2. CASE pc[g] \in Inside /\ task'[g] = task[g] /\ \A r \in Run : asked'[r] = asked[r] \/ asked'[r] = asked[r] + 1
  BY <1>0, <1>2
<1>3. ASSUME NEW h \in Handler, HandlerStep(h) PROVE asked'[task'[g].run] # 0
  <2>1. CASE Reserve(h)
    <3>1. pc'[g] = pc[g] /\ task'[g] = task[g] /\ asked' = asked
      BY <2>1 DEF Reserve, Goto, graphVars, Inside
    <3>. QED BY <1>2, <3>1
  <2>2. CASE EnterGraph(h) /\ h = g
    <3>1. asked' = [asked EXCEPT ![task[g].run] = @ + 1] /\ task' = task
      BY <2>2 DEF EnterGraph, Only, RunIn
    <3>. QED BY <1>0, <3>1
  <2>3. CASE ~Reserve(h) /\ ~(EnterGraph(h) /\ h = g)
    <3>1. \A r \in Run : asked'[r] = asked[r] \/ asked'[r] = asked[r] + 1
      BY <1>1, <1>3, <2>3, Regions
    <3>2. pc[g] \in Inside /\ task'[g] = task[g]
      BY <1>3, <2>3, Regions DEF Inside
    <3>. QED BY <1>2, <3>1, <3>2
  <2>. QED BY <2>1, <2>2, <2>3
<1>4. CASE WorkerFault
  <2>1. asked' = asked
    BY <1>4 DEF WorkerFault, Hiccup, BeatStops, Crash, graphVars
  <2>2. pc[g] \in Inside /\ task'[g] = task[g]
    <3>1. ASSUME NEW h \in Handler, Hiccup(h) \/ BeatStops(h) PROVE pc[g] \in Inside /\ task'[g] = task[g]
      BY <3>1 DEF Hiccup, BeatStops, Only, Goto, Inside
    <3>2. ASSUME NEW w \in Worker, Crash(w) PROVE pc[g] \in Inside /\ task'[g] = task[g]
      BY <3>2, CrashGone DEF Gone, Inside
    <3>. QED BY <1>4, <3>1, <3>2 DEF WorkerFault
  <2>. QED BY <1>2, <2>1, <2>2
<1>5. CASE UNCHANGED <<pc, task, asked>>
  BY <1>2, <1>5
<1>. QED
  BY <1>3, <1>4, <1>5
     DEF Next, WorkerRuns, WorkerBoots, Boot, UserActs, UserDeletes, ApiRuns, ReaperRuns, SweeperRuns,
         OtherFault, TimePasses, workerVars, handlerVars, graphVars, vars

\* Nobody approves or republishes what was never interrupted.
LEMMA UntouchedRequests ==
    ASSUME TypeOK, [Next]_vars, NEW r \in Run, Untouched(r)
    PROVE  /\ \A m \in 1..Len(stream') : stream'[m].run = r => stream'[m].answer = 0
           /\ \A c \in Client : req'[c].run = r => req'[c].op \notin {"resume", "republish"}
<1>. USE DEF TypeOK, ApiTypeOK, QueueTypeOK
<1>0. /\ \A m \in 1..Len(stream) : stream[m].run = r => stream[m].answer = 0
      /\ \A c \in Client : req[c].run = r => req[c].op \notin {"resume", "republish"}
      /\ ShownAsk(r) = {} /\ NoRequest.op = "none"
  BY DEF Untouched, ShownAsk, NoRequest
<1>. DEFINE Goal == /\ \A m \in 1..Len(stream') : stream'[m].run = r => stream'[m].answer = 0
                    /\ \A c \in Client : req'[c].run = r => req'[c].op \notin {"resume", "republish"}
<1>1. CASE UNCHANGED <<req, stream>>
  BY <1>0, <1>1
<1>2. ASSUME NEW c \in Client, NEW x, req' = [req EXCEPT ![c] = x], stream' = stream,
             x.op \in {"resume", "republish"} => x.run # r
      PROVE  Goal
  BY <1>0, <1>2
<1>3. ASSUME NEW c \in Client, PublishRun(c) \/ Republish(c) PROVE Goal
  <2>1. PICK q \in Run, k \in 0..MaxAsk :
          /\ stream' = Append(stream, [run |-> q, answer |-> k])
          /\ (q = r => k = 0)
    BY <1>0, <1>3, PlatformAssumption DEF PublishRun, Republish, publish, Request
  <2>2. req' = [req EXCEPT ![c] = NoRequest]
    BY <1>3 DEF PublishRun, Republish, Done
  <2>3. \A d \in Client : req'[d].run = r => req'[d].op \notin {"resume", "republish"}
    BY <1>0, <2>2
  <2>4. \A m \in 1..Len(stream') : stream'[m].run = r => stream'[m].answer = 0
    BY <1>0, <2>1
  <2>. QED BY <2>3, <2>4
<1>4. ASSUME NEW c \in Client, CreateRun(c) \/ CancelRow(c) \/ AnnounceCancel(c) \/ ResumeRow(c) PROVE Goal
  <2>1. stream' = stream
    BY <1>4 DEF CreateRun, CancelRow, AnnounceCancel, ResumeRow, queueVars
  <2>2. \E x : req' = [req EXCEPT ![c] = x] /\ (x.op \in {"resume", "republish"} => x.run # r)
    <3>1. ResumeRow(c) => req[c].run # r
      BY <1>0 DEF ResumeRow
    <3>. QED BY <1>0, <1>4, <3>1 DEF CreateRun, CancelRow, AnnounceCancel, ResumeRow, Next_op, Done
  <2>. QED BY <1>2, <2>1, <2>2
<1>5. ASSUME NEW c \in Client, NEW q \in Run, SubmitRun(c, q) \/ RaiseFlag(c, q) \/ ReadApproval(c, q)
      PROVE  Goal
  <2>1. stream' = stream
    BY <1>5 DEF SubmitRun, RaiseFlag, ReadApproval, queueVars
  <2>2. ReadApproval(c, q) => q # r
    BY <1>0 DEF ReadApproval
  <2>3. \E x : req' = [req EXCEPT ![c] = x] /\ (x.op \in {"resume", "republish"} => x.run # r)
    BY <1>5, <2>2 DEF SubmitRun, RaiseFlag, ReadApproval, Next_op
  <2>. QED BY <1>2, <2>1, <2>3
<1>6. CASE OtherFault
  <2>1. stream' = stream
    BY <1>6 DEF OtherFault, DropRequest, CronDies, queueVars
  <2>2. req' = req \/ \E c \in Client : req' = [req EXCEPT ![c] = NoRequest]
    BY <1>6 DEF OtherFault, DropRequest, CronDies, Done
  <2>. QED BY <1>0, <1>1, <1>2, <2>1, <2>2
<1>7. ASSUME NEW h \in Handler, HandlerStep(h) PROVE stream' = stream
  <2>1. CASE Reserve(h) \/ Finish(h)
    BY <2>1 DEF Reserve, ReadNew, Claim, Finish, ack, queueVars
  <2>. QED BY <1>7, <2>1, BusySteps DEF GoesOn, queueVars
<1>8. CASE \/ WorkerFault \/ WorkerBoots \/ UserDeletes \/ ReaperRuns \/ SweeperRuns \/ TimePasses
           \/ UNCHANGED vars
  <2>1. UNCHANGED <<req, stream>>
    BY <1>8 DEF WorkerFault, Hiccup, BeatStops, Crash, ForgetHeld, WorkerBoots, Boot, ensure_group,
                UserDeletes, DeleteThread, TimePasses, vars, queueVars,
                ReaperRuns, ReaperStep, ReapRows, ReapGroup, ReapHolding, ReapWaiting, ReapJudge,
                ReapAnnounce, ReapDone, SweeperRuns, SweeperStep, SweepRows, SweepJudge, SweepAnnounce,
                SweepDone
  <2>. QED BY <1>1, <2>1
<1>. QED BY <1>1, <1>3, <1>4, <1>5, <1>6, <1>7, <1>8 DEF Next, WorkerRuns, UserActs, ApiRuns, RequestStep

LEMMA CalmKinds ==
    ASSUME TypeOK, [Next]_vars, crashes' + hiccups' = 0
    PROVE  crashes + hiccups = 0 /\ (Rest \/ \E h \in Handler : HandlerStep(h))
<1>. DEFINE f == crashes + hiccups
<1>0. crashes \in Nat /\ hiccups \in Nat
  BY PlatformAssumption DEF TypeOK, WorkerTypeOK, FaultTypeOK
<1>1. ASSUME NEW h \in Handler, WorkerRuns(h)
      PROVE  HandlerStep(h) /\ crashes' = crashes /\ hiccups' = hiccups
  BY <1>1, BusySteps DEF WorkerRuns
<1>2. ~WorkerFault /\ ~OtherFault
  <2>1. \A h \in Handler : Hiccup(h) \/ BeatStops(h) => hiccups' = hiccups + 1 /\ crashes' = crashes
    BY DEF Hiccup, BeatStops
  <2>2. \A w \in Worker : Crash(w) => crashes' = crashes + 1 /\ hiccups' = hiccups
    BY DEF Crash
  <2>3. OtherFault => hiccups' = hiccups + 1 /\ crashes' = crashes
    BY DEF OtherFault
  <2>4. ~(hiccups' = hiccups + 1 /\ crashes' = crashes) /\ ~(crashes' = crashes + 1 /\ hiccups' = hiccups)
    BY <1>0
  <2>. QED BY <2>1, <2>2, <2>3, <2>4 DEF WorkerFault
<1>3. ASSUME \/ WorkerBoots \/ UserActs \/ UserDeletes \/ ReaperRuns \/ SweeperRuns \/ TimePasses
             \/ (\E c \in Client : ApiRuns(c)) \/ UNCHANGED vars
      PROVE  Rest /\ crashes' = crashes /\ hiccups' = hiccups
  <2>1. Rest
    BY <1>3, QuietRests
  <2>2. UNCHANGED <<crashes, hiccups>>
    BY <1>3 DEF WorkerBoots, Boot, UserActs, UserDeletes, ReaperRuns, SweeperRuns, TimePasses, ApiRuns,
                vars, workerVars, faultVars
  <2>. QED BY <2>1, <2>2
<1>4. /\ crashes' = crashes /\ hiccups' = hiccups
      /\ Rest \/ \E h \in Handler : HandlerStep(h)
  BY <1>1, <1>2, <1>3 DEF Next
<1>. QED BY <1>4

\* Without a fault the account of a run has room for one delivery only.
LEMMA OneAsker ==
    ASSUME TypeOK, CreditInv, crashes + hiccups = 0, NEW r \in Run
    PROVE  /\ asked[r] # 0 => Askers(r) = {} /\ ~Reservable(r)
           /\ \A g \in Askers(r) : ~Reservable(r) /\ \A h \in Askers(r) : h = g
<1>1. /\ asked[r] \in Nat /\ Cardinality(Askers(r)) \in Nat /\ IsFiniteSet(Askers(r))
      /\ Open(r) \in Nat /\ (Reservable(r) => Open(r) = 1)
      /\ crashes \in Nat /\ hiccups \in Nat
  BY CreditTypes, AskersFinite DEF Open
<1>2. asked[r] + Cardinality(Askers(r)) + Open(r) <= 1
  <2>1. 1 + crashes + hiccups = 1
    BY <1>1
  <2>. QED BY <2>1 DEF CreditInv
<1>3. /\ asked[r] # 0 => Cardinality(Askers(r)) = 0 /\ Open(r) = 0
      /\ Cardinality(Askers(r)) # 0 => Cardinality(Askers(r)) = 1 /\ Open(r) = 0
  BY <1>1, <1>2
<1>4. Cardinality(Askers(r)) = 0 => Askers(r) = {}
  BY <1>1, FS_EmptySet
<1>5. ASSUME NEW g \in Askers(r) PROVE ~Reservable(r) /\ \A h \in Askers(r) : h = g
  <2>1. /\ IsFiniteSet(Askers(r) \ {g})
        /\ Cardinality(Askers(r) \ {g}) = Cardinality(Askers(r)) - 1
    BY <1>1, FS_RemoveElement
  <2>2. Cardinality(Askers(r)) # 0
    BY <1>1, FS_EmptySet
  <2>3. Cardinality(Askers(r) \ {g}) = 0
    BY <1>3, <2>1, <2>2
  <2>4. Askers(r) \ {g} = {}
    BY <2>1, <2>3, FS_EmptySet
  <2>. QED BY <1>1, <1>3, <2>2, <2>4
<1>. QED BY <1>1, <1>3, <1>4, <1>5

\* Without a fault nothing makes a first task come again.
LEMMA ComingFalls ==
    ASSUME TypeOK, QueueInv, TaskInv, [Next]_vars, crashes' + hiccups' = 0, NEW r \in Run
    PROVE  /\ Reservable(r)' => Reservable(r)
           /\ \A h \in Handler : task'[h] = FirstTask(r) /\ pc'[h] \in Early =>
                Reservable(r) \/ (task[h] = FirstTask(r) /\ pc[h] \in Early)
<1>1. FirstStep /\ (Rest \/ \E h \in Handler : HandlerStep(h))
  BY CalmKinds, FirstKinds DEF TaskInv
<1>2. Reservable(r)' => Reservable(r)
  BY <1>1, BusySteps, ReservableFalls
<1>3. ASSUME NEW h \in Handler, task'[h] = FirstTask(r), pc'[h] \in Early
      PROVE  Reservable(r) \/ (task[h] = FirstTask(r) /\ pc[h] \in Early)
  <2>1. CASE Rest
    BY <1>3, <2>1 DEF Rest
  <2>2. ASSUME NEW g \in Handler, Reserve(g) PROVE Reservable(r) \/ (task[h] = FirstTask(r) /\ pc[h] \in Early)
    <3>1. PICK m \in 1..Len(stream) : Take(g, m) /\ (m = delivered + 1 \/ m \in pending)
      BY <2>2, ReserveTakes DEF QueueInv
    <3>2. CASE g = h
      <4>1. stream[m] = FirstTask(r)
        BY <1>3, <3>1, <3>2 DEF Take
      <4>2. Reservable(r)
        BY <1>1, <3>1, <4>1, TakeUsesUp
      <4>. QED BY <4>2
    <3>3. CASE g # h
      BY <1>3, <3>1, <3>3 DEF Take
    <3>. QED BY <3>2, <3>3
  <2>3. ASSUME NEW g \in Handler, HandlerStep(g), ~Reserve(g)
        PROVE  task[h] = FirstTask(r) /\ pc[h] \in Early
    BY <1>3, <2>3, Regions DEF Early
  <2>. QED BY <1>1, <2>1, <2>2, <2>3
<1>. QED BY <1>2, <1>3

\* What one step adds to the log of one run.
LEMMA RunLogStep ==
    ASSUME TypeOK, LogStep, NEW r \in Run
    PROVE  \/ log'[r] = log[r]
           \/ \E e \in Event :
                /\ log'[r] = Append(log[r], e)
                /\ e.type = "run.started" => \E h \in Handler :
                     EmitStarted(h) /\ RunIn(h) = r /\ (e = RunStarted(FALSE) => task[h].answer = 0)
                /\ e.type = "interrupt" => \E h \in Handler : EmitInterrupt(h) /\ RunIn(h) = r
<1>0. LogTypeOK /\ \A h \in Handler : RunIn(h) \in Run
  BY RunInType DEF TypeOK, WorkerTypeOK
<1>1. ASSUME NEW q \in Run, NEW e, append(q, e)
      PROVE  log'[r] = log[r] \/ (q = r /\ log'[r] = Append(log[r], e))
  BY <1>0, <1>1 DEF append, LogTypeOK
<1>2. ASSUME NEW h \in Handler, EmitStarted(h)
      PROVE  \/ log'[r] = log[r]
             \/ \E e \in Event :
                  /\ log'[r] = Append(log[r], e) /\ e.type # "interrupt"
                  /\ EmitStarted(h) /\ RunIn(h) = r /\ (e = RunStarted(FALSE) => task[h].answer = 0)
  <2>. DEFINE again == (task[h].answer # 0 \/ mode[h] = "resumed")
  <2>1. again \in BOOLEAN
    OBVIOUS
  <2>2. RunStarted(again) \in Event /\ RunStarted(again).type # "interrupt"
    BY <2>1, StartedType DEF RunStarted
  <2>3. RunStarted(again) = RunStarted(FALSE) => task[h].answer = 0
    BY DEF RunStarted
  <2>4. append(RunIn(h), RunStarted(again))
    BY <1>2 DEF EmitStarted
  <2>. HIDE DEF again
  <2>. QED BY <1>0, <1>1, <1>2, <2>2, <2>3, <2>4
<1>3. ASSUME NEW h \in Handler, EmitInterrupt(h)
      PROVE  \/ log'[r] = log[r]
             \/ \E e \in Event :
                  log'[r] = Append(log[r], e) /\ e.type # "run.started" /\ EmitInterrupt(h) /\ RunIn(h) = r
  <2>1. Interrupt(seen[h]) \in Event /\ Interrupt(seen[h]).type # "run.started"
    BY InterruptType DEF Interrupt, TypeOK, WorkerTypeOK, HandlerTypeOK
  <2>. QED BY <1>0, <1>1, <1>3, <2>1 DEF EmitInterrupt
<1>4. ASSUME NEW q \in Run, NEW v \in TERMINAL_EVENT_TYPE \cup {"sandbox.ready", "progress", "token"},
             append(q, Plain(v))
      PROVE  \/ log'[r] = log[r]
             \/ \E e \in Event :
                  log'[r] = Append(log[r], e) /\ e.type \notin {"run.started", "interrupt"}
  <2>1. Plain(v) \in Event /\ Plain(v).type \notin {"run.started", "interrupt"}
    BY PlainType DEF Plain, EventType, TERMINAL_EVENT_TYPE
  <2>. QED BY <1>1, <1>4, <2>1
<1>5. ASSUME NEW h \in Handler, EmitProgress(h) \/ EmitToken(h)
      PROVE  \/ log'[r] = log[r]
             \/ \E e \in Event :
                  log'[r] = Append(log[r], e) /\ e.type \notin {"run.started", "interrupt"}
  BY <1>0, <1>4, <1>5 DEF EmitProgress, EmitToken
<1>. QED BY <1>2, <1>3, <1>4, <1>5 DEF LogStep

\* The announcement of a first start finds nothing announced.
LEMMA FreshStep ==
    ASSUME TypeOK, FreshInv, [Next]_vars, crashes' + hiccups' = 0, NEW r \in Run,
           NEW i \in 1..Len(log'[r]), NEW j \in 1..Len(log'[r]),
           log'[r][i] = RunStarted(FALSE), log'[r][j].type = "run.started"
    PROVE  i <= j
<1>0. /\ log[r] \in Seq(Event) /\ Len(log[r]) \in Nat /\ crashes + hiccups = 0
  BY CalmKinds DEF TypeOK, LogTypeOK
<1>1. \A k, l \in 1..Len(log[r]) : log[r][k] = RunStarted(FALSE) /\ log[r][l].type = "run.started" => k <= l
  BY <1>0 DEF FreshInv, FreshUnlessFault
<1>2. CASE log'[r] = log[r]
  BY <1>1, <1>2
<1>3. ASSUME NEW e \in Event, log'[r] = Append(log[r], e),
             e.type = "run.started" => \E h \in Handler :
               EmitStarted(h) /\ RunIn(h) = r /\ (e = RunStarted(FALSE) => task[h].answer = 0)
      PROVE  i <= j
  <2>1. /\ Len(log'[r]) = Len(log[r]) + 1 /\ log'[r][Len(log[r]) + 1] = e
        /\ \A k \in 1..Len(log[r]) : log'[r][k] = log[r][k]
    BY <1>0, <1>3
  <2>2. CASE j = Len(log[r]) + 1
    BY <1>0, <2>1, <2>2
  <2>3. CASE j \in 1..Len(log[r]) /\ i \in 1..Len(log[r])
    BY <1>1, <2>1, <2>3
  <2>4. CASE j \in 1..Len(log[r]) /\ i = Len(log[r]) + 1
    <3>1. PICK h \in Handler : EmitStarted(h) /\ RunIn(h) = r /\ task[h].answer = 0
      BY <1>3, <2>1, <2>4 DEF RunStarted
    <3>2. task[h] = FirstTask(r) /\ pc[h] = "started"
      BY <3>1 DEF RunIn, FirstTask, EmitStarted, At, TypeOK, WorkerTypeOK, HandlerTypeOK, RunTask
    <3>3. Coming(r)
      BY <3>2 DEF Coming, Askers, BeforeEnter, Early
    <3>4. Untouched(r)
      BY <1>0, <3>3 DEF FreshInv
    <3>. QED BY <2>1, <2>4, <3>4 DEF Untouched
  <2>. QED BY <1>0, <2>1, <2>2, <2>3, <2>4
<1>. QED BY <1>2, <1>3, LogKinds, RunLogStep

\* While the first task of a run is still to come, nothing touches the run.
LEMMA UntouchedStep ==
    ASSUME TypeOK, QueueInv, TaskInv, CreditInv, FreshInv, [Next]_vars, crashes' + hiccups' = 0,
           NEW r \in Run, Coming(r)'
    PROVE  Untouched(r)'
<1>0. /\ crashes + hiccups = 0 /\ log[r] \in Seq(Event) /\ LogStep
      /\ \A h \in Handler : RunIn(h) \in Run
  BY CalmKinds, LogKinds, RunInType DEF TypeOK, LogTypeOK, WorkerTypeOK
<1>1. \/ Reservable(r)'
      \/ \E h \in Handler : task'[h] = FirstTask(r) /\ pc'[h] \in Early
  BY DEF Coming, Askers, FirstTask
<1>2. /\ Reservable(r)' => Reservable(r)
      /\ \A h \in Handler : task'[h] = FirstTask(r) /\ pc'[h] \in Early =>
           Reservable(r) \/ (task[h] = FirstTask(r) /\ pc[h] \in Early)
  BY ComingFalls
<1>3. Coming(r) /\ Untouched(r)
  <2>1. Coming(r)
    BY <1>1, <1>2 DEF Coming, Askers, BeforeEnter
  <2>. QED BY <1>0, <2>1 DEF FreshInv
<1>4. ASSUME NEW g \in Handler, RunIn(g) = r, pc[g] # "idle"
      PROVE  task[g] = FirstTask(r) /\ task[g].answer = 0
  <2>1. job[g] \in 1..delivered /\ delivered \in 0..Len(stream) /\ task[g] = stream[job[g]] /\ task[g] \in RunTask
    BY <1>4 DEF QueueInv, JobInv, TypeOK, QueueTypeOK, WorkerTypeOK, HandlerTypeOK
  <2>2. stream[job[g]].run = r /\ job[g] \in 1..Len(stream) /\ Len(stream) \in Nat
    BY <1>4, <2>1 DEF RunIn, TypeOK, QueueTypeOK
  <2>. QED BY <1>3, <2>1, <2>2 DEF Untouched, FirstTask, RunTask
<1>5. ASSUME NEW g \in Handler, EmitStarted(g), RunIn(g) = r PROVE FALSE
  <2>1. pc[g] = "started" /\ g \in Askers(r)
    BY <1>4, <1>5 DEF EmitStarted, At, Askers, BeforeEnter, Early
  <2>2. pc'[g] = "acquire"
    BY <1>5 DEF EmitStarted, Only, Goto, TypeOK, WorkerTypeOK, HandlerTypeOK
  <2>3. ~Reservable(r) /\ \A h \in Askers(r) : h = g
    BY <1>0, <2>1, OneAsker
  <2>4. PICK h \in Handler : task'[h] = FirstTask(r) /\ pc'[h] \in Early
    BY <1>1, <1>2, <2>3
  <2>5. h \in Askers(r)
    BY <1>2, <2>3, <2>4 DEF Askers, BeforeEnter
  <2>. QED BY <2>2, <2>3, <2>4, <2>5 DEF Early
<1>6. ASSUME NEW g \in Handler, EmitInterrupt(g), RunIn(g) = r PROVE FALSE
  <2>1. pc[g] = "interrupt" /\ task[g].answer = 0
    BY <1>4, <1>6 DEF EmitInterrupt, At
  <2>2. asked[r] # 0
    BY <1>6, <2>1 DEF FreshInv, Inside
  <2>3. Askers(r) = {} /\ ~Reservable(r)
    BY <1>0, <2>2, OneAsker
  <2>. QED BY <1>3, <2>3 DEF Coming
<1>7. \A i \in 1..Len(log'[r]) : log'[r][i].type \notin {"run.started", "interrupt"}
  <2>1. \/ log'[r] = log[r]
        \/ \E e \in Event : log'[r] = Append(log[r], e) /\ e.type \notin {"run.started", "interrupt"}
    BY <1>0, <1>5, <1>6, RunLogStep
  <2>2. \A i \in 1..Len(log[r]) : log[r][i].type \notin {"run.started", "interrupt"}
    BY <1>3 DEF Untouched
  <2>3. ASSUME NEW e \in Event, log'[r] = Append(log[r], e), NEW i \in 1..Len(log'[r])
        PROVE  log'[r][i] = e \/ (i \in 1..Len(log[r]) /\ log'[r][i] = log[r][i])
    BY <1>0, <2>3
  <2>. QED BY <2>1, <2>2, <2>3
<1>8. /\ \A m \in 1..Len(stream') : stream'[m].run = r => stream'[m].answer = 0
      /\ \A c \in Client : req'[c].run = r => req'[c].op \notin {"resume", "republish"}
  BY <1>3, UntouchedRequests
<1>. QED BY <1>7, <1>8 DEF Untouched

LEMMA InitFresh == Init => FreshInv
<1>. SUFFICES ASSUME Init PROVE FreshInv
  OBVIOUS
<1>1. /\ \A r \in Run : Len(log[r]) = 0
      /\ Len(stream) = 0
      /\ \A c \in Client : req[c].op = "none"
      /\ \A h \in Handler : pc[h] = "idle"
  BY DEF Init, LogInit, QueueInit, ApiInit, NoRequest, WorkerInit
<1>2. \A r \in Run : Untouched(r)
  <2>1. \A r \in Run : 1..Len(log[r]) = {}
    BY <1>1
  <2>2. 1..Len(stream) = {}
    BY <1>1
  <2>. QED BY <1>1, <2>1, <2>2, Zenon DEF Untouched
<1>3. FreshUnlessFault
  BY <1>1 DEF FreshUnlessFault
<1>4. \A h \in Handler : pc[h] \notin Inside
  BY <1>1 DEF Inside
<1>. QED BY <1>2, <1>3, <1>4, Zenon DEF FreshInv

LEMMA NextFresh ==
    TypeOK /\ QueueInv /\ TaskInv /\ CreditInv /\ FreshInv /\ [Next]_vars => FreshInv'
<1>. SUFFICES ASSUME TypeOK, QueueInv, TaskInv, CreditInv, FreshInv, [Next]_vars PROVE FreshInv'
  OBVIOUS
<1>1. \A h \in Handler : pc'[h] \in Inside /\ task'[h].answer = 0 => asked'[task'[h].run] # 0
  BY InsideAsked
<1>2. crashes' + hiccups' = 0 => \A r \in Run : Coming(r)' => Untouched(r)'
  BY UntouchedStep
<1>3. FreshUnlessFault'
  BY FreshStep DEF FreshUnlessFault, RunStarted
<1>. QED BY <1>1, <1>2, <1>3 DEF FreshInv, RunIn

\* Unless a store or a worker failed, the announcement of a first start precedes every
\* other announcement of the run, redelivered and approved ones included
\* (app/run/executor.py execute, run.started with resumed=False).
THEOREM FreshStartsFirst == Spec => []FreshUnlessFault
<1>1. FreshInv => FreshUnlessFault
  BY DEF FreshInv
<1>. QED
  BY <1>1, InitQueue, NextQueue, InitTask, NextTask, InitCredit, NextCredit, InitFresh, NextFresh,
     TypeCorrect, PTL DEF Spec

--------------------------------------------------------------------------------
(* The verdict. *)


VerdictInv == OneDebtor /\ OneVerdict

RunInv(r) ==
    /\ \A d, e \in Owed(r) : d = e /\ d[3] = EventOf(status[r]) /\ Verdicts(r) = {}
    /\ \A i, j \in Verdicts(r) : i = j /\ log[r][i].type = EventOf(status[r])

LEMMA PerRun == VerdictInv <=> \A r \in Run : RunInv(r)
BY DEF VerdictInv, OneDebtor, OneVerdict, RunInv

\* What appending does to the terminal events of a log.
LEMMA AppendVerdicts ==
    ASSUME LogTypeOK, NEW r \in Run, NEW e \in Event, append(r, e)
    PROVE  /\ e.type \notin TERMINAL_EVENT_TYPE => Verdicts(r)' = Verdicts(r)
           /\ e.type \in TERMINAL_EVENT_TYPE => Verdicts(r)' = Verdicts(r) \cup {Len(log[r]) + 1}
           /\ \A i \in Verdicts(r) : log'[r][i] = log[r][i]
           /\ log'[r][Len(log[r]) + 1] = e
           /\ \A q \in Run : q # r => log'[q] = log[q]
<1>1. log' = [log EXCEPT ![r] = Append(@, e)] /\ log[r] \in Seq(Event)
  BY DEF append, LogTypeOK
<1>2. log'[r] = Append(log[r], e) /\ \A q \in Run : q # r => log'[q] = log[q]
  BY <1>1 DEF LogTypeOK
<1>3. /\ Len(log'[r]) = Len(log[r]) + 1
      /\ \A i \in 1..Len(log[r]) : log'[r][i] = log[r][i]
      /\ log'[r][Len(log[r]) + 1] = e
  BY <1>1, <1>2
<1>4. Len(log[r]) \in Nat
  BY <1>1
<1>. QED BY <1>2, <1>3, <1>4 DEF Verdicts

\* Nothing that matters to r changes.
LEMMA Still ==
    ASSUME NEW r \in Run, RunInv(r), status'[r] = status[r],
           Verdicts(r)' = Verdicts(r), \A i \in Verdicts(r) : log'[r][i] = log[r][i],
           Owed(r)' \subseteq Owed(r)
    PROVE  RunInv(r)'
BY DEF RunInv

\* A live run has no terminal event and nobody owes it one.
LEMMA LiveRunClean ==
    ASSUME NEW r \in Run, TypeOK, RunInv(r), status[r] \notin TERMINAL_STATUS
    PROVE  Owed(r) = {} /\ Verdicts(r) = {}
<1>1. EventOf(status[r]) = "none"
  BY DEF EventOf, TERMINAL_STATUS
<1>2. \A d \in Owed(r) : d[3] # "none"
  BY DEF Owed, VerdictOf
<1>3. \A i \in Verdicts(r) : log[r][i].type # "none"
  BY DEF Verdicts, TERMINAL_EVENT_TYPE
<1>. QED BY <1>1, <1>2, <1>3 DEF RunInv

\* A live run moves; if it ends, at most one process comes to owe the event.
LEMMA Moves ==
    ASSUME NEW r \in Run, TypeOK, RunInv(r), status[r] \notin TERMINAL_STATUS,
           Verdicts(r)' = Verdicts(r), NEW d, Owed(r)' \subseteq Owed(r) \cup {d},
           d[3] = EventOf(status'[r])
    PROVE  RunInv(r)'
BY LiveRunClean DEF RunInv

\* The debtor pays.
LEMMA Pays ==
    ASSUME NEW r \in Run, TypeOK, RunInv(r), status'[r] = status[r],
           NEW d \in Owed(r), Owed(r)' \subseteq Owed(r) \ {d},
           NEW e \in Event, append(r, e), e.type = d[3], e.type \in TERMINAL_EVENT_TYPE
    PROVE  RunInv(r)'
<1>1. Verdicts(r) = {} /\ d[3] = EventOf(status[r]) /\ Owed(r)' = {}
  BY DEF RunInv
<1>2. Verdicts(r)' = {Len(log[r]) + 1} /\ log'[r][Len(log[r]) + 1] = e
  BY <1>1, AppendVerdicts DEF TypeOK
<1>. QED BY <1>1, <1>2 DEF RunInv

--------------------------------------------------------------------------------
(***************************************************************************)
(* How the debts change with the pc of a handler, a request or a cron.     *)
(***************************************************************************)
LEMMA HandlerMoves ==
    ASSUME HandlerTypeOK, NEW h \in Handler, NEW p \in HandlerPc, Only(h, p),
           UNCHANGED <<req, cronVars>>
    PROVE  /\ p \notin VerdictPc => \A r \in Run :
                \A d \in Owed(r)' : d \in Owed(r) /\ ~(d[1] = "worker" /\ d[2] = h)
           /\ \A r \in Run : r # RunIn(h) => Owed(r)' \subseteq Owed(r)
           /\ \A r \in Run : r = RunIn(h) =>
                Owed(r)' \subseteq Owed(r) \cup {<<"worker", h, VerdictOf(p)>>}
<1>1. /\ pc' = [pc EXCEPT ![h] = p]
      /\ task' = task
      /\ req' = req /\ rpc' = rpc /\ rcur' = rcur /\ spc' = spc /\ scur' = scur
  BY DEF Only, Goto, cronVars, reaperVars, sweeperVars
<1>2. pc'[h] = p /\ \A g \in Handler : g # h => pc'[g] = pc[g]
  BY <1>1 DEF HandlerTypeOK
<1>3. \A g : RunIn(g)' = RunIn(g)
  BY <1>1 DEF RunIn
<1>. QED BY <1>1, <1>2, <1>3 DEF Owed

\* Handlers that leave their verdict behind, or were not at one, owe nothing new.
LEMMA HandlersDrop ==
    ASSUME \A h \in Handler : pc'[h] \in VerdictPc => pc'[h] = pc[h] /\ task'[h] = task[h],
           UNCHANGED <<req, cronVars>>, NEW r \in Run
    PROVE  Owed(r)' \subseteq Owed(r)
<1>1. req' = req /\ rpc' = rpc /\ rcur' = rcur /\ spc' = spc /\ scur' = scur
  BY DEF cronVars, reaperVars, sweeperVars
<1>. QED BY <1>1 DEF Owed, RunIn

--------------------------------------------------------------------------------
(***************************************************************************)
(* The four kinds of step, for all runs at once.                           *)
(***************************************************************************)
LEMMA StillInv ==
    ASSUME VerdictInv, UNCHANGED <<status, log>>,
           \A q \in Run : Owed(q)' \subseteq Owed(q)
    PROVE  VerdictInv'
<1>1. \A q \in Run : Verdicts(q)' = Verdicts(q)
  BY DEF Verdicts
<1>2. \A q \in Run : RunInv(q)'
  BY <1>1, PerRun, Still
<1>3. (\A q \in Run : RunInv(q)') => VerdictInv'
  BY DEF VerdictInv, OneDebtor, OneVerdict, RunInv
<1>. QED BY <1>2, <1>3

LEMMA EmitInv ==
    ASSUME TypeOK, VerdictInv, UNCHANGED status,
           NEW r \in Run, NEW e \in Event, e.type \notin TERMINAL_EVENT_TYPE, append(r, e),
           \A q \in Run : Owed(q)' \subseteq Owed(q)
    PROVE  VerdictInv'
<1>1. \A q \in Run : Verdicts(q)' = Verdicts(q) /\ \A i \in Verdicts(q) : log'[q][i] = log[q][i]
  BY AppendVerdicts DEF Verdicts, TypeOK
<1>2. \A q \in Run : RunInv(q)'
  BY <1>1, PerRun, Still
<1>3. (\A q \in Run : RunInv(q)') => VerdictInv'
  BY DEF VerdictInv, OneDebtor, OneVerdict, RunInv
<1>. QED BY <1>2, <1>3

LEMMA PayInv ==
    ASSUME TypeOK, VerdictInv, UNCHANGED status,
           NEW r \in Run, NEW d \in Owed(r), NEW e \in Event, append(r, e),
           e.type = d[3], e.type \in TERMINAL_EVENT_TYPE,
           Owed(r)' \subseteq Owed(r) \ {d},
           \A q \in Run : q # r => Owed(q)' \subseteq Owed(q)
    PROVE  VerdictInv'
<1>1. RunInv(r)'
  BY PerRun, Pays
<1>2. ASSUME NEW q \in Run, q # r PROVE RunInv(q)'
  <2>1. Verdicts(q)' = Verdicts(q) /\ log'[q] = log[q]
    BY <1>2, AppendVerdicts DEF Verdicts, TypeOK
  <2>. QED BY <1>2, <2>1, PerRun, Still
<1>3. (\A q \in Run : RunInv(q)') => VerdictInv'
  BY DEF VerdictInv, OneDebtor, OneVerdict, RunInv
<1>. QED BY <1>1, <1>2, <1>3

LEMMA TransitInv ==
    ASSUME TypeOK, VerdictInv, UNCHANGED log,
           NEW r \in Run, NEW allowed, NEW to \in RowStatus,
           allowed \cap TERMINAL_STATUS = {}, TransitFrom(r, allowed, to),
           NEW d, d[3] = EventOf(to), Owed(r)' \subseteq Owed(r) \cup {d},
           status[r] \notin allowed => Owed(r)' \subseteq Owed(r),
           \A q \in Run : q # r => Owed(q)' \subseteq Owed(q)
    PROVE  VerdictInv'
<1>1. \A q \in Run : Verdicts(q)' = Verdicts(q)
  BY DEF Verdicts
<1>2. \A q \in Run : q # r => status'[q] = status[q]
  BY DEF TransitFrom, TypeOK, StoreTypeOK
<1>3. RunInv(r)'
  <2>1. CASE status[r] \in allowed
    <3>1. status[r] \notin TERMINAL_STATUS /\ status'[r] = to
      BY <2>1 DEF TransitFrom, TypeOK, StoreTypeOK
    <3>. QED BY <3>1, <1>1, PerRun, Moves
  <2>2. CASE status[r] \notin allowed
    <3>1. status'[r] = status[r]
      BY <2>2 DEF TransitFrom
    <3>. QED BY <2>2, <3>1, <1>1, PerRun, Still
  <2>. QED BY <2>1, <2>2
<1>4. ASSUME NEW q \in Run, q # r PROVE RunInv(q)'
  BY <1>1, <1>2, <1>4, PerRun, Still
<1>5. (\A q \in Run : RunInv(q)') => VerdictInv'
  BY DEF VerdictInv, OneDebtor, OneVerdict, RunInv
<1>. QED BY <1>3, <1>4, <1>5

LEMMA CancellableIsLive ==
    /\ CANCELLABLE_STATUS \cap TERMINAL_STATUS = {}
    /\ RESUMABLE_STATUS \cap TERMINAL_STATUS = {}
BY DEF CANCELLABLE_STATUS, RESUMABLE_STATUS, TERMINAL_STATUS

--------------------------------------------------------------------------------
(***************************************************************************)
(* The worker's steps.                                                     *)
(***************************************************************************)
\* The pcs that are no verdicts.
LEMMA NoVerdictPc ==
    {"idle", "check", "guard", "halt", "start", "restart", "started", "acquire", "ready", "enter",
     "step", "emit", "inspect", "suspend", "interrupt", "succeed", "fail", "stop", "ack"}
       \subseteq HandlerPc \ VerdictPc
BY DEF HandlerPc, VerdictPc, OutsideTry, InsideTry, Failing

LEMMA ReadStepInv ==
    ASSUME TypeOK, VerdictInv, NEW h \in Handler, UNCHANGED <<req, cronVars>>,
           \/ Reserve(h) \/ CheckCancel(h) \/ CheckThread(h) \/ Acquire(h) \/ EnterGraph(h)
           \/ GraphStep(h) \/ GraphEnds(h) \/ GraphRaises(h) \/ Inspect(h) \/ Finish(h)
    PROVE  VerdictInv'
<1>1. UNCHANGED <<status, log>>
  BY DEF Reserve, CheckCancel, CheckThread, Acquire, EnterGraph, GraphStep, GraphEnds, GraphRaises,
         Inspect, Finish, storeVars
<1>2. \E p \in HandlerPc \ VerdictPc : Goto(h, p)
  BY NoVerdictPc
     DEF Reserve, CheckCancel, CheckThread, Acquire, EnterGraph, GraphStep, GraphEnds, GraphRaises,
         Inspect, Finish, Only
<1>3. \A g \in Handler : g # h => pc'[g] = pc[g] /\ task'[g] = task[g]
  BY DEF Reserve, CheckCancel, CheckThread, Acquire, EnterGraph, GraphStep, GraphEnds, GraphRaises,
         Inspect, Finish, Only, Goto, TypeOK, WorkerTypeOK, HandlerTypeOK
<1>4. pc'[h] \notin VerdictPc
  BY <1>2 DEF Goto, TypeOK, WorkerTypeOK, HandlerTypeOK
<1>5. \A q \in Run : Owed(q)' \subseteq Owed(q)
  BY <1>3, <1>4, HandlersDrop
<1>. QED BY <1>1, <1>5, StillInv

LEMMA StartInv ==
    ASSUME TypeOK, VerdictInv, NEW h \in Handler, UNCHANGED <<req, cronVars>>,
           StartFirst(h) \/ StartResumed(h)
    PROVE  VerdictInv'
<1>1. PICK allowed \in {{"queued"}, RESUMABLE_STATUS} : TransitFrom(RunIn(h), allowed, "running")
  BY DEF StartFirst, StartResumed, startFirst, startResumed
<1>2. allowed \cap TERMINAL_STATUS = {} /\ "running" \in RowStatus
  BY CancellableIsLive DEF TERMINAL_STATUS, RowStatus, CANCELLABLE_STATUS
<1>3. \E p \in HandlerPc \ VerdictPc : Goto(h, p)
  BY NoVerdictPc DEF StartFirst, StartResumed, Only
<1>4. \A g \in Handler : pc'[g] \in VerdictPc => pc'[g] = pc[g] /\ task'[g] = task[g]
  BY <1>3 DEF StartFirst, StartResumed, Only, Goto, TypeOK, WorkerTypeOK, HandlerTypeOK
<1>5. \A q \in Run : Owed(q)' \subseteq Owed(q)
  BY <1>4, HandlersDrop
<1>6. RunIn(h) \in Run /\ UNCHANGED log
  BY RunInType DEF TypeOK, WorkerTypeOK, StartFirst, StartResumed
<1>7. <<0, 0, "none">>[3] = EventOf("running")
  BY DEF EventOf
<1>. QED BY <1>1, <1>2, <1>5, <1>6, <1>7, TransitInv

LEMMA EmitStepInv ==
    ASSUME TypeOK, VerdictInv, NEW h \in Handler, UNCHANGED <<req, cronVars>>,
           EmitStarted(h) \/ EmitReady(h) \/ EmitProgress(h) \/ EmitToken(h) \/ EmitInterrupt(h)
    PROVE  VerdictInv'
<1>1. PICK e \in Event : append(RunIn(h), e) /\ e.type \notin TERMINAL_EVENT_TYPE
  <2>1. CASE EmitStarted(h)
    <3>. DEFINE again == (task[h].answer # 0 \/ mode[h] = "resumed")
    <3>1. again \in BOOLEAN
      OBVIOUS
    <3>2. RunStarted(again) \in Event /\ RunStarted(again).type \notin TERMINAL_EVENT_TYPE
      BY <3>1, StartedType DEF RunStarted, TERMINAL_EVENT_TYPE
    <3>. QED BY <2>1, <3>2 DEF EmitStarted
  <2>2. CASE EmitReady(h)
    BY <2>2, PlainType DEF EmitReady, Plain, EventType, TERMINAL_EVENT_TYPE
  <2>3. CASE EmitProgress(h) \/ EmitToken(h)
    BY <2>3, PlainType DEF EmitProgress, EmitToken, Plain, EventType, TERMINAL_EVENT_TYPE
  <2>4. CASE EmitInterrupt(h)
    <3>1. Interrupt(seen[h]) \in Event
      BY InterruptType DEF TypeOK, WorkerTypeOK, HandlerTypeOK
    <3>. QED BY <2>4, <3>1 DEF EmitInterrupt, Interrupt, TERMINAL_EVENT_TYPE
  <2>. QED BY <2>1, <2>2, <2>3, <2>4
<1>2. PICK p \in HandlerPc \ VerdictPc : Only(h, p)
  BY NoVerdictPc DEF EmitStarted, EmitReady, EmitProgress, EmitToken, EmitInterrupt
<1>3. \A q \in Run : Owed(q)' \subseteq Owed(q)
  BY <1>2, HandlerMoves DEF TypeOK, WorkerTypeOK
<1>4. RunIn(h) \in Run /\ UNCHANGED status
  BY RunInType DEF TypeOK, WorkerTypeOK, EmitStarted, EmitReady, EmitProgress, EmitToken, EmitInterrupt, storeVars
<1>. QED BY <1>1, <1>3, <1>4, EmitInv

\* A settling update: if it takes effect the handler owes the event of the new status,
\* otherwise it goes straight to the acknowledgement.
LEMMA SettleInv ==
    ASSUME TypeOK, VerdictInv, NEW h \in Handler, UNCHANGED <<req, cronVars>>,
           NEW from, NEW p \in HandlerPc, NEW to \in RowStatus,
           Settle(h, from, p, Transit(RunIn(h), to)),
           p \in VerdictPc => VerdictOf(p) = EventOf(to)
    PROVE  VerdictInv'
<1>0. PICK r \in Run : r = RunIn(h)
  BY RunInType DEF TypeOK, WorkerTypeOK
<1>1. TransitFrom(r, CANCELLABLE_STATUS, to) /\ UNCHANGED log
  BY <1>0 DEF Settle, Transit
<1>2. "ack" \in HandlerPc /\ "ack" \notin VerdictPc
  BY NoVerdictPc
<1>3. Only(h, IF status[r] \in CANCELLABLE_STATUS THEN p ELSE "ack")
  BY <1>0 DEF Settle, CanTransit
<1>4. \A q \in Run : q # r => Owed(q)' \subseteq Owed(q)
  BY <1>0, <1>2, <1>3, HandlerMoves DEF TypeOK, WorkerTypeOK
<1>5. status[r] \notin CANCELLABLE_STATUS => Owed(r)' \subseteq Owed(r)
  BY <1>2, <1>3, HandlerMoves DEF TypeOK, WorkerTypeOK
<1>6. Owed(r)' \subseteq Owed(r) \cup {<<"worker", h, EventOf(to)>>}
  <2>1. CASE status[r] \in CANCELLABLE_STATUS /\ p \in VerdictPc
    BY <1>0, <1>3, <2>1, HandlerMoves DEF TypeOK, WorkerTypeOK
  <2>2. CASE status[r] \in CANCELLABLE_STATUS /\ p \notin VerdictPc
    BY <1>3, <2>2, HandlerMoves DEF TypeOK, WorkerTypeOK
  <2>. QED BY <1>5, <2>1, <2>2
<1>7. <<"worker", h, EventOf(to)>>[3] = EventOf(to)
  OBVIOUS
<1>. QED BY <1>1, <1>4, <1>5, <1>6, <1>7, CancellableIsLive, TransitInv

LEMMA SettlingInv ==
    ASSUME TypeOK, VerdictInv, NEW h \in Handler, UNCHANGED <<req, cronVars>>,
           Suspend(h) \/ Succeed(h) \/ Fail(h) \/ Stop(h) \/ Halt(h)
    PROVE  VerdictInv'
<1>0. {"waiting_approval", "succeeded", "failed", "cancelled"} \subseteq RowStatus
  BY DEF RowStatus, CANCELLABLE_STATUS, TERMINAL_STATUS
<1>1. {"interrupt", "finished", "failed", "cancelled", "halted"} \subseteq HandlerPc
  BY DEF HandlerPc, InsideTry, OutsideTry, Failing
<1>2. /\ "interrupt" \notin VerdictPc
      /\ VerdictOf("finished") = EventOf("succeeded")
      /\ VerdictOf("failed") = EventOf("failed")
      /\ VerdictOf("cancelled") = EventOf("cancelled")
      /\ VerdictOf("halted") = EventOf("cancelled")
  BY DEF VerdictPc, VerdictOf, EventOf
<1>3. CASE Suspend(h) BY <1>0, <1>1, <1>2, <1>3, SettleInv DEF Suspend, wait_approval
<1>4. CASE Succeed(h) BY <1>0, <1>1, <1>2, <1>4, SettleInv DEF Succeed, succeed
<1>5. CASE Fail(h)    BY <1>0, <1>1, <1>2, <1>5, SettleInv DEF Fail, fail
<1>6. CASE Stop(h)    BY <1>0, <1>1, <1>2, <1>6, SettleInv DEF Stop, cancel
<1>7. CASE Halt(h)    BY <1>0, <1>1, <1>2, <1>7, SettleInv DEF Halt, cancel
<1>. QED BY <1>3, <1>4, <1>5, <1>6, <1>7

LEMMA EmitVerdictInv ==
    ASSUME TypeOK, VerdictInv, NEW h \in Handler, UNCHANGED <<req, cronVars>>, EmitVerdict(h)
    PROVE  VerdictInv'
<1>0. PICK r \in Run, v \in TERMINAL_EVENT_TYPE : r = RunIn(h) /\ v = VerdictOf(pc[h])
  BY RunInType DEF TypeOK, WorkerTypeOK, VerdictOf, TERMINAL_EVENT_TYPE
<1>. DEFINE d == <<"worker", h, v>>
            e == Plain(v)
<1>1. UNCHANGED status /\ append(r, e)
  BY <1>0 DEF EmitVerdict, storeVars
<1>3. e \in Event /\ e.type = d[3] /\ e.type \in TERMINAL_EVENT_TYPE
  BY PlainType DEF Plain, EventType
<1>4. d \in Owed(r)
  BY <1>0 DEF EmitVerdict, Owed
<1>5. \A q \in Run : \A x \in Owed(q)' : x \in Owed(q) /\ ~(x[1] = "worker" /\ x[2] = h)
  BY NoVerdictPc, HandlerMoves DEF EmitVerdict, TypeOK, WorkerTypeOK
<1>6. Owed(r)' \subseteq Owed(r) \ {d} /\ \A q \in Run : q # r => Owed(q)' \subseteq Owed(q)
  BY <1>5
<1>. QED BY <1>1, <1>3, <1>4, <1>6, PayInv

LEMMA HandlerStepInv ==
    ASSUME TypeOK, VerdictInv, NEW h \in Handler, WorkerRuns(h)
    PROVE  VerdictInv'
BY ReadStepInv, StartInv, EmitStepInv, SettlingInv, EmitVerdictInv DEF WorkerRuns, HandlerStep

LEMMA WorkerFaultInv ==
    ASSUME TypeOK, VerdictInv, WorkerFault
    PROVE  VerdictInv'
<1>1. UNCHANGED <<status, log>> /\ UNCHANGED <<req, cronVars>>
  BY DEF WorkerFault, Hiccup, BeatStops, Crash, storeVars
<1>2. \A g \in Handler : pc'[g] \in VerdictPc => pc'[g] = pc[g] /\ task'[g] = task[g]
  <2>. USE DEF TypeOK, WorkerTypeOK, HandlerTypeOK
  <2>1. ASSUME NEW h \in Handler, Hiccup(h), NEW g \in Handler, pc'[g] \in VerdictPc
        PROVE  pc'[g] = pc[g] /\ task'[g] = task[g]
    BY <2>1, NoVerdictPc DEF Hiccup, Only, Goto
  <2>2. ASSUME NEW h \in Handler, BeatStops(h), NEW g \in Handler
        PROVE  pc'[g] = pc[g] /\ task'[g] = task[g]
    BY <2>2 DEF BeatStops
  <2>3. ASSUME NEW w \in Worker, Crash(w), NEW g \in Handler, pc'[g] \in VerdictPc
        PROVE  pc'[g] = pc[g] /\ task'[g] = task[g]
    BY <2>3, NoVerdictPc DEF Crash
  <2>. QED BY <2>1, <2>2, <2>3 DEF WorkerFault
<1>3. \A q \in Run : Owed(q)' \subseteq Owed(q)
  BY <1>1, <1>2, HandlersDrop
<1>. QED BY <1>1, <1>3, StillInv

--------------------------------------------------------------------------------
(***************************************************************************)
(* The api's steps.                                                        *)
(***************************************************************************)
\* A request that is not about to announce owes nothing.
LEMMA RequestDrops ==
    ASSUME ApiTypeOK, NEW c \in Client, UNCHANGED <<workerVars, cronVars>>,
           NEW x \in Request, req' = [req EXCEPT ![c] = x], x.op # "announce"
    PROVE  \A q \in Run : \A d \in Owed(q)' : d \in Owed(q) /\ ~(d[1] = "api" /\ d[2] = c)
<1>1. /\ pc' = pc /\ task' = task
      /\ rpc' = rpc /\ rcur' = rcur /\ spc' = spc /\ scur' = scur
  BY DEF workerVars, handlerVars, cronVars, reaperVars, sweeperVars
<1>2. req'[c] = x /\ \A d \in Client : d # c => req'[d] = req[d]
  BY DEF ApiTypeOK
<1>. QED BY <1>1, <1>2 DEF Owed, RunIn

LEMMA RequestOwes ==
    ASSUME ApiTypeOK, NEW c \in Client, UNCHANGED <<workerVars, cronVars>>,
           NEW r \in Run, req' = [req EXCEPT ![c] = [op |-> "announce", run |-> r, answer |-> 0]]
    PROVE  /\ Owed(r)' \subseteq Owed(r) \cup {<<"api", c, "run.cancelled">>}
           /\ \A q \in Run : q # r => Owed(q)' \subseteq Owed(q)
<1>1. /\ pc' = pc /\ task' = task
      /\ rpc' = rpc /\ rcur' = rcur /\ spc' = spc /\ scur' = scur
  BY DEF workerVars, handlerVars, cronVars, reaperVars, sweeperVars
<1>2. /\ req'[c].op = "announce" /\ req'[c].run = r
      /\ \A d \in Client : d # c => req'[d] = req[d]
  BY DEF ApiTypeOK
<1>. QED BY <1>1, <1>2 DEF Owed, RunIn

LEMMA UserActsInv ==
    ASSUME TypeOK, VerdictInv, UserActs
    PROVE  VerdictInv'
<1>1. PICK c \in Client, r \in Run : SubmitRun(c, r) \/ RaiseFlag(c, r) \/ ReadApproval(c, r)
  BY DEF UserActs
<1>2. UNCHANGED <<workerVars, cronVars>> /\ UNCHANGED log
  BY <1>1 DEF UserActs, SubmitRun, RaiseFlag, ReadApproval
<1>3. PICK op \in {"submit", "cancel", "resume"}, k \in 0..MaxAsk : Next_op(c, op, r, k)
  BY <1>1, ShownAskType, PlatformAssumption DEF SubmitRun, RaiseFlag, ReadApproval, TypeOK
<1>4. \A q \in Run : Owed(q)' \subseteq Owed(q)
  <2>1. [op |-> op, run |-> r, answer |-> k] \in Request /\ [op |-> op, run |-> r, answer |-> k].op # "announce"
    BY DEF Request, RequestOp
  <2>. QED BY <1>2, <1>3, <2>1, RequestDrops DEF Next_op, TypeOK
<1>. QED BY <1>1, <1>2, <1>4, StillInv DEF SubmitRun, RaiseFlag, ReadApproval, storeVars

LEMMA ApiRunsInv ==
    ASSUME TypeOK, VerdictInv, NEW c \in Client, ApiRuns(c)
    PROVE  VerdictInv'
<1>0. UNCHANGED <<workerVars, cronVars>> /\ ApiTypeOK
  BY DEF ApiRuns, TypeOK
<1>1. PICK r \in Run, k \in 0..MaxAsk : r = req[c].run /\ k = req[c].answer
  BY DEF TypeOK, ApiTypeOK, Request
<1>2. NoRequest \in Request /\ NoRequest.op # "announce"
  BY AnyRunType DEF NoRequest
<1>3. Done(c) => \A q \in Run : \A d \in Owed(q)' : d \in Owed(q) /\ ~(d[1] = "api" /\ d[2] = c)
  BY <1>0, <1>2, RequestDrops DEF Done
<1>4. CASE PublishRun(c) \/ Republish(c)
  BY <1>3, <1>4, StillInv DEF PublishRun, Republish, storeVars
<1>5. CASE CancelRow(c)
  <2>1. TransitFrom(r, CANCELLABLE_STATUS, "cancelled") /\ UNCHANGED log
    BY <1>1, <1>5 DEF CancelRow, cancel, Transit
  <2>2. "cancelled" \in RowStatus /\ <<"api", c, "run.cancelled">>[3] = EventOf("cancelled")
    BY DEF RowStatus, TERMINAL_STATUS, EventOf
  <2>3. CASE status[r] \in CANCELLABLE_STATUS
    <3>1. req' = [req EXCEPT ![c] = [op |-> "announce", run |-> r, answer |-> 0]]
      BY <1>1, <1>5, <2>3 DEF CancelRow, CanTransit, Next_op
    <3>. QED BY <1>0, <2>1, <2>2, <2>3, <3>1, RequestOwes, CancellableIsLive, TransitInv
  <2>4. CASE status[r] \notin CANCELLABLE_STATUS
    <3>1. Done(c) /\ UNCHANGED <<status, log>>
      BY <1>1, <1>5, <2>1, <2>4 DEF CancelRow, CanTransit, TransitFrom
    <3>. QED BY <1>3, <3>1, StillInv
  <2>. QED BY <2>3, <2>4
<1>6. CASE AnnounceCancel(c)
  <2>. DEFINE d == <<"api", c, "run.cancelled">>
              e == Plain("run.cancelled")
  <2>1. append(r, e) /\ UNCHANGED status /\ Done(c)
    BY <1>1, <1>6 DEF AnnounceCancel, storeVars
  <2>2. e \in Event /\ e.type = d[3] /\ e.type \in TERMINAL_EVENT_TYPE
    BY PlainType DEF Plain, EventType, TERMINAL_EVENT_TYPE
  <2>3. d \in Owed(r)
    BY <1>1, <1>6 DEF AnnounceCancel, Owed
  <2>4. Owed(r)' \subseteq Owed(r) \ {d} /\ \A q \in Run : q # r => Owed(q)' \subseteq Owed(q)
    BY <1>3, <2>1
  <2>. QED BY <2>1, <2>2, <2>3, <2>4, PayInv
<1>7. CASE ResumeRow(c)
  <2>1. TransitFrom(r, {"waiting_approval"}, "queued") /\ UNCHANGED log
    BY <1>1, <1>7 DEF ResumeRow, resume
  <2>2. /\ "queued" \in RowStatus /\ {"waiting_approval"} \cap TERMINAL_STATUS = {}
        /\ <<0, 0, "none">>[3] = EventOf("queued")
    BY DEF RowStatus, CANCELLABLE_STATUS, TERMINAL_STATUS, EventOf
  <2>3. \A q \in Run : Owed(q)' \subseteq Owed(q)
    <3>1. \E x \in Request : x.op # "announce" /\ req' = [req EXCEPT ![c] = x]
      <4>1. /\ [op |-> "republish", run |-> r, answer |-> k] \in Request
            /\ [op |-> "republish", run |-> r, answer |-> k].op # "announce"
        BY DEF Request, RequestOp
      <4>. QED BY <1>1, <1>2, <1>7, <4>1 DEF ResumeRow, Next_op, Done
    <3>. QED BY <1>0, <3>1, RequestDrops
  <2>. QED BY <2>1, <2>2, <2>3, TransitInv
<1>8. CASE CreateRun(c)
  <2>1. TransitFrom(r, {"absent"}, "queued") /\ UNCHANGED log
    BY <1>1, <1>8 DEF CreateRun, create, TransitFrom
  <2>2. /\ "queued" \in RowStatus /\ {"absent"} \cap TERMINAL_STATUS = {}
        /\ <<0, 0, "none">>[3] = EventOf("queued")
    BY DEF RowStatus, CANCELLABLE_STATUS, TERMINAL_STATUS, EventOf
  <2>3. \A q \in Run : Owed(q)' \subseteq Owed(q)
    <3>1. /\ [op |-> "publish", run |-> r, answer |-> 0] \in Request
          /\ [op |-> "publish", run |-> r, answer |-> 0].op # "announce"
      BY PlatformAssumption DEF Request, RequestOp
    <3>. QED BY <1>0, <1>1, <1>8, <3>1, RequestDrops DEF CreateRun, Next_op
  <2>. QED BY <2>1, <2>2, <2>3, TransitInv
<1>. QED BY <1>4, <1>5, <1>6, <1>7, <1>8 DEF ApiRuns, RequestStep

--------------------------------------------------------------------------------
(***************************************************************************)
(* The crons' steps.                                                       *)
(***************************************************************************)
LEMMA ReaperOwes ==
    ASSUME UNCHANGED <<workerVars, req, sweeperVars>>
    PROVE  /\ rpc' # "announce" => \A q \in Run : \A d \in Owed(q)' : d \in Owed(q) /\ d[1] # "reaper"
           /\ rpc' = rpc /\ rcur' = rcur => \A q \in Run : Owed(q)' \subseteq Owed(q)
           /\ \A q \in Run : rpc' = "announce" /\ rcur' # q => Owed(q)' \subseteq Owed(q)
           /\ \A q \in Run : Owed(q)' \subseteq Owed(q) \cup {<<"reaper", q, "run.failed">>}
<1>1. pc' = pc /\ task' = task /\ req' = req /\ spc' = spc /\ scur' = scur
  BY DEF workerVars, handlerVars, sweeperVars
<1>. QED BY <1>1 DEF Owed, RunIn

LEMMA ReaperInv ==
    ASSUME TypeOK, VerdictInv, ReaperRuns
    PROVE  VerdictInv'
<1>0. UNCHANGED <<workerVars, req, sweeperVars>>
  BY DEF ReaperRuns, ReaperStep, ReapRows, ReapGroup, ReapHolding, ReapWaiting, ReapJudge,
         ReapAnnounce, ReapDone
<1>1. CASE ReapRows \/ ReapGroup \/ ReapHolding \/ ReapWaiting \/ ReapDone
  <2>1. UNCHANGED <<status, log>> /\ rpc' # "announce"
    BY <1>1 DEF ReapRows, ReapGroup, ReapHolding, ReapWaiting, ReapDone, ReaperRest, storeVars
  <2>. QED BY <1>0, <2>1, ReaperOwes, StillInv
<1>2. ASSUME NEW r \in Run, ReapJudge(r) PROVE VerdictInv'
  <2>1. TransitFrom(r, CANCELLABLE_STATUS, "failed") /\ UNCHANGED log
    BY <1>2 DEF ReapJudge, fail, Transit
  <2>2. "failed" \in RowStatus /\ <<"reaper", r, "run.failed">>[3] = EventOf("failed")
    BY DEF RowStatus, TERMINAL_STATUS, EventOf
  <2>3. CASE status[r] \in CANCELLABLE_STATUS
    <3>1. rpc' = "announce" /\ rcur' = r
      BY <1>2, <2>3 DEF ReapJudge, CanTransit
    <3>. QED BY <1>0, <2>1, <2>2, <2>3, <3>1, ReaperOwes, CancellableIsLive, TransitInv
  <2>4. CASE status[r] \notin CANCELLABLE_STATUS
    <3>1. rpc' = rpc /\ rcur' = rcur /\ UNCHANGED <<status, log>>
      BY <1>2, <2>1, <2>4 DEF ReapJudge, CanTransit, TransitFrom
    <3>. QED BY <1>0, <3>1, ReaperOwes, StillInv
  <2>. QED BY <2>3, <2>4
<1>3. CASE ReapAnnounce
  <2>1. PICK r \in Run : r = rcur
    BY DEF TypeOK, CronTypeOK
  <2>. DEFINE d == <<"reaper", r, "run.failed">>
              e == Plain("run.failed")
  <2>2. append(r, e) /\ UNCHANGED status /\ rpc' # "announce"
    BY <1>3, <2>1 DEF ReapAnnounce, storeVars
  <2>3. e \in Event /\ e.type = d[3] /\ e.type \in TERMINAL_EVENT_TYPE
    BY PlainType DEF Plain, EventType, TERMINAL_EVENT_TYPE
  <2>4. d \in Owed(r)
    BY <1>3, <2>1 DEF ReapAnnounce, Owed
  <2>5. Owed(r)' \subseteq Owed(r) \ {d} /\ \A q \in Run : q # r => Owed(q)' \subseteq Owed(q)
    BY <1>0, <2>2, ReaperOwes
  <2>. QED BY <2>2, <2>3, <2>4, <2>5, PayInv
<1>. QED BY <1>1, <1>2, <1>3 DEF ReaperRuns, ReaperStep

LEMMA SweeperOwes ==
    ASSUME UNCHANGED <<workerVars, req, reaperVars>>
    PROVE  /\ spc' # "announce" => \A q \in Run : \A d \in Owed(q)' : d \in Owed(q) /\ d[1] # "sweeper"
           /\ spc' = spc /\ scur' = scur => \A q \in Run : Owed(q)' \subseteq Owed(q)
           /\ \A q \in Run : spc' = "announce" /\ scur' # q => Owed(q)' \subseteq Owed(q)
           /\ \A q \in Run : Owed(q)' \subseteq Owed(q) \cup {<<"sweeper", q, "run.cancelled">>}
<1>1. pc' = pc /\ task' = task /\ req' = req /\ rpc' = rpc /\ rcur' = rcur
  BY DEF workerVars, handlerVars, reaperVars
<1>. QED BY <1>1 DEF Owed, RunIn

LEMMA SweeperInv ==
    ASSUME TypeOK, VerdictInv, SweeperRuns
    PROVE  VerdictInv'
<1>0. UNCHANGED <<workerVars, req, reaperVars>>
  BY DEF SweeperRuns, SweeperStep, SweepRows, SweepJudge, SweepAnnounce, SweepDone
<1>1. CASE SweepRows \/ SweepDone
  <2>1. UNCHANGED <<status, log>> /\ spc' # "announce"
    BY <1>1 DEF SweepRows, SweepDone, SweeperRest, storeVars
  <2>. QED BY <1>0, <2>1, SweeperOwes, StillInv
<1>2. ASSUME NEW r \in Run, SweepJudge(r) PROVE VerdictInv'
  <2>1. TransitFrom(r, CANCELLABLE_STATUS, "cancelled") /\ UNCHANGED log
    BY <1>2 DEF SweepJudge, cancel, Transit
  <2>2. "cancelled" \in RowStatus /\ <<"sweeper", r, "run.cancelled">>[3] = EventOf("cancelled")
    BY DEF RowStatus, TERMINAL_STATUS, EventOf
  <2>3. CASE status[r] \in CANCELLABLE_STATUS
    <3>1. spc' = "announce" /\ scur' = r
      BY <1>2, <2>3 DEF SweepJudge, CanTransit
    <3>. QED BY <1>0, <2>1, <2>2, <2>3, <3>1, SweeperOwes, CancellableIsLive, TransitInv
  <2>4. CASE status[r] \notin CANCELLABLE_STATUS
    <3>1. spc' = spc /\ scur' = scur /\ UNCHANGED <<status, log>>
      BY <1>2, <2>1, <2>4 DEF SweepJudge, CanTransit, TransitFrom
    <3>. QED BY <1>0, <3>1, SweeperOwes, StillInv
  <2>. QED BY <2>3, <2>4
<1>3. CASE SweepAnnounce
  <2>1. PICK r \in Run : r = scur
    BY DEF TypeOK, CronTypeOK
  <2>. DEFINE d == <<"sweeper", r, "run.cancelled">>
              e == Plain("run.cancelled")
  <2>2. append(r, e) /\ UNCHANGED status /\ spc' # "announce"
    BY <1>3, <2>1 DEF SweepAnnounce, storeVars
  <2>3. e \in Event /\ e.type = d[3] /\ e.type \in TERMINAL_EVENT_TYPE
    BY PlainType DEF Plain, EventType, TERMINAL_EVENT_TYPE
  <2>4. d \in Owed(r)
    BY <1>3, <2>1 DEF SweepAnnounce, Owed
  <2>5. Owed(r)' \subseteq Owed(r) \ {d} /\ \A q \in Run : q # r => Owed(q)' \subseteq Owed(q)
    BY <1>0, <2>2, SweeperOwes
  <2>. QED BY <2>2, <2>3, <2>4, <2>5, PayInv
<1>. QED BY <1>1, <1>2, <1>3 DEF SweeperRuns, SweeperStep

LEMMA OtherFaultInv ==
    ASSUME TypeOK, VerdictInv, OtherFault
    PROVE  VerdictInv'
<1>1. UNCHANGED <<status, log>> /\ pc' = pc /\ task' = task
  BY DEF OtherFault, DropRequest, CronDies, storeVars, handlerVars
<1>2. CASE (\E c \in Client : DropRequest(c)) /\ UNCHANGED cronVars
  <2>1. PICK c \in Client : req' = [req EXCEPT ![c] = NoRequest]
    BY <1>2 DEF DropRequest, Done
  <2>2. \A d \in Client : req'[d].op = "announce" => req'[d] = req[d]
    BY <2>1 DEF NoRequest, TypeOK, ApiTypeOK
  <2>3. rpc' = rpc /\ rcur' = rcur /\ spc' = spc /\ scur' = scur
    BY <1>2 DEF cronVars, reaperVars, sweeperVars
  <2>4. \A q \in Run : Owed(q)' \subseteq Owed(q)
    BY <1>1, <2>2, <2>3 DEF Owed, RunIn
  <2>. QED BY <1>1, <2>4, StillInv
<1>3. CASE CronDies /\ UNCHANGED req
  <2>1. /\ rpc' = "announce" => rpc' = rpc /\ rcur' = rcur
        /\ spc' = "announce" => spc' = spc /\ scur' = scur
    BY <1>3 DEF CronDies, ReaperRest, SweeperRest, reaperVars, sweeperVars
  <2>2. \A q \in Run : Owed(q)' \subseteq Owed(q)
    BY <1>1, <1>3, <2>1 DEF Owed, RunIn
  <2>. QED BY <1>1, <2>2, StillInv
<1>. QED BY <1>2, <1>3 DEF OtherFault

\* Steps that touch neither statuses, logs nor debts, and stuttering.
LEMMA BackgroundInv ==
    ASSUME TypeOK, VerdictInv, WorkerBoots \/ UserDeletes \/ TimePasses \/ UNCHANGED vars
    PROVE  VerdictInv'
<1>1. UNCHANGED <<status, log>> /\ UNCHANGED <<workerVars, req, cronVars>>
  BY DEF WorkerBoots, Boot, UserDeletes, DeleteThread, TimePasses, GrowOlder, vars, storeVars
<1>2. /\ pc' = pc /\ task' = task /\ req' = req
      /\ rpc' = rpc /\ rcur' = rcur /\ spc' = spc /\ scur' = scur
  BY <1>1 DEF workerVars, handlerVars, cronVars, reaperVars, sweeperVars
<1>3. \A q \in Run : Owed(q)' \subseteq Owed(q)
  BY <1>2 DEF Owed, RunIn
<1>. QED BY <1>1, <1>3, StillInv

--------------------------------------------------------------------------------
LEMMA InitClean == Init => \A r \in Run : Verdicts(r) = {}
<1>. SUFFICES ASSUME Init, NEW r \in Run, NEW i \in Verdicts(r) PROVE FALSE
  OBVIOUS
<1>1. Len(log[r]) = 0
  BY DEF Init, LogInit
<1>2. i \in 1..0
  BY <1>1 DEF Verdicts
<1>. QED BY <1>2

LEMMA InitInv == Init => VerdictInv
<1>. SUFFICES ASSUME Init PROVE VerdictInv
  OBVIOUS
<1>1. \A r \in Run : Owed(r) = {}
  BY DEF Init, WorkerInit, ApiInit, CronInit, Owed, VerdictPc, NoRequest
<1>. QED BY <1>1, InitClean DEF VerdictInv, OneDebtor, OneVerdict

LEMMA NextInv == TypeOK /\ VerdictInv /\ [Next]_vars => VerdictInv'
BY HandlerStepInv, WorkerFaultInv, UserActsInv, ApiRunsInv, ReaperInv, SweeperInv, OtherFaultInv,
   BackgroundInv DEF Next

\* Whatever workers, requests and crons do concurrently, and whatever crashes or fails, at
\* most one process owes a run its terminal event, and it owes the one of the status in
\* the table.
THEOREM DebtorUnique == Spec => []OneDebtor
<1>1. VerdictInv => OneDebtor
  BY DEF VerdictInv
<1>. QED BY <1>1, InitInv, NextInv, TypeCorrect, PTL DEF Spec

\* No run's log ever holds two terminal events, nor one that contradicts the runs table.
THEOREM VerdictUnique == Spec => []OneVerdict
<1>1. VerdictInv => OneVerdict
  BY DEF VerdictInv
<1>. QED BY <1>1, InitInv, NextInv, TypeCorrect, PTL DEF Spec

--------------------------------------------------------------------------------
(***************************************************************************)
(* The platform implements RunContract.  Seen from the runs table and the  *)
(* logs, a step is quiet, or one run walks along an edge of the state      *)
(* machine, or a debtor pays; the contract stutters, moves or announces.   *)
(***************************************************************************)
Quiet ==
    /\ UNCHANGED status
    /\ UNCHANGED log \/ \E r \in Run, e \in Event : append(r, e) /\ e.type \notin TERMINAL_EVENT_TYPE

Edge ==
    {<<{"absent"}, "queued">>, <<{"queued"}, "running">>, <<RESUMABLE_STATUS, "running">>,
     <<{"waiting_approval"}, "queued">>, <<CANCELLABLE_STATUS, "waiting_approval">>}
    \cup {<<CANCELLABLE_STATUS, s>> : s \in TERMINAL_STATUS}

Walk ==
    /\ UNCHANGED log
    /\ \E r \in Run : \E e \in Edge : TransitFrom(r, e[1], e[2])

Pay ==
    /\ UNCHANGED status
    /\ \E r \in Run : \E d \in Owed(r) : \E e \in Event :
        append(r, e) /\ e.type = d[3] /\ e.type \in TERMINAL_EVENT_TYPE

LEMMA WalkIntro ==
    ASSUME NEW r \in Run, UNCHANGED log, NEW from, NEW to, TransitFrom(r, from, to),
           \/ from = {"absent"} /\ to = "queued"
           \/ from = {"queued"} /\ to = "running"
           \/ from = RESUMABLE_STATUS /\ to = "running"
           \/ from = {"waiting_approval"} /\ to = "queued"
           \/ from = CANCELLABLE_STATUS /\ to \in TERMINAL_STATUS \cup {"waiting_approval"}
    PROVE  Walk
<1>1. <<from, to>> \in Edge
  BY DEF Edge
<1>2. TransitFrom(r, <<from, to>>[1], <<from, to>>[2])
  OBVIOUS
<1>. QED BY <1>1, <1>2 DEF Walk

LEMMA PayIntro ==
    ASSUME UNCHANGED status, NEW r \in Run, NEW v \in TERMINAL_EVENT_TYPE, append(r, Plain(v)),
           NEW a, NEW b, <<a, b, v>> \in Owed(r)
    PROVE  Pay
<1>1. Plain(v) \in Event /\ Plain(v).type = <<a, b, v>>[3] /\ Plain(v).type \in TERMINAL_EVENT_TYPE
  BY PlainType DEF Plain, EventType
<1>. QED BY <1>1 DEF Pay

LEMMA HandlerKinds ==
    ASSUME TypeOK, NEW h \in Handler, HandlerStep(h)
    PROVE  Quiet \/ Walk \/ Pay
<1>0. PICK r \in Run : r = RunIn(h)
  BY RunInType DEF TypeOK, WorkerTypeOK
<1>1. CASE \/ Reserve(h) \/ CheckCancel(h) \/ CheckThread(h) \/ Acquire(h) \/ EnterGraph(h)
           \/ GraphStep(h) \/ GraphEnds(h) \/ GraphRaises(h) \/ Inspect(h) \/ Finish(h)
  BY <1>1 DEF Reserve, CheckCancel, CheckThread, Acquire, EnterGraph, GraphStep, GraphEnds,
              GraphRaises, Inspect, Finish, storeVars, Quiet
<1>2. CASE StartFirst(h) \/ StartResumed(h)
  <2>1. UNCHANGED log /\ \E from \in {{"queued"}, RESUMABLE_STATUS} : TransitFrom(r, from, "running")
    BY <1>0, <1>2 DEF StartFirst, StartResumed, startFirst, startResumed
  <2>. QED BY <2>1, WalkIntro
<1>3. CASE EmitStarted(h) \/ EmitReady(h) \/ EmitProgress(h) \/ EmitToken(h) \/ EmitInterrupt(h)
  <2>1. UNCHANGED status
    BY <1>3 DEF EmitStarted, EmitReady, EmitProgress, EmitToken, EmitInterrupt, storeVars
  <2>2. CASE EmitStarted(h)
    <3>. DEFINE again == (task[h].answer # 0 \/ mode[h] = "resumed")
    <3>1. again \in BOOLEAN
      OBVIOUS
    <3>2. RunStarted(again) \in Event /\ RunStarted(again).type \notin TERMINAL_EVENT_TYPE
      BY <3>1, StartedType DEF RunStarted, TERMINAL_EVENT_TYPE
    <3>. QED BY <1>0, <2>1, <2>2, <3>2 DEF EmitStarted, Quiet
  <2>3. CASE EmitReady(h) \/ EmitProgress(h) \/ EmitToken(h)
    <3>1. PICK v \in {"sandbox.ready", "progress", "token"} : append(r, Plain(v))
      BY <1>0, <2>3 DEF EmitReady, EmitProgress, EmitToken
    <3>2. Plain(v) \in Event /\ Plain(v).type \notin TERMINAL_EVENT_TYPE
      BY PlainType DEF Plain, EventType, TERMINAL_EVENT_TYPE
    <3>. QED BY <2>1, <3>1, <3>2 DEF Quiet
  <2>4. CASE EmitInterrupt(h)
    <3>1. Interrupt(seen[h]) \in Event /\ Interrupt(seen[h]).type \notin TERMINAL_EVENT_TYPE
      BY InterruptType DEF TypeOK, WorkerTypeOK, HandlerTypeOK, Interrupt, TERMINAL_EVENT_TYPE
    <3>. QED BY <1>0, <2>1, <2>4, <3>1 DEF EmitInterrupt, Quiet
  <2>. QED BY <1>3, <2>2, <2>3, <2>4
<1>4. CASE Suspend(h) \/ Succeed(h) \/ Fail(h) \/ Stop(h) \/ Halt(h)
  <2>1. /\ UNCHANGED log
        /\ \E s \in TERMINAL_STATUS \cup {"waiting_approval"} : TransitFrom(r, CANCELLABLE_STATUS, s)
    BY <1>0, <1>4 DEF Suspend, Succeed, Fail, Stop, Halt, Settle, Transit, wait_approval, succeed,
                      fail, cancel, TERMINAL_STATUS
  <2>. QED BY <2>1, WalkIntro
<1>5. CASE EmitVerdict(h)
  <2>1. PICK v \in TERMINAL_EVENT_TYPE : v = VerdictOf(pc[h])
    BY DEF VerdictOf, TERMINAL_EVENT_TYPE
  <2>2. UNCHANGED status /\ append(r, Plain(v)) /\ <<"worker", h, v>> \in Owed(r)
    BY <1>0, <1>5, <2>1 DEF EmitVerdict, storeVars, Owed
  <2>. QED BY <2>2, PayIntro
<1>. QED BY <1>1, <1>2, <1>3, <1>4, <1>5 DEF HandlerStep

LEMMA RequestKinds ==
    ASSUME TypeOK, NEW c \in Client, RequestStep(c)
    PROVE  Quiet \/ Walk \/ Pay
<1>0. PICK r \in Run : r = req[c].run
  BY DEF TypeOK, ApiTypeOK, Request
<1>1. CASE PublishRun(c) \/ Republish(c)
  BY <1>1 DEF PublishRun, Republish, storeVars, Quiet
<1>2. CASE CreateRun(c)
  BY <1>0, <1>2, WalkIntro DEF CreateRun, create, TransitFrom
<1>3. CASE CancelRow(c)
  BY <1>0, <1>3, WalkIntro DEF CancelRow, cancel, Transit, TERMINAL_STATUS
<1>4. CASE ResumeRow(c)
  BY <1>0, <1>4, WalkIntro DEF ResumeRow, resume
<1>5. CASE AnnounceCancel(c)
  <2>1. /\ UNCHANGED status /\ append(r, Plain("run.cancelled"))
        /\ <<"api", c, "run.cancelled">> \in Owed(r)
    BY <1>0, <1>5 DEF AnnounceCancel, storeVars, Owed
  <2>2. "run.cancelled" \in TERMINAL_EVENT_TYPE
    BY DEF TERMINAL_EVENT_TYPE
  <2>. QED BY <2>1, <2>2, PayIntro
<1>. QED BY <1>1, <1>2, <1>3, <1>4, <1>5 DEF RequestStep

LEMMA CronKinds ==
    ASSUME TypeOK, ReaperStep \/ SweeperStep
    PROVE  Quiet \/ Walk \/ Pay
<1>0. {"run.failed", "run.cancelled"} \subseteq TERMINAL_EVENT_TYPE /\ rcur \in Run /\ scur \in Run
  BY DEF TERMINAL_EVENT_TYPE, TypeOK, CronTypeOK
<1>1. CASE \/ ReapRows \/ ReapGroup \/ ReapHolding \/ ReapWaiting \/ ReapDone
           \/ SweepRows \/ SweepDone
  BY <1>1 DEF ReapRows, ReapGroup, ReapHolding, ReapWaiting, ReapDone, SweepRows, SweepDone,
              storeVars, Quiet
<1>2. ASSUME NEW r \in Run, ReapJudge(r) \/ SweepJudge(r) PROVE Walk
  <2>1. UNCHANGED log /\ \E s \in TERMINAL_STATUS : TransitFrom(r, CANCELLABLE_STATUS, s)
    BY <1>2 DEF ReapJudge, SweepJudge, fail, cancel, Transit, TERMINAL_STATUS
  <2>. QED BY <2>1, WalkIntro
<1>3. CASE ReapAnnounce
  <2>1. /\ UNCHANGED status /\ append(rcur, Plain("run.failed"))
        /\ <<"reaper", rcur, "run.failed">> \in Owed(rcur)
    BY <1>3 DEF ReapAnnounce, storeVars, Owed
  <2>. QED BY <1>0, <2>1, PayIntro
<1>4. CASE SweepAnnounce
  <2>1. /\ UNCHANGED status /\ append(scur, Plain("run.cancelled"))
        /\ <<"sweeper", scur, "run.cancelled">> \in Owed(scur)
    BY <1>4 DEF SweepAnnounce, storeVars, Owed
  <2>. QED BY <1>0, <2>1, PayIntro
<1>. QED BY <1>1, <1>2, <1>3, <1>4 DEF ReaperStep, SweeperStep

LEMMA StepKinds == TypeOK /\ [Next]_vars => Quiet \/ Walk \/ Pay
<1>. SUFFICES ASSUME TypeOK, [Next]_vars PROVE Quiet \/ Walk \/ Pay
  OBVIOUS
<1>1. CASE \/ WorkerFault \/ WorkerBoots \/ UserActs \/ UserDeletes \/ OtherFault \/ TimePasses
           \/ UNCHANGED vars
  BY <1>1 DEF WorkerFault, Hiccup, BeatStops, Crash, WorkerBoots, Boot, UserActs, SubmitRun, RaiseFlag,
              ReadApproval, UserDeletes, DeleteThread, OtherFault, DropRequest, CronDies, TimePasses,
              GrowOlder, vars, storeVars, Quiet
<1>. QED BY <1>1, HandlerKinds, RequestKinds, CronKinds
         DEF Next, WorkerRuns, ApiRuns, ReaperRuns, SweeperRuns

--------------------------------------------------------------------------------
\* What the contract's variable `verdict` stands for.
Announced == [r \in Run |-> {<<i, log[r][i].type>> : i \in Verdicts(r)}]

LEMMA QuietStutters ==
    ASSUME TypeOK, Quiet
    PROVE  UNCHANGED <<status, Announced>>
<1>1. \A r \in Run : Verdicts(r)' = Verdicts(r) /\ \A i \in Verdicts(r) : log'[r][i] = log[r][i]
  BY AppendVerdicts DEF Quiet, Verdicts, TypeOK
<1>. QED BY <1>1 DEF Quiet, Announced

LEMMA WalkMoves ==
    ASSUME TypeOK, Walk
    PROVE  [Contract!Next]_Contract!vars
<1>0. UNCHANGED Announced
  BY DEF Walk, Announced, Verdicts
<1>1. PICK r \in Run, e \in Edge : TransitFrom(r, e[1], e[2])
  BY DEF Walk
<1>2. CASE status[r] \notin e[1]
  BY <1>0, <1>1, <1>2 DEF TransitFrom, Contract!vars, Announced
<1>3. CASE status[r] \in e[1]
  <2>1. \A from : status[r] \in from => Contract!Move(r, from, e[2])
    BY <1>0, <1>1, <1>3 DEF TransitFrom, Contract!Move, Announced
  <2>2. \/ Contract!Submit(r) \/ Contract!Begin(r) \/ Contract!Requeue(r) \/ Contract!Suspend(r)
        \/ Contract!Settle(r)
    <3>. USE DEF Contract!Submit, Contract!Begin, Contract!Requeue, Contract!Suspend, Contract!Settle
    <3>1. CASE e = <<{"absent"}, "queued">>
      BY <1>3, <2>1, <3>1
    <3>2. CASE e \in {<<{"queued"}, "running">>, <<RESUMABLE_STATUS, "running">>}
      BY <1>3, <2>1, <3>2 DEF RESUMABLE_STATUS, Contract!Live
    <3>3. CASE e = <<{"waiting_approval"}, "queued">>
      BY <1>3, <2>1, <3>3
    <3>4. CASE e = <<CANCELLABLE_STATUS, "waiting_approval">>
      BY <1>3, <2>1, <3>4 DEF CANCELLABLE_STATUS, Contract!Live
    <3>5. ASSUME NEW s \in TERMINAL_STATUS, e = <<CANCELLABLE_STATUS, s>> PROVE Contract!Settle(r)
      <4>1. s \in Contract!Over
        BY DEF TERMINAL_STATUS, Contract!Over
      <4>. QED BY <1>3, <2>1, <3>5, <4>1 DEF CANCELLABLE_STATUS, Contract!Live
    <3>. QED BY <3>1, <3>2, <3>3, <3>4, <3>5 DEF Edge
  <2>. QED BY <2>2 DEF Contract!Next
<1>. QED BY <1>2, <1>3

LEMMA PayAnnounces ==
    ASSUME TypeOK, VerdictInv, Pay
    PROVE  Contract!Next
<1>1. PICK r \in Run, d \in UNION {Owed(q) : q \in Run}, e \in Event :
        /\ d \in Owed(r) /\ append(r, e) /\ e.type = d[3] /\ e.type \in TERMINAL_EVENT_TYPE
        /\ UNCHANGED status
  BY DEF Pay
<1>2. Verdicts(r) = {} /\ e.type = EventOf(status[r])
  BY <1>1, PerRun DEF RunInv
<1>. DEFINE n == Len(log[r]) + 1
            v == <<n, e.type>>
<1>3. Verdicts(r)' = {n} /\ log'[r][n] = e /\ \A q \in Run : q # r => log'[q] = log[q]
  BY <1>1, <1>2, AppendVerdicts DEF TypeOK
<1>4. Announced'[r] = {v}
  BY <1>3 DEF Announced
<1>5. \A q \in Run : q # r => Announced'[q] = Announced[q]
  BY <1>3 DEF Announced, Verdicts
<1>6. Announced' = [Announced EXCEPT ![r] = {v}] /\ Announced[r] = {}
  BY <1>2, <1>4, <1>5 DEF Announced
<1>7. status[r] \in Contract!Over /\ v[2] = Contract!EventOf(status[r])
  BY <1>1, <1>2 DEF EventOf, TERMINAL_EVENT_TYPE, Contract!Over, Contract!EventOf
<1>8. Contract!Announce(r)
  BY <1>1, <1>4, <1>6, <1>7 DEF Contract!Announce, Announced
<1>. QED BY <1>8 DEF Contract!Next

\* The runs table and the logs, whoever writes them, do only what RunContract allows: a
\* status walks the state machine and never leaves a terminal one, and at most one
\* terminal event is announced, after the status it belongs to.
THEOREM ContractImplemented == Spec => ContractSpec
<1>1. Init => Contract!Init
  BY InitClean DEF Init, StoreInit, Contract!Init
<1>2. TypeOK /\ VerdictInv /\ [Next]_vars => [Contract!Next]_Contract!vars
  <2>. SUFFICES ASSUME TypeOK, VerdictInv, [Next]_vars PROVE [Contract!Next]_Contract!vars
    OBVIOUS
  <2>1. CASE Quiet
    BY <2>1, QuietStutters DEF Announced, Contract!vars
  <2>2. CASE Walk
    BY <2>2, WalkMoves
  <2>3. CASE Pay
    BY <2>3, PayAnnounces
  <2>. QED BY <2>1, <2>2, <2>3, StepKinds
<1>. QED BY <1>1, <1>2, InitInv, NextInv, TypeCorrect, PTL DEF Spec, ContractSpec, Contract!Spec

--------------------------------------------------------------------------------
(***************************************************************************)
(* Causes.  What a cancellation was read from (the flag, the mark on the   *)
(* thread, the age of the row) is never taken back, so a process that      *)
(* stands before its cancel() still has its reason when it gets there.     *)
(***************************************************************************)
CauseInv ==
    /\ \A h \in Handler : pc[h] = "halt" => RunIn(h) \in flag \/ ~active(ThreadIn(h))
    /\ \A h \in Handler : pc[h] = "stop" => RunIn(h) \in flag
    /\ \A c \in Client : req[c].op = "cancel" => req[c].run \in flag
    /\ \A r \in stodo : age[r] = 2
    /\ CancelledForAReason

LEMMA TransitEffect ==
    ASSUME StoreTypeOK, NEW q \in Run, NEW from, NEW to, TransitFrom(q, from, to)
    PROVE  /\ age' = age
           /\ \A r \in Run : status'[r] # status[r] => r = q /\ status'[r] = to
BY DEF StoreTypeOK, TransitFrom

\* Every step, as far as the rows are concerned.
RowStep ==
    \/ UNCHANGED storeVars
    \/ \E c \in Client : CreateRun(c) \/ ResumeRow(c) \/ CancelRow(c)
    \/ \E h \in Handler : StartFirst(h) \/ StartResumed(h) \/ Stop(h) \/ Halt(h)
    \/ \E r \in Run, to \in {"succeeded", "failed", "waiting_approval"} : Transit(r, to)
    \/ \E r \in Run : GrowOlder(r) \/ SweepJudge(r)

\* What makes a run queued or running.
LEMMA RowRevives ==
    ASSUME TypeOK,
           \/ \E c \in Client : CreateRun(c) \/ ResumeRow(c)
           \/ \E h \in Handler : StartFirst(h) \/ StartResumed(h)
    PROVE  \E q \in Run, from \in SUBSET RowStatus, to \in {"queued", "running"} : TransitFrom(q, from, to)
<1>0. {{"absent"}, {"waiting_approval"}, {"queued"}, RESUMABLE_STATUS} \subseteq SUBSET RowStatus
  BY DEF RowStatus, CANCELLABLE_STATUS, RESUMABLE_STATUS
<1>1. ASSUME NEW c \in Client, CreateRun(c) \/ ResumeRow(c)
      PROVE  \E q \in Run, from \in SUBSET RowStatus, to \in {"queued", "running"} : TransitFrom(q, from, to)
  <2>1. req[c].run \in Run
    BY DEF TypeOK, ApiTypeOK, Request
  <2>2. CreateRun(c) => TransitFrom(req[c].run, {"absent"}, "queued")
    BY DEF CreateRun, create, TransitFrom
  <2>3. ResumeRow(c) => TransitFrom(req[c].run, {"waiting_approval"}, "queued")
    BY DEF ResumeRow, resume
  <2>. QED BY <1>0, <1>1, <2>1, <2>2, <2>3
<1>2. ASSUME NEW h \in Handler, StartFirst(h) \/ StartResumed(h)
      PROVE  \E q \in Run, from \in SUBSET RowStatus, to \in {"queued", "running"} : TransitFrom(q, from, to)
  <2>1. RunIn(h) \in Run
    BY RunInType DEF TypeOK, WorkerTypeOK
  <2>2. \E from \in {{"queued"}, RESUMABLE_STATUS} : TransitFrom(RunIn(h), from, "running")
    BY <1>2 DEF StartFirst, StartResumed, startFirst, startResumed
  <2>. QED BY <1>0, <2>1, <2>2
<1>. QED BY <1>1, <1>2

LEMMA RowKinds ==
    ASSUME TypeOK, [Next]_vars
    PROVE  RowStep
<1>1. ASSUME NEW h \in Handler, HandlerStep(h) PROVE RowStep
  <2>0. RunIn(h) \in Run
    BY RunInType DEF TypeOK, WorkerTypeOK
  <2>1. CASE StartFirst(h) \/ StartResumed(h)
    BY <2>1 DEF RowStep
  <2>2. CASE Suspend(h) \/ Succeed(h) \/ Fail(h)
    BY <2>0, <2>2 DEF Suspend, Succeed, Fail, Settle, wait_approval, succeed, fail, RowStep
  <2>3. CASE Stop(h) \/ Halt(h)
    BY <2>3 DEF RowStep
  <2>4. CASE \/ CheckCancel(h) \/ CheckThread(h) \/ Acquire(h) \/ EnterGraph(h) \/ GraphStep(h)
             \/ GraphEnds(h) \/ GraphRaises(h) \/ Inspect(h) \/ Reserve(h) \/ Finish(h)
             \/ EmitStarted(h) \/ EmitReady(h) \/ EmitProgress(h) \/ EmitToken(h) \/ EmitInterrupt(h) \/ EmitVerdict(h)
    BY <2>4 DEF CheckCancel, CheckThread, Acquire, EnterGraph, GraphStep, GraphEnds, GraphRaises, Inspect,
                Reserve, Finish, EmitStarted, EmitReady, EmitProgress, EmitToken, EmitInterrupt, EmitVerdict, RowStep
  <2>. QED BY <1>1, <2>1, <2>2, <2>3, <2>4 DEF HandlerStep
<1>2. ASSUME NEW c \in Client, RequestStep(c) PROVE RowStep
  <2>1. CASE CreateRun(c)
    BY <2>1 DEF RowStep
  <2>2. CASE ResumeRow(c)
    BY <2>2 DEF RowStep
  <2>3. CASE CancelRow(c)
    BY <2>3 DEF RowStep
  <2>4. CASE PublishRun(c) \/ AnnounceCancel(c) \/ Republish(c)
    BY <2>4 DEF PublishRun, AnnounceCancel, Republish, RowStep
  <2>. QED BY <1>2, <2>1, <2>2, <2>3, <2>4 DEF RequestStep
<1>3. CASE ReaperStep \/ SweeperStep
  BY <1>3 DEF ReaperStep, ReapRows, ReapGroup, ReapHolding, ReapWaiting, ReapJudge, ReapAnnounce, ReapDone,
              SweeperStep, SweepRows, SweepAnnounce, SweepDone, fail, RowStep
<1>4. CASE TimePasses
  BY <1>4 DEF TimePasses, RowStep
<1>5. CASE WorkerFault \/ WorkerBoots \/ UserActs \/ UserDeletes \/ OtherFault \/ UNCHANGED vars
  BY <1>5 DEF WorkerFault, Hiccup, BeatStops, Crash, WorkerBoots, Boot, UserActs, SubmitRun, RaiseFlag,
              ReadApproval, UserDeletes, DeleteThread, OtherFault, DropRequest, CronDies, vars, RowStep
<1>. QED BY <1>1, <1>2, <1>3, <1>4, <1>5 DEF Next, WorkerRuns, ApiRuns, ReaperRuns, SweeperRuns

LEMMA ReasonsStay ==
    ASSUME TypeOK, [Next]_vars
    PROVE  /\ flag \subseteq flag' /\ deleted \subseteq deleted'
           /\ \A r \in Run : age[r] = 2 => age'[r] = 2
<1>1. flag \subseteq flag' /\ deleted \subseteq deleted'
  <2>1. ASSUME NEW h \in Handler, HandlerStep(h) PROVE UNCHANGED signalVars
    BY <2>1 DEF HandlerStep, CheckCancel, CheckThread, StartFirst, StartResumed, Acquire, EnterGraph,
                GraphStep, GraphEnds, GraphRaises, Inspect, Suspend, Succeed, Fail, Stop, Halt, Settle,
                Reserve, Finish, EmitStarted, EmitReady, EmitProgress, EmitToken, EmitInterrupt, EmitVerdict
  <2>2. ASSUME NEW c \in Client, RequestStep(c) PROVE UNCHANGED signalVars
    BY <2>2 DEF RequestStep, CreateRun, PublishRun, CancelRow, AnnounceCancel, ResumeRow, Republish
  <2>3. ReaperStep \/ SweeperStep => UNCHANGED signalVars
    BY DEF ReaperStep, ReapRows, ReapGroup, ReapHolding, ReapWaiting, ReapJudge, ReapAnnounce, ReapDone,
           SweeperStep, SweepRows, SweepJudge, SweepAnnounce, SweepDone
  <2>4. CASE \/ WorkerFault \/ WorkerBoots \/ UserActs \/ UserDeletes \/ OtherFault \/ TimePasses
             \/ UNCHANGED vars
    BY <2>4 DEF WorkerFault, Hiccup, BeatStops, Crash, WorkerBoots, Boot, UserActs, SubmitRun, RaiseFlag,
                raise_flag, ReadApproval, UserDeletes, DeleteThread, SoftDelete, OtherFault, DropRequest,
                CronDies, TimePasses, vars, signalVars
  <2>. QED BY <2>1, <2>2, <2>3, <2>4
           DEF Next, WorkerRuns, ApiRuns, ReaperRuns, SweeperRuns, signalVars
<1>2. \A r \in Run : age[r] = 2 => age'[r] = 2
  <2>. USE DEF TypeOK
  <2>1. ASSUME NEW q \in Run, GrowOlder(q) PROVE \A r \in Run : age[r] = 2 => age'[r] = 2
    BY <2>1 DEF GrowOlder, StoreTypeOK
  <2>2. CASE \E h \in Handler : Stop(h) \/ Halt(h)
    BY <2>2 DEF Stop, Halt, Settle, cancel, Transit, TransitFrom
  <2>3. CASE (\E c \in Client : CancelRow(c)) \/ \E r \in Run : SweepJudge(r)
    BY <2>3 DEF CancelRow, SweepJudge, cancel, Transit, TransitFrom
  <2>4. ASSUME \/ \E c \in Client : CreateRun(c) \/ ResumeRow(c)
               \/ \E h \in Handler : StartFirst(h) \/ StartResumed(h)
        PROVE  age' = age
    BY <2>4, RowRevives DEF TransitFrom
  <2>. QED BY RowKinds, <2>1, <2>2, <2>3, <2>4 DEF RowStep, storeVars, TransitFrom, Transit
<1>. QED BY <1>1, <1>2

\* A handler comes before a cancel() through a read of the flag or of the thread only.
LEMMA HandlerCause ==
    ASSUME TypeOK, CauseInv, [Next]_vars, NEW g \in Handler
    PROVE  /\ pc'[g] = "halt" => RunIn(g)' \in flag' \/ ThreadOf[RunIn(g)'] \in deleted'
           /\ pc'[g] = "stop" => RunIn(g)' \in flag'
<1>. USE DEF TypeOK, WorkerTypeOK, HandlerTypeOK
<1>0. /\ RunIn(g) \in Run /\ ThreadOf[RunIn(g)] \in Thread
      /\ pc[g] = "halt" => RunIn(g) \in flag \/ ThreadOf[RunIn(g)] \in deleted
      /\ pc[g] = "stop" => RunIn(g) \in flag
  BY RunInType, PlatformAssumption DEF CauseInv, ThreadIn, active
<1>1. CASE pc'[g] \in {"halt", "stop"} => pc'[g] = pc[g] /\ task'[g] = task[g]
  BY <1>0, <1>1, ReasonsStay DEF RunIn
<1>2. ASSUME NEW h \in Handler, HandlerStep(h),
             ~(pc'[g] \in {"halt", "stop"} => pc'[g] = pc[g] /\ task'[g] = task[g])
      PROVE  /\ pc'[g] = "halt" => RunIn(g)' \in flag' \/ ThreadOf[RunIn(g)'] \in deleted'
             /\ pc'[g] = "stop" => RunIn(g)' \in flag'
  <2>1. h = g
    <3>1. Reserve(h) /\ h # g => pc'[g] = pc[g] /\ task'[g] = task[g]
      BY DEF Reserve, Goto
    <3>2. ~Reserve(h) /\ h # g => pc'[g] = pc[g] /\ task'[g] = task[g]
      BY <1>2, Regions
    <3>. QED BY <1>2, <3>1, <3>2
  <2>2. CASE CheckCancel(g) \/ CheckThread(g)
    <3>1. /\ task' = task /\ pc'[g] # "stop"
          /\ pc'[g] = "halt" => RunIn(g) \in flag \/ ThreadOf[RunIn(g)] \in deleted
      BY <2>2 DEF CheckCancel, CheckThread, Only, Goto, is_raised, ThreadIn, active
    <3>. QED BY <1>0, <3>1, ReasonsStay DEF RunIn
  <2>3. CASE GraphStep(g)
    <3>1. task' = task /\ pc'[g] # "halt" /\ (pc'[g] = "stop" => RunIn(g) \in flag)
      BY <2>3 DEF GraphStep, Goto, is_raised
    <3>. QED BY <1>0, <3>1, ReasonsStay DEF RunIn
  <2>4. CASE \/ StartFirst(g) \/ StartResumed(g) \/ Acquire(g) \/ EnterGraph(g)
             \/ GraphEnds(g) \/ GraphRaises(g) \/ Inspect(g) \/ Reserve(g) \/ Finish(g)
             \/ EmitStarted(g) \/ EmitReady(g) \/ EmitProgress(g) \/ EmitToken(g) \/ EmitInterrupt(g) \/ EmitVerdict(g)
    <3>1. \E p \in HandlerPc \ {"halt", "stop"} : Goto(g, p)
      <4>1. {"idle", "started", "restart", "ready", "fail", "step", "inspect", "suspend", "succeed", "check",
             "acquire", "enter", "ack"} \subseteq HandlerPc \ {"halt", "stop"}
        BY DEF HandlerPc, OutsideTry, InsideTry, Failing
      <4>. QED BY <2>4, <4>1 DEF StartFirst, StartResumed, Acquire, EnterGraph, GraphEnds, GraphRaises, Inspect,
                  Reserve, Finish, EmitStarted, EmitReady, EmitProgress, EmitToken, EmitInterrupt, EmitVerdict, Only
    <3>. QED BY <1>2, <3>1 DEF Goto
  <2>5. CASE Suspend(g) \/ Succeed(g) \/ Fail(g) \/ Stop(g) \/ Halt(g)
    <3>1. \E p \in HandlerPc \ {"halt", "stop"} : Goto(g, p)
      <4>1. {"interrupt", "finished", "failed", "cancelled", "halted", "ack"} \subseteq HandlerPc \ {"halt", "stop"}
        BY DEF HandlerPc, OutsideTry, InsideTry, Failing
      <4>. QED BY <2>5, <4>1 DEF Suspend, Succeed, Fail, Stop, Halt, Settle, Only
    <3>. QED BY <1>2, <3>1 DEF Goto
  <2>. QED BY <1>2, <2>1, <2>2, <2>3, <2>4, <2>5 DEF HandlerStep
<1>3. CASE WorkerFault
  <2>1. ASSUME NEW h \in Handler, Hiccup(h) \/ BeatStops(h)
        PROVE  pc'[g] \in {"halt", "stop"} => pc'[g] = pc[g] /\ task'[g] = task[g]
    BY <2>1 DEF Hiccup, BeatStops, Only, Goto
  <2>2. ASSUME NEW w \in Worker, Crash(w)
        PROVE  pc'[g] \in {"halt", "stop"} => pc'[g] = pc[g] /\ task'[g] = task[g]
    BY <2>2 DEF Crash
  <2>. QED BY <1>1, <1>3, <2>1, <2>2 DEF WorkerFault
<1>4. CASE UNCHANGED <<pc, task>>
  BY <1>1, <1>4
<1>. QED
  BY <1>1, <1>2, <1>3, <1>4
     DEF Next, WorkerRuns, WorkerBoots, Boot, UserActs, UserDeletes, ApiRuns, ReaperRuns, SweeperRuns,
         OtherFault, TimePasses, workerVars, handlerVars, vars

\* A request comes before its cancel() only after it has raised the flag.
LEMMA RequestCause ==
    ASSUME TypeOK, CauseInv, [Next]_vars, NEW c \in Client, req'[c].op = "cancel"
    PROVE  req'[c].run \in flag'
<1>. USE DEF TypeOK, ApiTypeOK
<1>0. req[c].op = "cancel" => req[c].run \in flag'
  BY ReasonsStay DEF CauseInv
<1>1. CASE req'[c] = req[c]
  BY <1>0, <1>1
<1>2. ASSUME NEW d \in Client, RequestStep(d) PROVE req'[c] = req[c]
  <2>1. \E x : req' = [req EXCEPT ![d] = x] /\ x.op # "cancel"
    BY <1>2 DEF RequestStep, CreateRun, PublishRun, CancelRow, AnnounceCancel, ResumeRow, Republish,
                Next_op, Done, NoRequest
  <2>. QED BY <2>1
<1>3. ASSUME NEW d \in Client, NEW r \in Run, RaiseFlag(d, r) PROVE req'[c].run \in flag'
  <2>1. req' = [req EXCEPT ![d] = [op |-> "cancel", run |-> r, answer |-> 0]] /\ r \in flag'
    BY <1>3 DEF RaiseFlag, Next_op, raise_flag
  <2>. QED BY <1>0, <2>1
<1>4. ASSUME NEW d \in Client, NEW r \in Run, SubmitRun(d, r) \/ ReadApproval(d, r) \/ DropRequest(d)
      PROVE  req'[c] = req[c]
  <2>1. \E x : req' = [req EXCEPT ![d] = x] /\ x.op # "cancel"
    BY <1>4 DEF SubmitRun, ReadApproval, DropRequest, Next_op, Done, NoRequest
  <2>. QED BY <2>1
<1>5. CASE OtherFault
  <2>1. Run # {}
    BY PlatformAssumption
  <2>. QED BY <1>1, <1>4, <1>5, <2>1 DEF OtherFault
<1>. QED
  BY <1>1, <1>2, <1>3, <1>4, <1>5
     DEF Next, WorkerRuns, WorkerFault, WorkerBoots, UserActs, UserDeletes, DeleteThread, ApiRuns,
         ReaperRuns, SweeperRuns, TimePasses, vars

\* The sweeper judges only what it found expired.
LEMMA SweepCause ==
    ASSUME TypeOK, CauseInv, [Next]_vars
    PROVE  \A r \in stodo' : r \in Run /\ age'[r] = 2
<1>0. stodo \subseteq Run /\ expired \subseteq Run /\ \A r \in stodo \cup expired : age[r] = 2
  BY DEF TypeOK, CronTypeOK, expired, CauseInv
<1>1. stodo' \subseteq stodo \cup expired
  BY DEF Next, WorkerRuns, WorkerFault, WorkerBoots, UserActs, UserDeletes, ApiRuns, ReaperRuns,
         ReaperStep, ReapRows, ReapGroup, ReapHolding, ReapWaiting, ReapJudge, ReapAnnounce, ReapDone,
         SweeperRuns, SweeperStep, SweepRows, SweepJudge, SweepAnnounce, SweepDone, SweeperRest,
         OtherFault, CronDies, TimePasses, vars, cronVars, sweeperVars
<1>. QED BY <1>0, <1>1, ReasonsStay

LEMMA RowCause ==
    ASSUME TypeOK, CauseInv, [Next]_vars, NEW r \in Run, status'[r] = "cancelled"
    PROVE  r \in flag' \/ ThreadOf[r] \in deleted' \/ age'[r] = 2
<1>0. StoreTypeOK /\ ThreadOf[r] \in Thread
  BY PlatformAssumption DEF TypeOK
<1>1. SUFFICES r \in flag \/ ThreadOf[r] \in deleted \/ age[r] = 2
  BY ReasonsStay
<1>2. CASE status[r] = "cancelled"
  BY <1>2 DEF CauseInv, CancelledForAReason, active
<1>3. ASSUME status[r] # "cancelled" PROVE r \in flag \/ ThreadOf[r] \in deleted \/ age[r] = 2
  <2>1. ASSUME NEW h \in Handler, Stop(h) \/ Halt(h)
        PROVE  r \in flag \/ ThreadOf[r] \in deleted
    <3>1. RunIn(h) \in Run /\ TransitFrom(RunIn(h), CANCELLABLE_STATUS, "cancelled")
      BY <2>1, RunInType DEF Stop, Halt, Settle, cancel, Transit, TypeOK, WorkerTypeOK
    <3>2. r = RunIn(h)
      BY <1>0, <1>3, <3>1, TransitEffect
    <3>. QED BY <2>1, <3>2 DEF Stop, Halt, Settle, At, CauseInv, ThreadIn, active
  <2>2. ASSUME NEW c \in Client, CancelRow(c) PROVE r \in flag
    <3>1. req[c].run \in Run /\ TransitFrom(req[c].run, CANCELLABLE_STATUS, "cancelled")
      BY <2>2 DEF CancelRow, cancel, Transit, TypeOK, ApiTypeOK, Request
    <3>2. r = req[c].run
      BY <1>0, <1>3, <3>1, TransitEffect
    <3>. QED BY <2>2, <3>2 DEF CancelRow, CauseInv
  <2>3. ASSUME NEW q \in Run, SweepJudge(q) PROVE age[r] = 2
    <3>1. TransitFrom(q, CANCELLABLE_STATUS, "cancelled") /\ q \in stodo
      BY <2>3 DEF SweepJudge, cancel, Transit
    <3>2. r = q
      BY <1>0, <1>3, <3>1, TransitEffect
    <3>. QED BY <3>1, <3>2 DEF CauseInv
  <2>4. ASSUME NEW q \in Run, NEW from, NEW to \in {"queued", "running", "succeeded", "failed", "waiting_approval"},
               TransitFrom(q, from, to)
        PROVE  FALSE
    BY <1>0, <1>3, <2>4, TransitEffect
  <2>5. ASSUME NEW q \in Run, GrowOlder(q) PROVE FALSE
    BY <1>3, <2>5 DEF GrowOlder
  <2>6. CASE UNCHANGED storeVars
    BY <1>3, <2>6 DEF storeVars
  <2>7. ASSUME \/ \E c \in Client : CreateRun(c) \/ ResumeRow(c)
               \/ \E h \in Handler : StartFirst(h) \/ StartResumed(h)
        PROVE  FALSE
    BY <2>4, <2>7, RowRevives
  <2>. QED BY <2>1, <2>2, <2>3, <2>4, <2>5, <2>6, <2>7, RowKinds DEF RowStep, Transit
<1>. QED BY <1>2, <1>3

LEMMA InitCause == Init => CauseInv
BY DEF Init, WorkerInit, ApiInit, NoRequest, CronInit, StoreInit, CauseInv, CancelledForAReason

LEMMA NextCause == TypeOK /\ CauseInv /\ [Next]_vars => CauseInv'
BY HandlerCause, RequestCause, SweepCause, RowCause DEF CauseInv, CancelledForAReason, ThreadIn, active

\* A cancelled run was cancelled for a reason of its own: its flag, its deleted thread or
\* its expired approval, never by what another run's requests or workers do.
THEOREM CancellationsHaveReasons == Spec => []CancelledForAReason
<1>1. CauseInv => CancelledForAReason
  BY DEF CauseInv
<1>. QED BY <1>1, InitCause, NextCause, TypeCorrect, PTL DEF Spec

--------------------------------------------------------------------------------
(***************************************************************************)
(* After the cancellation.  Once the flag is up nobody passes the check at *)
(* a step boundary any more; a handler already past it reports that step   *)
(* and is then no longer an emitter.                                       *)
(***************************************************************************)
Emitters(r) == {h \in Handler : pc[h] = "emit" /\ RunIn(h) = r}

\* The steps reported after event i.
Late(r, i) == {j \in (i + 1)..Len(log[r]) : log[r][j].type = "progress"}

PromptInv == \A r \in flag : \A i \in Verdicts(r) :
    log[r][i].type = "run.cancelled" /\ age[r] < 2 /\ active(ThreadOf[r]) =>
    Cardinality(Late(r, i)) + Cardinality(Emitters(r)) <= Cardinality(Handler)

LEMMA EmittersFall ==
    ASSUME TypeOK, [Next]_vars, NEW r \in flag, NEW g \in Handler, pc'[g] = "emit", task'[g].run = r
    PROVE  pc[g] = "emit" /\ RunIn(g) = r /\ ~EmitProgress(g)
<1>. USE DEF TypeOK, WorkerTypeOK, HandlerTypeOK
<1>1. ASSUME NEW h \in Handler, HandlerStep(h) PROVE pc[g] = "emit" /\ RunIn(g) = r
  <2>1. CASE h # g
    <3>1. Reserve(h) => pc'[g] = pc[g] /\ task'[g] = task[g]
      BY <2>1 DEF Reserve, Goto
    <3>2. ~Reserve(h) => pc'[g] = pc[g] /\ task'[g] = task[g]
      BY <1>1, <2>1, Regions
    <3>. QED BY <3>1, <3>2 DEF RunIn
  <2>2. CASE h = g /\ GraphStep(g)
    <3>1. task' = task
      BY <2>2 DEF GraphStep
    <3>2. is_raised(RunIn(g))
      BY <3>1 DEF is_raised, RunIn
    <3>. QED BY <2>2, <3>2 DEF GraphStep, Goto
  <2>3. CASE h = g /\ ~GraphStep(g)
    <3>1. \E p \in HandlerPc \ {"emit"} : Goto(g, p)
      <4>1. CASE \/ StartFirst(g) \/ StartResumed(g) \/ Acquire(g) \/ EnterGraph(g)
                 \/ GraphEnds(g) \/ GraphRaises(g) \/ Inspect(g) \/ Reserve(g) \/ Finish(g)
                 \/ EmitStarted(g) \/ EmitReady(g) \/ EmitProgress(g) \/ EmitToken(g) \/ EmitInterrupt(g) \/ EmitVerdict(g)
                 \/ CheckCancel(g) \/ CheckThread(g)
        <5>1. {"idle", "started", "restart", "ready", "fail", "step", "inspect", "suspend", "succeed", "check",
               "acquire", "enter", "ack", "halt", "guard", "start"} \subseteq HandlerPc \ {"emit"}
          BY DEF HandlerPc, OutsideTry, InsideTry, Failing
        <5>. QED BY <4>1, <5>1
                 DEF StartFirst, StartResumed, Acquire, EnterGraph, GraphEnds, GraphRaises, Inspect,
                     Reserve, Finish, EmitStarted, EmitReady, EmitProgress, EmitToken, EmitInterrupt, EmitVerdict,
                     CheckCancel, CheckThread, Only
      <4>2. CASE Suspend(g) \/ Succeed(g) \/ Fail(g) \/ Stop(g) \/ Halt(g)
        <5>1. {"interrupt", "finished", "failed", "cancelled", "halted", "ack"} \subseteq HandlerPc \ {"emit"}
          BY DEF HandlerPc, OutsideTry, InsideTry, Failing
        <5>. QED BY <4>2, <5>1 DEF Suspend, Succeed, Fail, Stop, Halt, Settle, Only
      <4>. QED BY <1>1, <2>3, <4>1, <4>2 DEF HandlerStep
    <3>. QED BY <3>1 DEF Goto
  <2>. QED BY <2>1, <2>2, <2>3
<1>2. ASSUME WorkerFault PROVE pc[g] = "emit" /\ RunIn(g) = r
  <2>1. ASSUME NEW h \in Handler, Hiccup(h) \/ BeatStops(h) PROVE pc[g] = "emit" /\ RunIn(g) = r
    BY <2>1 DEF Hiccup, BeatStops, Only, Goto, RunIn
  <2>2. ASSUME NEW w \in Worker, Crash(w) PROVE pc[g] = "emit" /\ RunIn(g) = r
    BY <2>2 DEF Crash, RunIn
  <2>. QED BY <1>2, <2>1, <2>2 DEF WorkerFault
<1>3. ASSUME UNCHANGED <<pc, task>> PROVE pc[g] = "emit" /\ RunIn(g) = r
  BY <1>3 DEF RunIn
<1>4. pc[g] = "emit" /\ RunIn(g) = r
  BY <1>1, <1>2, <1>3
     DEF Next, WorkerRuns, WorkerBoots, Boot, UserActs, UserDeletes, ApiRuns, ReaperRuns, SweeperRuns,
         OtherFault, TimePasses, workerVars, handlerVars, vars
<1>5. ~EmitProgress(g)
  BY DEF EmitProgress, Only, Goto
<1>. QED BY <1>4, <1>5

LEMMA LateCounts ==
    ASSUME LogTypeOK, NEW r \in Run, NEW i \in Nat
    PROVE  IsFiniteSet(Late(r, i)) /\ Cardinality(Late(r, i)) \in Nat
<1>1. Len(log[r]) \in Nat
  BY DEF LogTypeOK
<1>2. IsFiniteSet((i + 1)..Len(log[r]))
  BY <1>1, FS_Interval
<1>3. Late(r, i) \subseteq (i + 1)..Len(log[r])
  BY DEF Late
<1>. QED BY <1>2, <1>3, FS_Subset, FS_CardinalityType

\* What an appended event adds to the steps reported after event i.
LEMMA AppendLate ==
    ASSUME LogTypeOK, NEW r \in Run, NEW e \in Event, append(r, e), NEW i \in 1..Len(log[r])
    PROVE  /\ e.type # "progress" => Late(r, i)' = Late(r, i)
           /\ e.type = "progress" => /\ Late(r, i)' = Late(r, i) \cup {Len(log[r]) + 1}
                                     /\ Len(log[r]) + 1 \notin Late(r, i)
<1>1. log'[r] = Append(log[r], e) /\ log[r] \in Seq(Event)
  BY DEF append, LogTypeOK
<1>2. /\ Len(log'[r]) = Len(log[r]) + 1 /\ Len(log[r]) \in Nat
      /\ \A j \in 1..Len(log[r]) : log'[r][j] = log[r][j]
      /\ log'[r][Len(log[r]) + 1] = e
  BY <1>1
<1>3. ASSUME e.type # "progress" PROVE Late(r, i)' = Late(r, i)
  <2>1. \A j : j \in (i + 1)..(Len(log[r]) + 1) <=> j \in (i + 1)..Len(log[r]) \/ j = Len(log[r]) + 1
    BY <1>2
  <2>2. \A j \in (i + 1)..Len(log[r]) : j \in 1..Len(log[r])
    BY <1>2
  <2>. QED BY <1>2, <1>3, <2>1, <2>2 DEF Late
<1>4. ASSUME e.type = "progress"
      PROVE  Late(r, i)' = Late(r, i) \cup {Len(log[r]) + 1} /\ Len(log[r]) + 1 \notin Late(r, i)
  <2>1. \A j : j \in (i + 1)..(Len(log[r]) + 1) <=> j \in (i + 1)..Len(log[r]) \/ j = Len(log[r]) + 1
    BY <1>2
  <2>2. \A j \in (i + 1)..Len(log[r]) : j \in 1..Len(log[r])
    BY <1>2
  <2>3. Len(log[r]) + 1 \notin (i + 1)..Len(log[r])
    BY <1>2
  <2>. QED BY <1>2, <1>4, <2>1, <2>2, <2>3 DEF Late
<1>. QED BY <1>3, <1>4

\* A log grows by one event at its end, and only EmitProgress reports a step.
LEMMA LogGrows ==
    ASSUME TypeOK, LogStep, NEW r \in Run
    PROVE  /\ Len(log'[r]) <= Len(log[r]) + 1
           /\ \A i \in 1..Len(log[r]) :
                /\ log'[r][i] = log[r][i]
                /\ Late(r, i)' = Late(r, i) \/ \E h \in Handler : EmitProgress(h) /\ RunIn(h) = r
<1>0. LogTypeOK /\ Len(log[r]) \in Nat /\ log[r] \in Seq(Event)
  BY DEF TypeOK, LogTypeOK
<1>1. \/ log'[r] = log[r]
      \/ \E e \in Event : /\ append(r, e)
                          /\ e.type # "progress" \/ \E h \in Handler : EmitProgress(h) /\ RunIn(h) = r
  <2>1. ASSUME NEW q \in Run, NEW e \in Event, append(q, e) PROVE log'[r] = log[r] \/ q = r
    BY <1>0, <2>1 DEF append, LogTypeOK
  <2>2. ASSUME NEW h \in Handler, EmitStarted(h) \/ EmitInterrupt(h)
        PROVE  \E e \in Event : append(RunIn(h), e) /\ e.type # "progress"
    <3>1. CASE EmitStarted(h)
      <4>. DEFINE again == (task[h].answer # 0 \/ mode[h] = "resumed")
      <4>1. again \in BOOLEAN
        OBVIOUS
      <4>2. RunStarted(again) \in Event /\ RunStarted(again).type # "progress"
        BY <4>1, StartedType DEF RunStarted
      <4>. QED BY <3>1, <4>2 DEF EmitStarted
    <3>2. CASE EmitInterrupt(h)
      <4>1. Interrupt(seen[h]) \in Event /\ Interrupt(seen[h]).type # "progress"
        BY InterruptType DEF Interrupt, TypeOK, WorkerTypeOK, HandlerTypeOK
      <4>. QED BY <3>2, <4>1 DEF EmitInterrupt
    <3>. QED BY <2>2, <3>1, <3>2
  <2>3. ASSUME NEW h \in Handler, EmitProgress(h) PROVE \E e \in Event : append(RunIn(h), e)
    BY <2>3, PlainType DEF EmitProgress, EventType
  <2>6. ASSUME NEW h \in Handler, EmitToken(h)
        PROVE  \E e \in Event : append(RunIn(h), e) /\ e.type # "progress"
    <3>1. Plain("token") \in Event /\ Plain("token").type # "progress"
      BY PlainType DEF Plain, EventType
    <3>. QED BY <2>6, <3>1 DEF EmitToken
  <2>4. ASSUME NEW q \in Run, NEW v \in TERMINAL_EVENT_TYPE \cup {"sandbox.ready"}, append(q, Plain(v))
        PROVE  \E e \in Event : append(q, e) /\ e.type # "progress"
    <3>1. Plain(v) \in Event /\ Plain(v).type # "progress"
      BY PlainType DEF Plain, EventType, TERMINAL_EVENT_TYPE
    <3>. QED BY <2>4, <3>1
  <2>5. \A h \in Handler : RunIn(h) \in Run
    BY RunInType DEF TypeOK, WorkerTypeOK
  <2>. QED BY <2>1, <2>2, <2>3, <2>4, <2>5, <2>6 DEF LogStep
<1>2. CASE log'[r] = log[r]
  BY <1>0, <1>2 DEF Late
<1>3. ASSUME NEW e \in Event, append(r, e),
             e.type # "progress" \/ \E h \in Handler : EmitProgress(h) /\ RunIn(h) = r
      PROVE  /\ Len(log'[r]) <= Len(log[r]) + 1
             /\ \A i \in 1..Len(log[r]) :
                  /\ log'[r][i] = log[r][i]
                  /\ Late(r, i)' = Late(r, i) \/ \E h \in Handler : EmitProgress(h) /\ RunIn(h) = r
  <2>1. log'[r] = Append(log[r], e)
    BY <1>0, <1>3 DEF append, LogTypeOK
  <2>2. Len(log'[r]) <= Len(log[r]) + 1 /\ \A i \in 1..Len(log[r]) : log'[r][i] = log[r][i]
    BY <1>0, <2>1
  <2>. QED BY <1>0, <1>3, <2>2, AppendLate
<1>. QED BY <1>1, <1>2, <1>3

\* One report, one emitter less.
LEMMA CountMoves ==
    ASSUME NEW L, NEW M, NEW E, NEW F, NEW j, NEW N \in Nat,
           IsFiniteSet(L), IsFiniteSet(E), F \subseteq E, Cardinality(L) + Cardinality(E) <= N
    PROVE  /\ M = L => Cardinality(M) + Cardinality(F) <= N
           /\ M = L \cup {j} /\ j \notin L /\ (\E h \in E : h \notin F) =>
                Cardinality(M) + Cardinality(F) <= N
<1>1. IsFiniteSet(F) /\ Cardinality(F) <= Cardinality(E)
  BY FS_Subset
<1>2. Cardinality(F) \in Nat /\ Cardinality(E) \in Nat /\ Cardinality(L) \in Nat
  BY <1>1, FS_CardinalityType
<1>3. ASSUME M = L \cup {j}, j \notin L, NEW h \in E, h \notin F
      PROVE  Cardinality(M) + Cardinality(F) <= N
  <2>1. Cardinality(M) = Cardinality(L) + 1
    BY <1>3, FS_AddElement
  <2>2. IsFiniteSet(E \ {h}) /\ Cardinality(E \ {h}) = Cardinality(E) - 1
    BY <1>3, FS_RemoveElement
  <2>3. F \subseteq E \ {h}
    BY <1>3
  <2>4. Cardinality(F) <= Cardinality(E \ {h})
    BY <2>2, <2>3, FS_Subset
  <2>. QED BY <1>2, <2>1, <2>2, <2>4
<1>. QED BY <1>1, <1>2, <1>3

LEMMA PromptStep ==
    ASSUME TypeOK, TypeOK', VerdictInv, CauseInv, PromptInv, [Next]_vars,
           NEW r \in flag', NEW i \in Verdicts(r)',
           log'[r][i].type = "run.cancelled", age'[r] < 2, ThreadOf[r] \notin deleted'
    PROVE  Cardinality(Late(r, i)') + Cardinality(Emitters(r)') <= Cardinality(Handler)
<1>. USE DEF TypeOK
<1>0. /\ r \in Run /\ LogTypeOK /\ LogTypeOK' /\ Len(log[r]) \in Nat /\ Len(log'[r]) \in Nat
      /\ age[r] # 2 /\ age[r] \in 0..2 /\ ThreadOf[r] \notin deleted
      /\ i \in 1..Len(log'[r]) /\ i \in Nat
  BY ReasonsStay DEF SignalTypeOK, StoreTypeOK, LogTypeOK, Verdicts
<1>1. /\ IsFiniteSet(Emitters(r)) /\ Cardinality(Emitters(r)') \in Nat
      /\ Cardinality(Emitters(r)') <= Cardinality(Handler) /\ Cardinality(Handler) \in Nat
  <2>1. Emitters(r) \in SUBSET Handler /\ Emitters(r)' \in SUBSET Handler /\ Handler \in SUBSET Handler
    BY DEF Emitters
  <2>. QED BY <2>1, AskersFinite
<1>2. ASSUME i \notin 1..Len(log[r]) PROVE Late(r, i)' = {}
  <2>1. Len(log'[r]) <= Len(log[r]) + 1
    BY <1>0, LogKinds, LogGrows
  <2>. QED BY <1>0, <1>2, <2>1 DEF Late
<1>3. ASSUME i \in 1..Len(log[r])
      PROVE  /\ log'[r][i] = log[r][i] /\ r \in flag
             /\ Cardinality(Late(r, i)) + Cardinality(Emitters(r)) <= Cardinality(Handler)
             /\ IsFiniteSet(Late(r, i)) /\ Cardinality(Late(r, i)) \in Nat
  <2>1. log'[r][i] = log[r][i]
    BY <1>0, <1>3, LogKinds, LogGrows
  <2>2. i \in Verdicts(r) /\ log[r][i].type = "run.cancelled"
    BY <1>0, <1>3, <2>1 DEF Verdicts, TERMINAL_EVENT_TYPE
  <2>3. status[r] = "cancelled"
    BY <1>0, <2>2 DEF VerdictInv, OneVerdict, EventOf
  <2>4. r \in flag
    BY <1>0, <2>3 DEF CauseInv, CancelledForAReason, active
  <2>5. age[r] < 2 /\ active(ThreadOf[r])
    BY <1>0 DEF active
  <2>6. Cardinality(Late(r, i)) + Cardinality(Emitters(r)) <= Cardinality(Handler)
    BY <2>2, <2>4, <2>5 DEF PromptInv
  <2>7. IsFiniteSet(Late(r, i)) /\ Cardinality(Late(r, i)) \in Nat
    BY <1>0, LateCounts
  <2>. QED BY <2>1, <2>4, <2>6, <2>7
<1>4. CASE i \notin 1..Len(log[r])
  <2>1. Cardinality(Late(r, i)') = 0
    BY <1>2, <1>4, FS_EmptySet
  <2>. QED BY <1>1, <2>1
<1>5. CASE i \in 1..Len(log[r])
  <2>1. Emitters(r)' \subseteq Emitters(r)
    BY <1>3, <1>5, EmittersFall DEF Emitters, RunIn
  <2>2. CASE Late(r, i)' = Late(r, i)
    BY <1>1, <1>3, <1>5, <2>1, <2>2, CountMoves
  <2>3. ASSUME NEW h \in Handler, EmitProgress(h), RunIn(h) = r
        PROVE  Cardinality(Late(r, i)') + Cardinality(Emitters(r)') <= Cardinality(Handler)
    <3>1. h \in Emitters(r) /\ h \notin Emitters(r)'
      BY <1>3, <1>5, <2>3, EmittersFall DEF Emitters, RunIn, EmitProgress, At
    <3>2. Late(r, i)' = Late(r, i) \cup {Len(log[r]) + 1} /\ Len(log[r]) + 1 \notin Late(r, i)
      <4>1. Plain("progress") \in Event /\ Plain("progress").type = "progress"
        BY PlainType DEF Plain, EventType
      <4>. QED BY <1>0, <1>5, <2>3, <4>1, AppendLate DEF EmitProgress
    <3>. QED BY <1>1, <1>3, <1>5, <2>1, <3>1, <3>2, CountMoves
  <2>. QED BY <1>0, <1>5, <2>2, <2>3, LogKinds, LogGrows
<1>. QED BY <1>4, <1>5

LEMMA InitPrompt == Init => PromptInv
BY DEF Init, SignalInit, PromptInv

LEMMA NextPrompt ==
    TypeOK /\ TypeOK' /\ VerdictInv /\ CauseInv /\ PromptInv /\ [Next]_vars => PromptInv'
<1>. SUFFICES ASSUME TypeOK, TypeOK', VerdictInv, CauseInv, PromptInv, [Next]_vars,
                     NEW r \in flag', NEW i \in Verdicts(r)',
                     (log[r][i].type = "run.cancelled" /\ age[r] < 2 /\ active(ThreadOf[r]))'
              PROVE  (Cardinality(Late(r, i)) + Cardinality(Emitters(r)) <= Cardinality(Handler))'
  BY DEF PromptInv
<1>. QED BY PromptStep DEF active

\* When the teacher's cancellation has been announced, every handler reports at most the one
\* graph step it was already past the flag check of: with the emitters still to write, the
\* steps reported after the terminal event never exceed the number of handlers.  Tokens of
\* the model call that is running are not counted.
THEOREM CancellationIsPrompt == Spec => []CancelIsPrompt
<1>1. TypeOK /\ PromptInv => CancelIsPrompt
  <2>. SUFFICES ASSUME TypeOK, PromptInv, NEW r \in flag, NEW i \in Verdicts(r),
                       log[r][i].type = "run.cancelled", age[r] < 2, active(ThreadOf[r])
                PROVE  Cardinality(Late(r, i)) <= Cardinality(Handler)
    BY DEF CancelIsPrompt, Late
  <2>1. Cardinality(Late(r, i)) + Cardinality(Emitters(r)) <= Cardinality(Handler)
    BY DEF PromptInv
  <2>2. Cardinality(Late(r, i)) \in Nat
    BY LateCounts DEF TypeOK, SignalTypeOK, Verdicts
  <2>3. Cardinality(Emitters(r)) \in Nat /\ Cardinality(Handler) \in Nat
    <3>1. Emitters(r) \in SUBSET Handler
      BY DEF Emitters
    <3>. QED BY <3>1, AskersFinite
  <2>. QED BY <2>1, <2>2, <2>3
<1>. QED BY <1>1, InitInv, NextInv, InitCause, NextCause, InitPrompt, NextPrompt, TypeCorrect, PTL
         DEF Spec

--------------------------------------------------------------------------------
(***************************************************************************)
(* Carriers.  CarriedUnlessFault alone is not inductive: a message counts  *)
(* only while the handler that has it will still act on the run.  A        *)
(* handler is through with a run once it stands before its ack, or before  *)
(* the event of a suspension; and with a queued run already before the     *)
(* second update of start(), which no longer finds what it looks for.      *)
(***************************************************************************)
Left(s) == {"interrupt", "ack"} \cup (IF s = "queued" THEN {"restart"} ELSE {})

Carries(m, r) ==
    /\ stream[m].run = r
    /\ m \in pending \/ m > delivered
    /\ \A h \in Handler : job[h] = m => pc[h] \notin Left(status[r])

CarryInv == hiccups = 0 => \A r \in Run :
    status[r] \in UNFINISHED_STATUS => Publishing(r) \/ \E m \in 1..Len(stream) : Carries(m, r)

\* A fault other than a crash is counted; without one the step is one of these.
Faultless ==
    \/ \E h \in Handler : HandlerStep(h) /\ UNCHANGED req
    \/ \E w \in Worker : Crash(w) /\ UNCHANGED req
    \/ Rest /\ (UNCHANGED req \/ UserActs \/ \E c \in Client : RequestStep(c))

LEMMA FaultlessKinds ==
    ASSUME TypeOK, [Next]_vars, hiccups' = 0
    PROVE  hiccups = 0 /\ Faultless
<1>0. hiccups \in Nat
  BY PlatformAssumption DEF TypeOK, WorkerTypeOK, FaultTypeOK
<1>1. hiccups = 0
  BY QueueKinds
<1>2. ASSUME NEW h \in Handler, WorkerRuns(h) PROVE Faultless
  BY <1>2 DEF WorkerRuns, Faultless
<1>3. ASSUME WorkerFault PROVE Faultless
  <2>1. \A h \in Handler : ~(Hiccup(h) \/ BeatStops(h))
    BY <1>1 DEF Hiccup, BeatStops
  <2>. QED BY <1>3, <2>1 DEF WorkerFault, Faultless
<1>4. ~OtherFault
  BY <1>1 DEF OtherFault
<1>5. ASSUME \/ WorkerBoots \/ UserDeletes \/ ReaperRuns \/ SweeperRuns \/ TimePasses \/ UNCHANGED vars
      PROVE  Faultless
  <2>1. UNCHANGED req
    BY <1>5 DEF WorkerBoots, UserDeletes, DeleteThread, ReaperRuns, SweeperRuns, TimePasses, vars
  <2>. QED BY <1>5, <2>1, QuietRests DEF Faultless
<1>6. ASSUME UserActs \/ \E c \in Client : ApiRuns(c) PROVE Faultless
  BY <1>6, QuietRests DEF Faultless, ApiRuns
<1>. QED BY <1>1, <1>2, <1>3, <1>4, <1>5, <1>6 DEF Next

\* Messages do not get lost on the way, whoever takes them; only an ack removes one.
LEMMA MessageStays ==
    ASSUME TypeOK, QueueInv, Faultless, NEW m \in 1..Len(stream), m \in pending \/ m > delivered,
           ~\E h \in Handler : Finish(h) /\ job[h] = m
    PROVE  m \in pending' \/ m > delivered'
<1>. USE DEF TypeOK, QueueTypeOK
<1>0. m \in Nat /\ delivered \in Nat
  OBVIOUS
<1>1. ASSUME NEW h \in Handler, Reserve(h) PROVE m \in pending' \/ m > delivered'
  <2>1. PICK n \in 1..Len(stream) : ReadNew(Host(h), n) \/ Claim(Host(h), n, Idle(n))
    BY <1>1 DEF Reserve
  <2>2. CASE ReadNew(Host(h), n)
    <3>1. n = delivered + 1 /\ delivered' = n /\ pending' = pending \cup {n}
      BY <2>2 DEF ReadNew
    <3>. QED BY <1>0, <3>1
  <2>3. CASE Claim(Host(h), n, Idle(n))
    BY <2>3 DEF Claim
  <2>. QED BY <2>1, <2>2, <2>3
<1>2. ASSUME NEW h \in Handler, Finish(h) PROVE m \in pending' \/ m > delivered'
  <2>1. Drop(h) /\ job[h] # m
    BY <1>2, FinishDrops
  <2>. QED BY <2>1 DEF Drop
<1>3. ASSUME NEW h \in Handler, GoesOn(h) PROVE m \in pending' \/ m > delivered'
  BY <1>3, GoesOnPc
<1>4. ASSUME NEW w \in Worker, Crash(w) PROVE m \in pending' \/ m > delivered'
  BY <1>4, CrashGone DEF Gone
<1>5. CASE Rest
  BY <1>5 DEF Rest
<1>. QED BY <1>1, <1>2, <1>3, <1>4, <1>5, BusySteps DEF Faultless

\* A request that owes a message of r publishes it or still owes it.
LEMMA OwesOrPublishes ==
    ASSUME TypeOK, Faultless, NEW r \in Run, Publishing(r)
    PROVE  \/ Publishing(r)'
           \/ Rest /\ \E k \in 0..MaxAsk : stream' = Append(stream, [run |-> r, answer |-> k])
<1>. USE DEF TypeOK, ApiTypeOK
<1>1. PICK d \in Client : req[d].op \in {"publish", "republish"} /\ req[d].run = r
  BY DEF Publishing
<1>2. CASE req'[d] = req[d]
  BY <1>1, <1>2 DEF Publishing
<1>3. ASSUME NEW c \in Client, RequestStep(c), Rest
      PROVE  \/ Publishing(r)'
             \/ Rest /\ \E k \in 0..MaxAsk : stream' = Append(stream, [run |-> r, answer |-> k])
  <2>1. \E x : req' = [req EXCEPT ![c] = x]
    BY <1>3 DEF RequestStep, CreateRun, PublishRun, CancelRow, AnnounceCancel, ResumeRow, Republish,
                Next_op, Done
  <2>2. CASE c # d
    BY <1>2, <2>1, <2>2
  <2>3. CASE c = d
    <3>1. PublishRun(d) \/ Republish(d)
      BY <1>1, <1>3, <2>3 DEF RequestStep, CreateRun, CancelRow, AnnounceCancel, ResumeRow
    <3>2. req[d].answer \in 0..MaxAsk /\ 0 \in 0..MaxAsk
      BY PlatformAssumption DEF Request
    <3>. QED BY <1>1, <1>3, <3>1, <3>2 DEF PublishRun, Republish, publish
  <2>. QED BY <2>2, <2>3
<1>4. CASE UserActs
  <2>1. \E c \in Client : req[c].op = "none" /\ \E x : req' = [req EXCEPT ![c] = x]
    BY <1>4 DEF UserActs, SubmitRun, RaiseFlag, ReadApproval, Next_op
  <2>. QED BY <1>1, <1>2, <2>1
<1>. QED BY <1>2, <1>3, <1>4 DEF Faultless

\* A run that stays unfinished does not become queued again.
LEMMA StaysUnfinished ==
    ASSUME TypeOK, [Next]_vars, NEW r \in Run,
           status[r] \in UNFINISHED_STATUS, status'[r] \in UNFINISHED_STATUS
    PROVE  /\ Left(status'[r]) \subseteq Left(status[r])
           /\ status'[r] # status[r] => \E h \in Handler : StartFirst(h) /\ RunIn(h) = r /\ status[r] = "queued"
<1>. USE DEF UNFINISHED_STATUS
<1>1. CASE status'[r] = status[r]
  BY <1>1
<1>2. ASSUME status'[r] # status[r]
      PROVE  \E h \in Handler : StartFirst(h) /\ RunIn(h) = r /\ status[r] = "queued"
  <2>0. StoreTypeOK
    BY DEF TypeOK
  <2>1. ASSUME NEW q \in Run, NEW from, NEW to \in RowStatus \ UNFINISHED_STATUS, TransitFrom(q, from, to)
        PROVE  FALSE
    BY <1>2, <2>0, <2>1, TransitEffect
  <2>2. {"succeeded", "failed", "waiting_approval", "cancelled"} \subseteq RowStatus \ UNFINISHED_STATUS
    BY DEF RowStatus, CANCELLABLE_STATUS, TERMINAL_STATUS
  <2>3. ASSUME NEW q \in Run, NEW to \in {"succeeded", "failed", "waiting_approval", "cancelled"}, Transit(q, to)
        PROVE  FALSE
    BY <2>1, <2>2, <2>3 DEF Transit
  <2>4. ASSUME NEW c \in Client, CreateRun(c) \/ ResumeRow(c) \/ CancelRow(c) PROVE FALSE
    <3>1. req[c].run \in Run
      BY DEF TypeOK, ApiTypeOK, Request
    <3>2. CASE CreateRun(c)
      BY <1>2, <2>0, <3>1, <3>2 DEF CreateRun, create, StoreTypeOK
    <3>3. CASE ResumeRow(c)
      BY <1>2, <2>0, <3>1, <3>3 DEF ResumeRow, resume, TransitFrom, StoreTypeOK
    <3>. QED BY <2>3, <2>4, <3>1, <3>2, <3>3 DEF CancelRow, cancel
  <2>5. ASSUME NEW h \in Handler, StartResumed(h) PROVE FALSE
    <3>1. RunIn(h) \in Run
      BY RunInType DEF TypeOK, WorkerTypeOK
    <3>. QED BY <1>2, <2>0, <2>5, <3>1 DEF StartResumed, startResumed, TransitFrom, StoreTypeOK, RESUMABLE_STATUS
  <2>6. ASSUME NEW h \in Handler, Stop(h) \/ Halt(h) PROVE FALSE
    <3>1. RunIn(h) \in Run
      BY RunInType DEF TypeOK, WorkerTypeOK
    <3>. QED BY <2>3, <2>6, <3>1 DEF Stop, Halt, Settle, cancel
  <2>7. ASSUME NEW h \in Handler, StartFirst(h) PROVE RunIn(h) = r /\ status[r] = "queued"
    <3>1. RunIn(h) \in Run
      BY RunInType DEF TypeOK, WorkerTypeOK
    <3>. QED BY <1>2, <2>0, <2>7, <3>1 DEF StartFirst, startFirst, TransitFrom, StoreTypeOK
  <2>8. ~UNCHANGED storeVars /\ \A q \in Run : ~GrowOlder(q) /\ ~SweepJudge(q)
    BY <1>2, <2>3 DEF storeVars, GrowOlder, SweepJudge, cancel
  <2>. QED BY <2>3, <2>4, <2>5, <2>6, <2>7, <2>8, RowKinds DEF RowStep
<1>3. ASSUME status'[r] # status[r] PROVE Left(status'[r]) \subseteq Left(status[r])
  BY <1>2, <1>3 DEF Left
<1>. QED BY <1>1, <1>2, <1>3

\* A run becomes queued or running through a request that then owes its message, or
\* through the delivery of one.
LEMMA BecomesUnfinished ==
    ASSUME TypeOK, [Next]_vars, NEW r \in Run,
           status[r] \notin UNFINISHED_STATUS, status'[r] \in UNFINISHED_STATUS
    PROVE  Publishing(r)' \/ \E h \in Handler : StartResumed(h) /\ RunIn(h) = r /\ pc'[h] = "started"
<1>. USE DEF UNFINISHED_STATUS
<1>0. StoreTypeOK /\ ApiTypeOK
  BY DEF TypeOK
<1>1. ASSUME NEW q \in Run, NEW from, NEW to \in RowStatus \ UNFINISHED_STATUS, TransitFrom(q, from, to)
      PROVE  FALSE
  BY <1>0, <1>1, TransitEffect
<1>2. {"succeeded", "failed", "waiting_approval", "cancelled"} \subseteq RowStatus \ UNFINISHED_STATUS
  BY DEF RowStatus, CANCELLABLE_STATUS, TERMINAL_STATUS
<1>3. ASSUME NEW q \in Run, NEW to \in {"succeeded", "failed", "waiting_approval", "cancelled"}, Transit(q, to)
      PROVE  FALSE
  BY <1>1, <1>2, <1>3 DEF Transit
<1>4. ASSUME NEW c \in Client, CreateRun(c) \/ ResumeRow(c) PROVE Publishing(r)'
  <2>1. req[c].run \in Run
    BY <1>0 DEF ApiTypeOK, Request
  <2>2. CASE CreateRun(c)
    <3>1. r = req[c].run
      BY <1>0, <2>1, <2>2 DEF CreateRun, create, StoreTypeOK
    <3>2. req'[c] = [op |-> "publish", run |-> r, answer |-> 0]
      BY <1>0, <2>2, <3>1 DEF CreateRun, Next_op, ApiTypeOK
    <3>. QED BY <3>2 DEF Publishing
  <2>3. CASE ResumeRow(c)
    <3>1. r = req[c].run /\ status[r] = "waiting_approval"
      BY <1>0, <2>1, <2>3 DEF ResumeRow, resume, TransitFrom, StoreTypeOK
    <3>2. req'[c] = [op |-> "republish", run |-> r, answer |-> req[c].answer]
      BY <1>0, <2>3, <3>1 DEF ResumeRow, Next_op, ApiTypeOK
    <3>. QED BY <3>2 DEF Publishing
  <2>. QED BY <1>4, <2>2, <2>3
<1>5. ASSUME NEW h \in Handler, StartResumed(h) PROVE RunIn(h) = r /\ pc'[h] = "started"
  <2>1. RunIn(h) \in Run
    BY RunInType DEF TypeOK, WorkerTypeOK
  <2>2. RunIn(h) = r /\ status[r] \in RESUMABLE_STATUS
    BY <1>0, <1>5, <2>1 DEF StartResumed, startResumed, TransitFrom, StoreTypeOK
  <2>. QED BY <1>5, <2>2 DEF StartResumed, Goto, TypeOK, WorkerTypeOK, HandlerTypeOK
<1>6. ASSUME NEW h \in Handler, StartFirst(h) \/ Stop(h) \/ Halt(h) PROVE FALSE
  <2>1. RunIn(h) \in Run
    BY RunInType DEF TypeOK, WorkerTypeOK
  <2>2. CASE StartFirst(h)
    BY <1>0, <2>1, <2>2 DEF StartFirst, startFirst, TransitFrom, StoreTypeOK
  <2>. QED BY <1>3, <1>6, <2>1, <2>2 DEF Stop, Halt, Settle, cancel
<1>7. ASSUME NEW c \in Client, CancelRow(c) PROVE FALSE
  <2>1. req[c].run \in Run
    BY <1>0 DEF ApiTypeOK, Request
  <2>. QED BY <1>3, <1>7, <2>1 DEF CancelRow, cancel
<1>8. ~UNCHANGED storeVars /\ \A q \in Run : ~GrowOlder(q) /\ ~SweepJudge(q)
  BY <1>3 DEF storeVars, GrowOlder, SweepJudge, cancel
<1>. QED BY <1>3, <1>4, <1>5, <1>6, <1>7, <1>8, RowKinds DEF RowStep

\* As long as the run stays unfinished, a handler that still has to act on it has after
\* its step, too.
LEMMA NotLeft ==
    ASSUME TypeOK, VerdictInv, NEW h \in Handler, HandlerStep(h), ~Finish(h),
           NEW r \in Run, RunIn(h) = r, pc[h] \notin Left(status[r]),
           status[r] \in UNFINISHED_STATUS, status'[r] \in UNFINISHED_STATUS
    PROVE  pc'[h] \notin Left(status'[r])
<1>. USE DEF TypeOK, WorkerTypeOK, HandlerTypeOK
<1>0. /\ \A s : Left(s) \subseteq {"interrupt", "ack", "restart"} /\ {"interrupt", "ack"} \subseteq Left(s)
      /\ Left("running") = {"interrupt", "ack"} /\ Left("queued") = {"interrupt", "ack", "restart"}
      /\ status[r] \in {"queued", "running"} /\ status'[r] \in {"queued", "running"}
      /\ StoreTypeOK
  BY DEF Left, UNFINISHED_STATUS
<1>1. CASE \/ Acquire(h) \/ EnterGraph(h) \/ GraphEnds(h) \/ GraphRaises(h) \/ Inspect(h) \/ Reserve(h)
           \/ EmitStarted(h) \/ EmitReady(h) \/ EmitProgress(h) \/ EmitToken(h) \/ CheckCancel(h) \/ CheckThread(h)
           \/ GraphStep(h)
  <2>1. \E p \in HandlerPc \ {"interrupt", "ack", "restart"} : Goto(h, p)
    <3>1. {"ready", "fail", "step", "inspect", "suspend", "succeed", "check", "acquire", "enter", "halt",
           "guard", "start", "stop", "emit"} \subseteq HandlerPc \ {"interrupt", "ack", "restart"}
      BY DEF HandlerPc, OutsideTry, InsideTry, Failing
    <3>. QED BY <1>1, <3>1
             DEF Acquire, EnterGraph, GraphEnds, GraphRaises, Inspect, Reserve, EmitStarted, EmitReady,
                 EmitProgress, EmitToken, CheckCancel, CheckThread, GraphStep, Only
  <2>2. pc'[h] \notin {"interrupt", "ack", "restart"}
    BY <2>1 DEF Goto
  <2>. QED BY <1>0, <2>2
<1>2. CASE StartFirst(h)
  <2>1. CASE status[r] = "queued"
    <3>1. pc'[h] = "started"
      BY <1>2, <2>1 DEF StartFirst, Only, Goto
    <3>. QED BY <1>0, <3>1
  <2>2. CASE status[r] = "running"
    <3>1. pc'[h] = "restart"
      BY <1>2, <2>2 DEF StartFirst, Only, Goto
    <3>2. status' = status
      BY <1>2, <2>2 DEF StartFirst, startFirst, TransitFrom
    <3>. QED BY <1>0, <2>2, <3>1, <3>2
  <2>. QED BY <1>0, <2>1, <2>2
<1>3. CASE StartResumed(h)
  <2>1. pc[h] = "restart"
    BY <1>3 DEF StartResumed, At
  <2>2. status[r] \in RESUMABLE_STATUS
    BY <1>0, <2>1 DEF RESUMABLE_STATUS
  <2>3. pc'[h] = "started"
    BY <1>3, <2>2 DEF StartResumed, Goto
  <2>. QED BY <1>0, <2>3
<1>4. CASE EmitInterrupt(h)
  BY <1>0, <1>4 DEF EmitInterrupt, At
<1>5. CASE Suspend(h) \/ Succeed(h) \/ Fail(h) \/ Stop(h) \/ Halt(h)
  <2>1. PICK to \in {"waiting_approval", "succeeded", "failed", "cancelled"} : Transit(r, to)
    BY <1>5 DEF Suspend, Succeed, Fail, Stop, Halt, Settle, wait_approval, succeed, fail, cancel
  <2>2. status'[r] = to
    BY <1>0, <2>1 DEF Transit, TransitFrom, CANCELLABLE_STATUS, StoreTypeOK
  <2>. QED BY <1>0, <2>2
<1>6. CASE EmitVerdict(h)
  <2>1. <<"worker", h, VerdictOf(pc[h])>> \in Owed(r)
    BY <1>6 DEF EmitVerdict, Owed
  <2>2. status[r] \notin TERMINAL_STATUS
    BY <1>0 DEF TERMINAL_STATUS
  <2>. QED BY <2>1, <2>2, LiveRunClean, PerRun
<1>. QED BY <1>1, <1>2, <1>3, <1>4, <1>5, <1>6 DEF HandlerStep

LEMMA CarrierStays ==
    ASSUME TypeOK, TypeOK', QueueInv, VerdictInv, [Next]_vars, Faultless,
           NEW r \in Run, status[r] \in UNFINISHED_STATUS, status'[r] \in UNFINISHED_STATUS,
           NEW m \in 1..Len(stream), Carries(m, r)
    PROVE  m \in 1..Len(stream') /\ Carries(m, r)'
<1>0. /\ stream[m].run = r
      /\ m \in pending \/ m > delivered
      /\ \A h \in Handler : job[h] = m => pc[h] \notin Left(status[r]) /\ RunIn(h) = r
      /\ Left(status'[r]) \subseteq Left(status[r]) /\ {"interrupt", "ack"} \subseteq Left(status[r])
      /\ m # 0 /\ "check" \notin Left(status'[r])
  <2>1. m # 0
    OBVIOUS
  <2>2. ASSUME NEW h \in Handler, job[h] = m PROVE RunIn(h) = r
    BY <2>1, <2>2 DEF Carries, QueueInv, JobInv, RunIn
  <2>. QED BY <2>1, <2>2, StaysUnfinished DEF Carries, Left
<1>1. m \in 1..Len(stream') /\ stream'[m] = stream[m]
  BY QueueKinds, QueueGrows
<1>2. ~\E h \in Handler : Finish(h) /\ job[h] = m
  BY <1>0 DEF Finish, At
<1>3. m \in pending' \/ m > delivered'
  BY <1>0, <1>2, MessageStays
<1>4. ASSUME NEW g \in Handler, job'[g] = m PROVE pc'[g] \notin Left(status'[r])
  <2>1. CASE job[g] = m /\ pc'[g] = pc[g]
    BY <1>0, <2>1
  <2>2. ASSUME NEW h \in Handler, Reserve(h) PROVE pc'[g] \notin Left(status'[r])
    <3>1. PICK n \in 1..Len(stream) : Take(h, n)
      BY <2>2, ReserveTakes DEF QueueInv
    <3>2. CASE g = h
      BY <1>0, <3>1, <3>2 DEF Take
    <3>3. CASE g # h
      BY <1>4, <2>1, <3>1, <3>3 DEF Take
    <3>. QED BY <3>2, <3>3
  <2>3. ASSUME NEW h \in Handler, Finish(h) PROVE pc'[g] \notin Left(status'[r])
    <3>1. Drop(h)
      BY <2>3, FinishDrops
    <3>2. g # h
      BY <1>0, <1>4, <3>1 DEF Drop
    <3>. QED BY <1>4, <2>1, <3>1, <3>2 DEF Drop
  <2>4. ASSUME NEW h \in Handler, HandlerStep(h), GoesOn(h), ~Finish(h) PROVE pc'[g] \notin Left(status'[r])
    <3>1. job' = job /\ (g # h => pc'[g] = pc[g])
      BY <2>4, GoesOnPc
    <3>2. CASE g = h
      BY <1>0, <1>4, <2>4, <3>1, <3>2, NotLeft
    <3>. QED BY <1>4, <2>1, <3>1, <3>2
  <2>5. ASSUME NEW w \in Worker, Crash(w) PROVE pc'[g] \notin Left(status'[r])
    <3>1. Gone(w)
      BY <2>5, CrashGone
    <3>2. Host(g) # w
      BY <1>0, <1>4, <3>1 DEF Gone
    <3>. QED BY <1>4, <2>1, <3>1, <3>2 DEF Gone
  <2>6. CASE Rest
    BY <1>4, <2>1, <2>6 DEF Rest
  <2>. QED BY <2>2, <2>3, <2>4, <2>5, <2>6, BusySteps DEF Faultless
<1>. QED BY <1>0, <1>1, <1>3, <1>4 DEF Carries

LEMMA CarryStep ==
    ASSUME TypeOK, TypeOK', QueueInv, QueueInv', VerdictInv, CarryInv, [Next]_vars, hiccups' = 0,
           NEW r \in Run, status'[r] \in UNFINISHED_STATUS
    PROVE  Publishing(r)' \/ \E m \in 1..Len(stream') : Carries(m, r)'
<1>1. hiccups = 0 /\ Faultless
  BY FaultlessKinds
<1>2. ASSUME status[r] \in UNFINISHED_STATUS, NEW m \in 1..Len(stream), Carries(m, r)
      PROVE  \E n \in 1..Len(stream') : Carries(n, r)'
  BY <1>1, <1>2, CarrierStays
<1>3. ASSUME status[r] \in UNFINISHED_STATUS, Publishing(r)
      PROVE  Publishing(r)' \/ \E n \in 1..Len(stream') : Carries(n, r)'
  <2>1. SUFFICES ASSUME Rest, NEW k \in 0..MaxAsk, stream' = Append(stream, [run |-> r, answer |-> k])
                 PROVE  \E n \in 1..Len(stream') : Carries(n, r)'
    BY <1>1, <1>3, OwesOrPublishes
  <2>. DEFINE n == Len(stream) + 1
  <2>2. n \in 1..Len(stream') /\ stream'[n].run = r /\ delivered' < n /\ delivered' \in Nat
    BY <2>1 DEF Rest, TypeOK, QueueTypeOK
  <2>3. \A h \in Handler : job'[h] # n
    BY <2>2 DEF QueueInv, JobInv
  <2>4. n > delivered'
    BY <2>2
  <2>. HIDE DEF n
  <2>. QED BY <2>2, <2>3, <2>4 DEF Carries
<1>4. CASE status[r] \in UNFINISHED_STATUS
  BY <1>1, <1>2, <1>3, <1>4 DEF CarryInv
<1>5. CASE status[r] \notin UNFINISHED_STATUS
  <2>1. SUFFICES ASSUME NEW h \in Handler, StartResumed(h), RunIn(h) = r, pc'[h] = "started"
                 PROVE  \E n \in 1..Len(stream') : Carries(n, r)'
    BY <1>5, BecomesUnfinished
  <2>2. /\ job'[h] \in 1..delivered' /\ task'[h] = stream'[job'[h]] /\ beating'[h] /\ job'[h] \in pending'
        /\ hiccups' = 0
    BY <1>1, <2>1 DEF QueueInv, JobInv, Undisturbed
  <2>3. job'[h] \in 1..Len(stream')
    BY <2>2 DEF TypeOK, QueueTypeOK
  <2>4. task'[h] = task[h]
    BY <2>1 DEF StartResumed
  <2>5. ASSUME NEW g \in Handler, job'[g] = job'[h] PROVE g = h
    <3>1. beating'[g]
      BY <2>2, <2>5 DEF QueueInv, JobInv, Undisturbed
    <3>. QED BY <2>2, <2>5, <3>1 DEF QueueInv, OneBeater
  <2>6. pc'[h] \notin Left(status'[r])
    BY <2>1 DEF Left
  <2>. QED BY <2>1, <2>2, <2>3, <2>4, <2>5, <2>6 DEF Carries, RunIn
<1>. QED BY <1>4, <1>5

LEMMA InitCarry == Init => CarryInv
BY DEF Init, StoreInit, CarryInv, UNFINISHED_STATUS

LEMMA NextCarry ==
    TypeOK /\ TypeOK' /\ QueueInv /\ QueueInv' /\ VerdictInv /\ CarryInv /\ [Next]_vars => CarryInv'
BY CarryStep DEF CarryInv

\* Crashes, redeliveries, approvals and both crons never leave an unfinished run without a
\* message: as long as no store call failed and no request was dropped, one is queued or
\* unacknowledged, or a request is about to publish it.
THEOREM RunsAreCarried == Spec => []CarriedUnlessFault
<1>1. TypeOK /\ CarryInv => CarriedUnlessFault
  <2>. SUFFICES ASSUME TypeOK, NEW r \in Run, NEW m \in 1..Len(stream), Carries(m, r) PROVE InFlight(r)
    BY DEF CarryInv, CarriedUnlessFault
  <2>1. m \in pending \/ m \in (delivered + 1)..Len(stream)
    BY DEF Carries, TypeOK, QueueTypeOK
  <2>. QED BY <2>1 DEF Carries, InFlight
<1>. QED BY <1>1, InitQueue, NextQueue, InitInv, NextInv, InitCarry, NextCarry, TypeCorrect, PTL
         DEF Spec

================================================================================
