-------------------------------- MODULE EventLog --------------------------------
(***************************************************************************)
(* The per-run event log (app/run/log.py, app/event/model.py).  Only the   *)
(* event types matter here, plus the number of the interrupt an            *)
(* `interrupt` event shows and the `resumed` field of `run.started`.       *)
(* The mapper makes any number of events of a stream chunk: the first one  *)
(* of an `updates` chunk is a "progress" event, every other one is a       *)
(* "token".                                                                *)
(***************************************************************************)
EXTENDS Platform, Sequences

VARIABLE log                     \* log[r]: the events of run r, in append order

TERMINAL_EVENT_TYPE == {"run.finished", "run.failed", "run.cancelled"}

EventType == TERMINAL_EVENT_TYPE \cup
             {"run.started", "sandbox.ready", "progress", "token", "interrupt"}

Event == [type : EventType, ask : 0..MaxAsk, resumed : BOOLEAN]

LogTypeOK == log \in [Run -> Seq(Event)]
LogInit   == log = [r \in Run |-> <<>>]

Plain(type)        == [type |-> type, ask |-> 0, resumed |-> FALSE]
RunStarted(again)  == [type |-> "run.started", ask |-> 0, resumed |-> again]
Interrupt(n)       == [type |-> "interrupt", ask |-> n, resumed |-> FALSE]

append(r, event) == log' = [log EXCEPT ![r] = Append(@, event)]

\* The interrupts the teacher has been shown for r.
ShownAsk(r) == {log[r][i].ask : i \in {j \in 1..Len(log[r]) : log[r][j].type = "interrupt"}}

Tokens(r) == {i \in 1..Len(log[r]) : log[r][i].type = "token"}

Verdicts(r) == {i \in 1..Len(log[r]) : log[r][i].type \in TERMINAL_EVENT_TYPE}
================================================================================
