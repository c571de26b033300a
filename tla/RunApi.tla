--------------------------------- MODULE RunApi ---------------------------------
(***************************************************************************)
(* The api process's side of a run: submit (api/route/thread.py,           *)
(* run/submitter.py), cancel and approve (api/route/run.py), and the       *)
(* soft delete of a thread.  A request is a coroutine that may be          *)
(* suspended, and lost, between any two of its stores.                     *)
(***************************************************************************)
EXTENDS RunRepository, TaskQueue, EventLog, RunSignals

VARIABLE req                     \* req[c]: what request c still has to do

RequestOp == {"none", "submit", "publish", "cancel", "announce", "resume", "republish"}
Request   == [op : RequestOp, run : Run, answer : 0..MaxAsk]
NoRequest == [op |-> "none", run |-> CHOOSE r \in Run : TRUE, answer |-> 0]

ApiTypeOK == req \in [Client -> Request]
ApiInit   == req = [c \in Client |-> NoRequest]

Next_op(c, op, r, k) == req' = [req EXCEPT ![c] = [op |-> op, run |-> r, answer |-> k]]
Done(c)              == req' = [req EXCEPT ![c] = NoRequest]

\* submit_run: the thread is looked up first; resolving the agent's references takes
\* several more reads, so the thread may be deleted before the row is written.
SubmitRun(c, r) ==
    /\ req[c].op = "none"
    /\ active(ThreadOf[r])
    /\ status[r] = "absent"
    /\ \A d \in Client : ~(req[d].op = "submit" /\ req[d].run = r)     \* uuid4
    /\ Next_op(c, "submit", r, 0)
    /\ UNCHANGED <<storeVars, queueVars, log, signalVars>>

\* RunSubmitter.submit: the row first, the message second.
CreateRun(c) ==
    /\ req[c].op = "submit"
    /\ create(req[c].run)
    /\ Next_op(c, "publish", req[c].run, 0)
    /\ UNCHANGED <<queueVars, log, signalVars>>

PublishRun(c) ==
    /\ req[c].op = "publish"
    /\ publish([run |-> req[c].run, answer |-> 0])
    /\ Done(c)
    /\ UNCHANGED <<storeVars, log, signalVars>>

\* cancel_run: the flag first, then the status, then the event.
RaiseFlag(c, r) ==
    /\ req[c].op = "none"
    /\ status[r] # "absent"
    /\ raise_flag(r)
    /\ Next_op(c, "cancel", r, 0)
    /\ UNCHANGED <<storeVars, queueVars, log>>

CancelRow(c) ==
    LET r == req[c].run
    IN  /\ req[c].op = "cancel"
        /\ cancel(r)
        /\ IF CanTransit(r) THEN Next_op(c, "announce", r, 0) ELSE Done(c)
        /\ UNCHANGED <<queueVars, log, signalVars>>

AnnounceCancel(c) ==
    /\ req[c].op = "announce"
    /\ append(req[c].run, Plain("run.cancelled"))
    /\ Done(c)
    /\ UNCHANGED <<storeVars, queueVars, signalVars>>

(***************************************************************************)
(* approve_run.  The decisions answer an interrupt the teacher was shown,  *)
(* the latest one or, from a page left open, an earlier one; check() only  *)
(* compares their number with the last interrupt event's.                  *)
(***************************************************************************)
ReadApproval(c, r) ==
    /\ req[c].op = "none"
    /\ status[r] = "waiting_approval"
    /\ \E k \in ShownAsk(r) : Next_op(c, "resume", r, k)
    /\ UNCHANGED <<storeVars, queueVars, log, signalVars>>

ResumeRow(c) ==
    LET r == req[c].run
    IN  /\ req[c].op = "resume"
        /\ resume(r)
        /\ IF status[r] = "waiting_approval"
             THEN Next_op(c, "republish", r, req[c].answer) ELSE Done(c)
        /\ UNCHANGED <<queueVars, log, signalVars>>

Republish(c) ==
    /\ req[c].op = "republish"
    /\ publish([run |-> req[c].run, answer |-> req[c].answer])
    /\ Done(c)
    /\ UNCHANGED <<storeVars, log, signalVars>>

\* delete_thread: the row is marked; no run of the thread is touched.
DeleteThread(t) ==
    /\ active(t)
    /\ SoftDelete(t)
    /\ UNCHANGED <<req, storeVars, queueVars, log>>

\* The rest of a request: what follows once it has begun.
RequestStep(c) ==
    \/ CreateRun(c) \/ PublishRun(c) \/ CancelRow(c) \/ AnnounceCancel(c)
    \/ ResumeRow(c) \/ Republish(c)

\* The api process dies, or the next store call of the request fails.
DropRequest(c) ==
    /\ req[c].op # "none"
    /\ Done(c)
    /\ UNCHANGED <<storeVars, queueVars, log, signalVars>>
================================================================================
