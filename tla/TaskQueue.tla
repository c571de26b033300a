------------------------------- MODULE TaskQueue -------------------------------
(***************************************************************************)
(* The Redis stream that carries tasks from the api to the workers         *)
(* (app/task/queue.py): one consumer group, messages numbered 1, 2, ...    *)
(* in the order of XADD.  An acknowledged message stays in the stream; it  *)
(* only leaves the group's pending list.                                   *)
(***************************************************************************)
EXTENDS Platform, Sequences

VARIABLES
    grouped,                     \* the consumer group exists (ensure_group ran once)
    stream,                      \* every task ever published
    delivered,                   \* the group's last-delivered-id
    pending,                     \* delivered and not acknowledged (XPENDING)
    held                         \* TaskQueue._held of each worker process

queueVars == <<grouped, stream, delivered, pending, held>>

\* RunTask: `answer` is the interrupt the decisions answer, 0 for a first task
\* (decisions is None, content carries the question).
RunTask == [run : Run, answer : 0..MaxAsk]

QueueTypeOK ==
    /\ grouped \in BOOLEAN
    /\ stream \in Seq(RunTask)
    /\ delivered \in 0..Len(stream)
    /\ pending \subseteq 1..delivered
    /\ held \in [Worker -> SUBSET (1..delivered)]

QueueInit(exists) ==
    /\ grouped = exists
    /\ stream = <<>>
    /\ delivered = 0
    /\ pending = {}
    /\ held = [w \in Worker |-> {}]

\* XGROUP CREATE ... id=0: messages published earlier are still delivered.
ensure_group ==
    /\ ~grouped
    /\ grouped' = TRUE
    /\ UNCHANGED <<stream, delivered, pending, held>>

publish(task) ==
    /\ stream' = Append(stream, task)
    /\ UNCHANGED <<grouped, delivered, pending, held>>

\* Mutant: XREADGROUP with NOACK.
ReadNewNoAck(w, m) ==
    /\ grouped
    /\ m = delivered + 1
    /\ m <= Len(stream)
    /\ delivered' = m
    /\ held' = [held EXCEPT ![w] = @ \cup {m}]
    /\ UNCHANGED <<grouped, stream, pending>>

\* The XREADGROUP half of reserve().
ReadNew(w, m) ==
    /\ grouped
    /\ m = delivered + 1
    /\ m <= Len(stream)
    /\ delivered' = m
    /\ pending' = pending \cup {m}
    /\ held' = [held EXCEPT ![w] = @ \cup {m}]
    /\ UNCHANGED <<grouped, stream>>

\* Mutant: _claim without the look at _held.
ClaimOwn(w, m, idle) ==
    /\ m \in pending
    /\ idle
    /\ held' = [held EXCEPT ![w] = @ \cup {m}]
    /\ UNCHANGED <<grouped, stream, delivered, pending>>

\* _claim(): XAUTOCLAIM takes a message that has been idle for claim_idle,
\* whoever owns it, and skips what this process already has in hand.
Claim(w, m, idle) ==
    /\ m \in pending
    /\ idle
    /\ m \notin held[w]
    /\ held' = [held EXCEPT ![w] = @ \cup {m}]
    /\ UNCHANGED <<grouped, stream, delivered, pending>>

\* XACK does not look at the owner of the pending entry either.
ack(w, m) ==
    /\ pending' = pending \ {m}
    /\ held' = [held EXCEPT ![w] = @ \ {m}]
    /\ UNCHANGED <<grouped, stream, delivered>>

\* A process that dies takes _held with it; the pending list is in Redis.
ForgetHeld(w) ==
    /\ held' = [held EXCEPT ![w] = {}]
    /\ UNCHANGED <<grouped, stream, delivered, pending>>

\* The three reads of in_flight().
HoldingRun == {stream[m].run : m \in pending}

\* Mutant: only the pending list counts.
WaitingNone(last) == {}

WaitingRun(last) == {stream[m].run : m \in (last + 1)..Len(stream)}

\* Some message of r is still to be acknowledged.
InFlight(r) == \/ \E m \in pending : stream[m].run = r
               \/ \E m \in (delivered + 1)..Len(stream) : stream[m].run = r
================================================================================
