------------------------------ MODULE ToolCalls ------------------------------
(***************************************************************************)
(* One writing tool call of a run, sent to the broker by a worker and sent *)
(* again by the worker that takes the run over: the thread's lock, the     *)
(* table of results in Redis, and a command that runs on when its caller   *)
(* is gone (app/broker/route.py, app/broker/cache.py).                     *)
(***************************************************************************)
EXTENDS Submissions

CONSTANTS
    MaxAttempt,                  \* bound: workers that send the call
    ToolThread                   \* the thread it writes to

ASSUME ToolAssumption ==
    /\ MaxAttempt \in Nat /\ ToolThread \in Thread
    /\ \A n \in 1..MaxAttempt : n \notin Request \cup {Reaper, Nobody}

Attempt == 1..MaxAttempt

VARIABLES
    call,                        \* by attempt: where it is
    gone,                        \* running attempts whose caller is gone
    remembered,                  \* the table holds the result
    ran,                         \* history: how often the command ran
    misses                       \* history: lookups and results the table lost

toolVars == <<call, gone, remembered, ran, misses>>

CallPlace == {"idle", "sent", "running", "over"}

ToolCallsInit ==
    /\ call = [n \in Attempt |-> "idle"]
    /\ gone = {} /\ remembered = FALSE
    /\ ran = 0 /\ misses = 0

At(n, place) == call' = [call EXCEPT ![n] = place]

\* A worker sends the call; a later one replays it, knowing nothing of the answer.
SendCall(n) ==
    /\ call[n] = "idle" /\ \A k \in 1..(n - 1) : call[k] # "idle"
    /\ \E q \in Request : run[q] = "running" /\ of[q] = ToolThread
    /\ At(n, "sent")
    /\ UNCHANGED <<at, threadVars, submitVars, gone, remembered, ran, misses>>

\* The lock, the directory and the table.  A table that cannot be read is a miss.  Without
\* a container the command is not run and its error is the result.
LookUp(n) ==
    /\ call[n] = "sent" /\ Free(ToolThread)
    /\ IF ToolThread \notin dirs \/ remembered
       THEN At(n, "over") /\ UNCHANGED <<holder, ran, misses, faults>>
       ELSE /\ At(n, "running") /\ holder' = [holder EXCEPT ![ToolThread] = n]
            /\ ran' = IF ToolThread \in boxes THEN ran + 1 ELSE ran
            /\ UNCHANGED <<misses, faults>>
    /\ UNCHANGED <<at, row, title, purge, dirs, boxes, strays, cut, submitVars, gone, remembered>>

\* Redis fails on the read: the call runs although its result is there.
LookUpBlind(n) ==
    /\ call[n] = "sent" /\ Free(ToolThread) /\ ToolThread \in dirs /\ remembered
    /\ Fault /\ misses' = misses + 1
    /\ At(n, "running") /\ holder' = [holder EXCEPT ![ToolThread] = n]
    /\ ran' = IF ToolThread \in boxes THEN ran + 1 ELSE ran
    /\ UNCHANGED <<at, row, title, purge, dirs, boxes, strays, cut, submitVars, gone, remembered>>

\* The caller is gone.  A call that waits is cancelled, a command runs to its end.
HangUp(n) ==
    /\ call[n] \in {"sent", "running"} /\ n \notin gone
    /\ IF call[n] = "sent" THEN At(n, "over") /\ UNCHANGED gone
                           ELSE gone' = gone \cup {n} /\ UNCHANGED call
    /\ UNCHANGED <<at, threadVars, submitVars, remembered, ran, misses>>

\* Mutant: only the result of a command that succeeded is remembered.
_remember_success(n) ==
    /\ call[n] = "running"
    /\ At(n, "over") /\ holder' = [holder EXCEPT ![ToolThread] = Nobody]
    /\ remembered' \in {remembered, n \notin gone}
    /\ misses' = IF n \in gone THEN misses + 1 ELSE misses
    /\ UNCHANGED <<at, row, title, purge, dirs, boxes, strays, faults, cut, submitVars, gone, ran>>

\* The command ends, well or badly, and its result is remembered, unless the caller is gone,
\* the result is too large or Redis fails.
_remember(n) ==
    /\ call[n] = "running"
    /\ At(n, "over") /\ holder' = [holder EXCEPT ![ToolThread] = Nobody]
    /\ \/ n \notin gone /\ remembered' = TRUE /\ UNCHANGED <<misses, faults>>
       \/ n \notin gone /\ Fault /\ misses' = misses + 1 /\ UNCHANGED remembered
       \/ n \in gone /\ misses' = misses + 1 /\ UNCHANGED <<remembered, faults>>
    /\ gone' = gone \ {n}
    /\ UNCHANGED <<at, row, title, purge, dirs, boxes, strays, cut, submitVars, ran>>

================================================================================
