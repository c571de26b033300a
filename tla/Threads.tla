------------------------------- MODULE Threads -------------------------------
(***************************************************************************)
(* Conversations of one user: rows of `threads` and `thread_purge_jobs`    *)
(* (app/thread), the directory and the container the broker keeps for each *)
(* (app/sandbox/workspace.py, app/broker/route.py), the endpoints that     *)
(* create, rename and delete them (app/api/route/thread.py) and the reaper *)
(* that finishes what a deletion left over (app/thread/reaper.py).         *)
(*                                                                         *)
(* A fault is a call of the broker that fails or whose answer is lost, a   *)
(* docker command that fails or times out, or the death of the api process *)
(* or the reaper between two awaits.                                       *)
(***************************************************************************)
EXTENDS Naturals, FiniteSets

CONSTANTS
    Request,                     \* HTTP calls of the user
    Reaper,                      \* the cron job app/thread/reaper.py
    Thread, NoThread,
    MaxFault, Nobody             \* bound on faults; the broker's lock is free

ASSUME ThreadsAssumption ==
    /\ MaxFault \in Nat /\ NoThread \notin Thread
    /\ Reaper \notin Request /\ Nobody \notin Request \cup {Reaper}

VARIABLES
    at,                          \* where each request is, and the reaper
    row, title, purge,           \* by thread: `threads` and its purge job
    dirs, boxes,                 \* directories and containers the broker knows
    strays,                      \* threads that may have a container running that it does not know
    holder,                      \* who holds the broker's lock of the thread
    faults,
    cut                          \* history: threads whose creation a fault or a race cut short

threadVars == <<row, title, purge, dirs, boxes, strays, holder, faults, cut>>

Actor == Request \cup {Reaper}

\* What an actor waits for, in a handler or in the broker.  A request chooses what it asks.
Place == {"in", "making", "undoing", "found", "destroying", "removing", "noting", "excusing",
          "spending", "counting", "admitted", "naming", "asking", "reaching", "filing", "done"}

Put(a, place, t) ==
    at' = [at EXCEPT ![a] = [place |-> place, thread |-> IF place = "done" THEN NoThread ELSE t]]

RowStatus   == {"none", "active", "deleted", "removed"}
TitleKind   == {"empty", "typed", "composed"}
PurgeStatus == {"none", "pending", "done"}

\* Some conversations are there from earlier requests, without a title yet.
ThreadsInit ==
    /\ at = [a \in Actor |-> [place |-> "in", thread |-> NoThread]]
    /\ dirs \in SUBSET Thread /\ boxes = {} /\ strays = {}
    /\ row = [t \in Thread |-> IF t \in dirs THEN "active" ELSE "none"]
    /\ title = [t \in Thread |-> "empty"]
    /\ purge = [t \in Thread |-> "none"]
    /\ holder = [t \in Thread |-> Nobody]
    /\ faults = 0 /\ cut = {}

CanFail == faults < MaxFault
Fault   == CanFail /\ faults' = faults + 1

\* require_thread and active: the owner's conversations that are not deleted.
_visible(t) == row[t] = "active"

Free(t) == holder[t] = Nobody

--------------------------------------------------------------------------------
(* create_thread *)

create(q, t) ==
    /\ at[q].place = "in" /\ row[t] = "none"
    /\ row' = [row EXCEPT ![t] = "active"]
    /\ Put(q, "making", t)
    /\ UNCHANGED <<title, purge, dirs, boxes, strays, holder, faults, cut>>

\* The broker makes the directory if there is none and sets its disk quota.
MakeDirectory(q) ==
    LET t == at[q].thread IN
    /\ at[q].place = "making"
    /\ dirs' = dirs \cup {t} /\ Put(q, "done", t)
    /\ cut' = IF _visible(t) THEN cut ELSE cut \cup {t}
    /\ UNCHANGED <<row, title, purge, boxes, strays, holder, faults>>

\* The call is refused or its answer lost, or the directory is there without a quota.
MakeFails(q) ==
    LET t == at[q].thread IN
    /\ at[q].place = "making" /\ Fault
    /\ dirs' \in {dirs, dirs \cup {t}} /\ Put(q, "undoing", t)
    /\ cut' = cut \cup {t}
    /\ UNCHANGED <<row, title, purge, boxes, strays, holder>>

\* purge: the row goes unless it was deleted meanwhile or a run refers to it.
Undo(q, referred) ==
    LET t == at[q].thread IN
    /\ at[q].place = "undoing"
    /\ row' = IF _visible(t) /\ ~ referred THEN [row EXCEPT ![t] = "removed"] ELSE row
    /\ Put(q, "done", t)
    /\ UNCHANGED <<title, purge, dirs, boxes, strays, holder, faults, cut>>

--------------------------------------------------------------------------------
(* update_thread *)

update(q, t) ==
    /\ at[q].place = "in" /\ _visible(t)
    /\ title' = [title EXCEPT ![t] = "typed"]
    /\ Put(q, "done", t)
    /\ UNCHANGED <<row, purge, dirs, boxes, strays, holder, faults, cut>>

--------------------------------------------------------------------------------
(* delete_thread, and the reaper from the broker's part on *)

RequireThread(q, t) ==
    /\ at[q].place = "in" /\ _visible(t)
    /\ Put(q, "found", t)
    /\ UNCHANGED threadVars

\* The mark and the purge job are one transaction.  The answer is not looked at: a
\* second request destroys as well.
delete(q) ==
    LET t == at[q].thread IN
    /\ at[q].place = "found"
    /\ row' = IF _visible(t) THEN [row EXCEPT ![t] = "deleted"] ELSE row
    /\ purge' = IF _visible(t) THEN [purge EXCEPT ![t] = "pending"] ELSE purge
    /\ Put(q, "destroying", t)
    /\ UNCHANGED <<title, dirs, boxes, strays, holder, faults, cut>>

\* Mutant: the reaper looks for the job among the conversations that are not deleted.
pending_visible(t) ==
    /\ at[Reaper].place = "in" /\ purge[t] = "pending" /\ _visible(t)
    /\ Put(Reaper, "destroying", t)
    /\ UNCHANGED threadVars

\* The reaper takes up a job that is not finished.
pending_purge(t) ==
    /\ at[Reaper].place = "in" /\ purge[t] = "pending"
    /\ Put(Reaper, "destroying", t)
    /\ UNCHANGED threadVars

\* The pool forgets the container before docker removes it; a removal that fails is only
\* logged, and the container runs on.
ForgetBox(t) ==
    /\ boxes' = boxes \ {t}
    /\ \/ UNCHANGED <<strays, faults>>
       \/ t \in boxes /\ Fault /\ strays' = strays \cup {t}

\* destroy_thread in the broker: the container first, then the directory, under one lock.
DestroyBox(a) ==
    LET t == at[a].thread IN
    /\ at[a].place = "destroying"
    /\ \/ /\ Free(t)
          /\ holder' = [holder EXCEPT ![t] = a]
          /\ ForgetBox(t) /\ Put(a, "removing", t)
       \/ Fault /\ Put(a, "excusing", t) /\ UNCHANGED <<boxes, strays, holder>>
    /\ UNCHANGED <<row, title, purge, dirs, cut>>

\* The directory is removed and the lock let go; removal or answer may fail.
RemoveDirectory(a) ==
    LET t == at[a].thread IN
    /\ at[a].place = "removing"
    /\ holder' = [holder EXCEPT ![t] = Nobody]
    /\ \/ dirs' = dirs \ {t} /\ Put(a, "noting", t) /\ UNCHANGED faults
       \/ Fault /\ dirs' \in {dirs, dirs \ {t}} /\ Put(a, "excusing", t)
    /\ UNCHANGED <<row, title, purge, boxes, strays, cut>>

\* A request ends, the reaper goes on with the next job.
Leave(a) == Put(a, IF a = Reaper THEN "in" ELSE "done", NoThread)

\* The job stays pending; its count of attempts is left out.
fail_purge(a) ==
    /\ at[a].place = "excusing"
    /\ Leave(a)
    /\ UNCHANGED threadVars

complete_purge(a) ==
    LET t == at[a].thread IN
    /\ at[a].place = "noting"
    /\ purge' = [purge EXCEPT ![t] = IF @ = "pending" THEN "done" ELSE @]
    /\ Leave(a)
    /\ UNCHANGED <<row, title, dirs, boxes, strays, holder, faults, cut>>

--------------------------------------------------------------------------------
\* The process of the actor dies between two awaits; what runs in the broker runs on.
Die(a) ==
    /\ at[a].place \in {"making", "undoing", "found", "destroying", "excusing", "noting"}
    /\ Fault
    /\ Leave(a)
    /\ cut' = IF at[a].place = "making" THEN cut \cup {at[a].thread} ELSE cut
    /\ UNCHANGED <<row, title, purge, dirs, boxes, strays, holder>>

================================================================================
