----------------------------- MODULE Submissions -----------------------------
(***************************************************************************)
(* A request that submits a run: the owner's check, the three quota checks *)
(* one read at a time, the new row, and the title composed after the       *)
(* answer (app/api/route/thread.py, app/quota, app/run/submitter.py,       *)
(* app/thread/title.py).  A run bears the name of the request that created *)
(* it; of its execution, which RunSystem models, only what the quotas and  *)
(* the broker of its thread see is kept.                                   *)
(***************************************************************************)
EXTENDS Threads

CONSTANTS
    TokenDaily,                  \* the allowance, in runs that have been charged
    ConcurrentRun,
    DEFAULT_PENDING_LIMIT

ASSUME QuotaAssumption ==
    {TokenDaily, ConcurrentRun, DEFAULT_PENDING_LIMIT} \subseteq Nat \ {0} /\ IsFiniteSet(Request)

VARIABLES
    run,                         \* by request: status of its run
    of,                          \* by request: the thread of its run
    old,                         \* runs that started before midnight
    outrun,                      \* history: runs admitted on a count another run has made stale
    early,                       \* history: composers at work that looked before the owner typed a title
    late,                        \* strays docker may not have mounted yet
    revived                      \* history: threads whose directory such a container brought back

submitVars == <<run, of, old, outrun, early, late, revived>>

RunState == {"none", "queued", "starting", "running", "waiting", "ended", "dropped"}

SubmissionsInit ==
    /\ run = [q \in Request |-> "none"]
    /\ of = [q \in Request |-> NoThread]
    /\ old = {} /\ outrun = {} /\ early = {} /\ late = {} /\ revived = {}

ActiveStatus == {"queued", "starting", "running"}      \* starting is RUNNING in the row

token_today   == Cardinality({q \in Request : run[q] = "ended"} \ old)
active_run    == Cardinality({q \in Request : run[q] \in ActiveStatus})
pending_count == Cardinality({q \in Request : run[q] = "waiting"})

\* Requests that have read the count of active runs and not yet created their own.
Admitted == {q \in Request : at[q].place \in {"counting", "admitted"}}

Status(q, s) == run' = [run EXCEPT ![q] = s]

--------------------------------------------------------------------------------
(* submit_run: one read of the database per step *)

\* require_thread, and the user's row behind the allowance.
SubmitRun(q, t) ==
    /\ at[q].place = "in" /\ _visible(t)
    /\ Put(q, "spending", t)
    /\ UNCHANGED <<threadVars, submitVars>>

Refuse(q, ok, next) == Put(q, IF ok THEN next ELSE "done", at[q].thread)

\* Mutant: one run more than the allowance.
CheckSlotsLoose(q) ==
    /\ at[q].place = "spending"
    /\ Refuse(q, token_today < TokenDaily /\ active_run <= ConcurrentRun, "counting")
    /\ UNCHANGED <<threadVars, submitVars>>

\* The tokens of today, then the active runs.
CheckSlots(q) ==
    /\ at[q].place = "spending"
    /\ Refuse(q, token_today < TokenDaily /\ active_run < ConcurrentRun, "counting")
    /\ UNCHANGED <<threadVars, submitVars>>

CheckPending(q) ==
    /\ at[q].place = "counting"
    /\ Refuse(q, pending_count < DEFAULT_PENDING_LIMIT, "admitted")
    /\ UNCHANGED <<threadVars, submitVars>>

\* submit and touch: nothing is checked again, the thread may be gone.
submit(q) ==
    LET t == at[q].thread IN
    /\ at[q].place = "admitted"
    /\ Status(q, "queued") /\ of' = [of EXCEPT ![q] = t]
    /\ outrun' = outrun \cup (Admitted \ {q})
    /\ Put(q, "naming", t)
    /\ UNCHANGED <<threadVars, old, early, late, revived>>

--------------------------------------------------------------------------------
(* TitleWriter.compose, after the answer has been sent *)

\* Mutant: the composer does not look whether there is a title.
compose_blindly(q) ==
    LET t == at[q].thread IN
    /\ at[q].place = "naming"
    /\ Put(q, IF _visible(t) THEN "asking" ELSE "done", t)
    /\ UNCHANGED <<threadVars, submitVars>>

compose(q) ==
    LET t == at[q].thread IN
    /\ at[q].place = "naming"
    /\ Put(q, IF _visible(t) /\ title[t] = "empty" THEN "asking" ELSE "done", t)
    /\ UNCHANGED <<threadVars, submitVars>>

\* The model answers, or with nothing; the title is written as update_thread writes it.
_ask(q) ==
    LET t == at[q].thread IN
    /\ at[q].place = "asking"
    /\ \/ title' = IF _visible(t) THEN [title EXCEPT ![t] = "composed"] ELSE title
       \/ UNCHANGED title
    /\ Put(q, "done", t) /\ early' = early \ {q}
    /\ UNCHANGED <<row, purge, dirs, boxes, strays, holder, faults, cut>>
    /\ UNCHANGED <<run, of, old, outrun, late, revived>>

\* update_thread, with the composers it overtakes.
RenameThread(q, t) ==
    /\ update(q, t)
    /\ early' = early \cup {c \in Request : at[c].place = "asking" /\ at[c].thread = t}
    /\ UNCHANGED <<run, of, old, outrun, late, revived>>

--------------------------------------------------------------------------------
(* The run, as far as the quotas and the broker see it *)

\* RunExecutor.run up to its start: a run of a deleted thread is not started.
Begin(q) ==
    /\ run[q] = "queued"
    /\ Status(q, IF _visible(of[q]) THEN "starting" ELSE "dropped")
    /\ UNCHANGED <<at, threadVars, of, old, outrun, early, late, revived>>

\* Mutant: the pool is asked without the thread's lock.
acquire_unlocked(q) ==
    /\ run[q] = "starting"
    /\ IF of[q] \in dirs
       THEN boxes' = boxes \cup {of[q]} /\ Status(q, "running")
       ELSE Status(q, "dropped") /\ UNCHANGED boxes
    /\ UNCHANGED <<at, row, title, purge, dirs, strays, holder, faults, cut>>
    /\ UNCHANGED <<of, old, outrun, early, late, revived>>

\* acquire under the broker's lock of the thread: lookup never makes the directory.
acquire(q) ==
    /\ run[q] = "starting" /\ Free(of[q])
    /\ IF of[q] \in dirs
       THEN boxes' = boxes \cup {of[q]} /\ Status(q, "running")
       ELSE Status(q, "dropped") /\ UNCHANGED boxes
    /\ UNCHANGED <<at, row, title, purge, dirs, strays, holder, faults, cut>>
    /\ UNCHANGED <<of, old, outrun, early, late, revived>>

\* The caller goes away during docker run, or docker run fails or times out: the lock is let
\* go, and docker may start the container all the same, which the pool never hears of.  The
\* run fails or is delivered again.
AbandonStart(q) ==
    /\ run[q] = "starting" /\ Free(of[q]) /\ of[q] \in dirs \ boxes
    /\ Fault
    /\ \E s \in {"queued", "dropped"} : Status(q, s)
    /\ strays' = strays \cup {of[q]} /\ late' = late \cup {of[q]}
    /\ UNCHANGED <<at, row, title, purge, dirs, boxes, holder, cut>>
    /\ UNCHANGED <<of, old, outrun, early, revived>>

\* Docker mounts after the directory was removed, and makes it anew.
MountLate(t) ==
    /\ t \in late \ dirs
    /\ dirs' = dirs \cup {t} /\ late' = late \ {t} /\ revived' = revived \cup {t}
    /\ UNCHANGED <<at, row, title, purge, boxes, strays, holder, faults, cut>>
    /\ UNCHANGED <<run, of, old, outrun, early>>

\* The run pauses for its owner's decision, or ends and is charged.
Stop(q) ==
    /\ run[q] = "running"
    /\ \E s \in {"waiting", "ended"} : Status(q, s)
    /\ UNCHANGED <<at, threadVars, of, old, outrun, early, late, revived>>

\* resume puts the run back into the queue without a look at the quotas.
resume(q) ==
    /\ run[q] = "waiting"
    /\ Status(q, "queued")
    /\ outrun' = outrun \cup Admitted \cup {q}
    /\ UNCHANGED <<at, threadVars, of, old, early, late, revived>>

\* The pool reclaims the container of a thread without a running run.
Reclaim(t) ==
    /\ t \in boxes /\ \A q \in Request : of[q] = t => run[q] # "running"
    /\ ForgetBox(t)
    /\ UNCHANGED <<at, row, title, purge, dirs, holder, cut, submitVars>>

\* day_start moves past the runs there are; bound: when there is something to forget.
Midnight ==
    /\ token_today > 0
    /\ old' = {q \in Request : run[q] # "none"}
    /\ UNCHANGED <<at, threadVars, run, of, outrun, early, late, revived>>

================================================================================
