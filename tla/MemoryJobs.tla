------------------------------- MODULE MemoryJobs -------------------------------
(***************************************************************************)
(* The outbox that turns finished runs of one conversation into memory     *)
(* (app/memory/job.py, worker.py, extractor.py, consolidator.py), the      *)
(* store it works on (app/memory/store.py, reached through                 *)
(* app/broker/route.py) and the user who deletes records or the whole      *)
(* conversation meanwhile (app/api/route/memory.py).                       *)
(*                                                                         *)
(* A record is its slug and the store a set of slugs, so that the version  *)
(* a replacement is conditional on is the set itself.  What the models     *)
(* extract or merge is any of their replies the validation lets through.   *)
(* The ledger counts model calls; their tokens, costs and times are left   *)
(* out, and so are the sizes that make a store full.  A statement that     *)
(* fails has not changed its table.  That one call of the store is one     *)
(* step is what MemoryFiles is about.                                      *)
(***************************************************************************)
EXTENDS Integers, FiniteSets

CONSTANTS
    Job, Worker, Slug,
    Reply,                       \* by stage: sets of records the model may answer with
    Deletable,                   \* bound: records the user deletes
    MaxAttempt,                  \* memory_job_max_attempts
    MergeAt,                     \* CONSOLIDATION_THRESHOLD
    MaxSweep,                    \* bound: jobs taken from a worker that is alive
    MaxFault                     \* bound: crashes, failed calls of the broker or the tables

Stage == {"extractor", "consolidator"}

ASSUME JobsAssumption ==
    /\ Reply \in [Stage -> SUBSET SUBSET Slug] /\ MaxAttempt \in Nat \ {0} /\ MergeAt \in Nat \ {0}
    /\ MaxSweep \in Nat /\ MaxFault \in Nat /\ IsFiniteSet(Worker)

VARIABLES
    job,                         \* `memory_jobs`: status and attempts
    ledger,                      \* `memory_usage` by job and stage
    called,                      \* history: model calls made
    swept,                       \* history: how often requeue_stale took the job
    unbooked,                    \* history: stages of which a booking failed
    faults,
    store, alive, space,         \* records; the thread is active; its workspace exists
    at                           \* what each worker is doing

jobVars == <<job, ledger, called, swept, unbooked, faults, store, alive, space, at>>

Settled   == {"succeeded", "failed", "discarded"}
JobStatus == {"none", "queued", "running"} \cup Settled
Absent    == -1                  \* no row in the ledger

Free == [step |-> "free"]

\* turn: attempts as claimed; snap: the store as exported; todo: records still to be
\* written, or the merged set; stage, purpose and seen: the booking and the row as read;
\* missing: zero rows still to be booked; end: how the job will end.
Task == [step : {"guard", "export", "extract", "write", "review", "merge", "replace",
                 "rollback", "zero", "finish", "look", "book"},
         job : Job, turn : Nat, snap : SUBSET Slug, todo : SUBSET Slug,
         stage : Stage, purpose : {"call", "skip", "zero"}, seen : Nat, missing : SUBSET Stage,
         end : Settled \cup {"queued"}]

\* Rows, ledger and workers hold values of their kinds (memory_jobs, memory_usage).
JobsTypeOK ==
    /\ job \in [Job -> [status : JobStatus, attempts : Nat]]
    /\ ledger \in [Job -> [Stage -> Nat \cup {Absent}]] /\ called \in [Job -> [Stage -> Nat]]
    /\ swept \in [Job -> Nat] /\ unbooked \in [Job -> SUBSET Stage] /\ faults \in 0..MaxFault
    /\ store \subseteq Slug /\ alive \in BOOLEAN /\ space \in BOOLEAN
    /\ at \in [Worker -> Task \cup {Free}]

JobsInit ==
    /\ job = [j \in Job |-> [status |-> "none", attempts |-> 0]]
    /\ ledger = [j \in Job |-> [g \in Stage |-> Absent]]
    /\ called = [j \in Job |-> [g \in Stage |-> 0]]
    /\ swept = [j \in Job |-> 0] /\ unbooked = [j \in Job |-> {}] /\ faults = 0
    /\ store = {} /\ alive = TRUE /\ space = TRUE
    /\ at = [w \in Worker |-> Free]

--------------------------------------------------------------------------------
(* The outbox. *)

\* Written by the transaction that ends the run, whatever became of the conversation.
enqueue(j) ==
    /\ job[j].status = "none"
    /\ job' = [job EXCEPT ![j].status = "queued"]
    /\ UNCHANGED <<ledger, called, swept, unbooked, faults, store, alive, space, at>>

claim(w, j) ==
    /\ at[w] = Free /\ job[j].status = "queued"
    /\ job' = [job EXCEPT ![j] = [status |-> "running", attempts |-> @.attempts + 1]]
    /\ at' = [at EXCEPT ![w] =
         [step |-> "guard", job |-> j, turn |-> job[j].attempts + 1, snap |-> {}, todo |-> {},
          stage |-> "extractor", purpose |-> "call", seen |-> 0, missing |-> {},
          end |-> "succeeded"]]
    /\ UNCHANGED <<ledger, called, swept, unbooked, faults, store, alive, space>>

\* Mutant: a job on its last attempt is not taken back.
requeue_untried(j) ==
    /\ job[j].status = "running" /\ job[j].attempts < MaxAttempt
    /\ (\E w \in Worker : at[w] # Free /\ at[w].job = j) => swept[j] < MaxSweep
    /\ job' = [job EXCEPT ![j].status = "queued"]
    /\ swept' = [swept EXCEPT ![j] = @ + 1]
    /\ UNCHANGED <<ledger, called, unbooked, faults, store, alive, space, at>>

\* Nothing tells the sweep whether the worker that claimed the job is alive: at a start
\* it takes every running job, later those that have run for too long.
requeue_stale(j) ==
    /\ job[j].status = "running"
    /\ (\E w \in Worker : at[w] # Free /\ at[w].job = j) => swept[j] < MaxSweep
    /\ job' = [job EXCEPT ![j].status = "queued"]
    /\ swept' = [swept EXCEPT ![j] = @ + 1]
    /\ UNCHANGED <<ledger, called, unbooked, faults, store, alive, space, at>>

\* complete, discard, fail and requeue: only a running row is touched.
_finish(j, status) ==
    job' = IF job[j].status = "running" THEN [job EXCEPT ![j].status = status] ELSE job

--------------------------------------------------------------------------------
(* One worker: run_once. *)

Go(w, task) == at' = [at EXCEPT ![w] = task]

\* Mutant: one attempt more than the limit.
Retries(turn) == turn <= MaxAttempt

MayRetry(turn) == turn < MaxAttempt

\* Nothing but the verdict is left to do; stages that were not reached get their zero
\* rows first.
Ending(x, reached) ==
    [x EXCEPT !.step = IF reached THEN "finish" ELSE "zero", !.snap = {}, !.todo = {},
              !.stage = "extractor", !.purpose = IF reached THEN "call" ELSE "zero", !.missing = {}]

\* The except branch.
Excepted(x) == [x EXCEPT !.end = IF MayRetry(x.turn) THEN "queued" ELSE "failed"]

Failing(x, reached) == Excepted(Ending(x, reached))

guard(w) ==
    LET x == at[w] IN
    /\ x.step = "guard"
    /\ \/ alive /\ Go(w, [x EXCEPT !.step = "export"])
       \/ ~ alive /\ Go(w, [Ending(x, FALSE) EXCEPT !.end = "discarded"])
    /\ UNCHANGED <<job, ledger, called, swept, unbooked, faults, store, alive, space>>

\* Too few records to merge: a row that says so.
Reviewed(x) ==
    IF Cardinality(store) >= MergeAt
    THEN [x EXCEPT !.step = "merge", !.snap = store]
    ELSE [x EXCEPT !.step = "look", !.stage = "consolidator", !.purpose = "skip"]

\* A workspace that is gone is an error, and is not created again.
export(w) ==
    LET x == at[w] IN
    /\ \/ x.step = "export" /\ space /\ Go(w, [x EXCEPT !.step = "extract", !.snap = store])
       \/ x.step = "review" /\ space /\ Go(w, Reviewed(x))
       \/ x.step \in {"export", "review"} /\ ~ space /\ Go(w, Failing(x, FALSE))
    /\ UNCHANGED <<job, ledger, called, swept, unbooked, faults, store, alive, space>>

\* A model call; its usage is booked whether it succeeded or not.
CallModel(w, stage, found) ==
    /\ called' = [called EXCEPT ![at[w].job][stage] = @ + 1]
    /\ Go(w, [at[w] EXCEPT !.step = "look", !.stage = stage, !.purpose = "call", !.todo = found])
    /\ UNCHANGED <<job, ledger, swept, unbooked, faults, store, alive, space>>

\* Candidates with the slug of a record that exists are refused as duplicates.
Admitted(found, snap) == found \ snap

extract(w, found) ==
    at[w].step = "extract" /\ CallModel(w, "extractor", Admitted(found, at[w].snap))

\* The merged set is not empty and not larger than what was merged.
Valid(merged, snap) == merged # {} /\ Cardinality(merged) <= Cardinality(snap)

consolidate(w, merged) ==
    at[w].step = "merge" /\ Valid(merged, at[w].snap) /\ CallModel(w, "consolidator", merged)

\* _record_usage: the row is read ...
usage_for_run(w) ==
    LET x == at[w] IN
    /\ x.step = "look"
    /\ Go(w, [x EXCEPT !.step = "book",
                       !.seen = IF ledger[x.job][x.stage] = Absent THEN 0 ELSE ledger[x.job][x.stage]])
    /\ UNCHANGED <<job, ledger, called, swept, unbooked, faults, store, alive, space>>

\* Mutant: the row of an earlier attempt is replaced.
BookedAlone(x) == IF x.purpose = "call" THEN 1 ELSE 0

\* A stage that made no call adds nothing.
Booked(x) == x.seen + (IF x.purpose = "call" THEN 1 ELSE 0)

Continue(x) ==
    CASE x.stage = "extractor"                          -> [x EXCEPT !.step = "write", !.snap = {}]
      [] x.stage = "consolidator" /\ x.todo = x.snap -> Ending(x, TRUE)
      [] x.stage = "consolidator" /\ x.todo # x.snap -> [x EXCEPT !.step = "replace"]

\* The loop over the stages without a row: the next one, in order.
NextZero(x) ==
    CASE "extractor" \in x.missing ->
            [x EXCEPT !.step = "look", !.stage = "extractor", !.missing = @ \ {"extractor"}]
      [] x.missing = {"consolidator"} ->
            [x EXCEPT !.step = "look", !.stage = "consolidator", !.missing = {}]
      [] x.missing = {} -> [x EXCEPT !.step = "finish", !.stage = "extractor"]

\* ... and written; the call that was booked may have been one that failed.
record_usage(w, failed) ==
    LET x == [at[w] EXCEPT !.seen = 0] IN
    /\ at[w].step = "book"
    /\ ledger' = [ledger EXCEPT ![x.job][x.stage] = Booked(at[w])]
    /\ \/ x.purpose = "call" /\ failed /\ Go(w, Failing(x, x.stage = "consolidator"))
       \/ x.purpose = "call" /\ ~ failed /\ Go(w, Continue(x))
       \/ x.purpose = "skip" /\ Go(w, Ending(x, TRUE))
       \/ x.purpose = "zero" /\ Go(w, NextZero(x))
    /\ UNCHANGED <<job, called, swept, unbooked, faults, store, alive, space>>

\* The rows there are.
_ensure_zero_usage(w) ==
    LET x == at[w] IN
    /\ x.step = "zero"
    /\ Go(w, NextZero([x EXCEPT !.missing = {g \in Stage : ledger[x.job][g] = Absent}]))
    /\ UNCHANGED <<job, ledger, called, swept, unbooked, faults, store, alive, space>>

\* What a booking that fails leaves without a row.
Unbooked(x) ==
    IF x.step = "zero" THEN {g \in Stage : ledger[x.job][g] = Absent}
                       ELSE {x.stage} \cup x.missing

\* A row cannot be read or written.  That a zero row was not written is logged and no
\* more, except of a conversation that is gone: there it is a failed attempt.
BookingFails(w) ==
    LET x == at[w] IN
    /\ x.step \in {"zero", "look", "book"} /\ faults < MaxFault
    /\ faults' = faults + 1
    /\ unbooked' = [unbooked EXCEPT ![x.job] = @ \cup Unbooked(x)]
    /\ Go(w, IF x.purpose = "zero" /\ x.end # "discarded"
             THEN NextZero([x EXCEPT !.missing = {}])
             ELSE Failing(x, x.purpose # "zero" /\ x.stage = "consolidator"))
    /\ UNCHANGED <<job, ledger, called, swept, store, alive, space>>

\* A full store ends the job as succeeded.
write(w) ==
    LET x == at[w] IN
    /\ x.step = "write"
    /\ \/ x.todo = {} /\ Go(w, [x EXCEPT !.step = "review"]) /\ UNCHANGED store
       \/ /\ x.todo # {} /\ UNCHANGED store
          /\ Go(w, IF space THEN Ending(x, FALSE) ELSE Failing(x, FALSE))
       \/ \E s \in x.todo :
            space /\ store' = store \cup {s} /\ Go(w, [x EXCEPT !.todo = @ \ {s}])
    /\ UNCHANGED <<job, ledger, called, swept, unbooked, faults, alive, space>>

\* The store compares its version with the one the worker exported.
_version(x) == space /\ store = x.snap

\* Replaced, a conflict, a merged set that does not fit, or a workspace that is gone.
replace(w) ==
    LET x == at[w] IN
    /\ x.step = "replace"
    /\ \/ _version(x) /\ store' = x.todo /\ Go(w, Ending(x, TRUE))
       \/ space /\ ~ _version(x) /\ UNCHANGED store /\ Go(w, Failing(x, TRUE))
       \/ space /\ UNCHANGED store /\ Go(w, [x EXCEPT !.step = "rollback"])
       \/ ~ space /\ UNCHANGED store /\ Go(w, Excepted([x EXCEPT !.step = "rollback"]))
    /\ UNCHANGED <<job, ledger, called, swept, unbooked, faults, alive, space>>

\* Mutant: the old records are put back without a look at the version.
RollbackTo(x) == x.snap

RolledBack(x) == IF _version(x) THEN x.snap ELSE store

\* After a rollback the first error decides: a store that was full ends the job as
\* succeeded.  A rollback that is refused is an error of its own.
rollback(w) ==
    LET x == at[w] IN
    /\ x.step = "rollback" /\ store' = RolledBack(x)
    /\ Go(w, IF _version(x) THEN Ending(x, x.end # "succeeded") ELSE Failing(x, TRUE))
    /\ UNCHANGED <<job, ledger, called, swept, unbooked, faults, alive, space>>

\* What a call of the store would have made of it.
Changes(x) ==
    CASE x.step = "write" /\ space           -> {store \cup {s} : s \in x.todo}
      [] x.step = "replace" /\ _version(x) -> {x.todo}
      [] OTHER                             -> {}

\* A call of the guard or the store fails, or its answer is lost after the store changed.
\* The stage it is in decides what is done about it.
CallFails(w) ==
    LET x == at[w] IN
    /\ x.step \in {"guard", "export", "review", "write", "replace", "rollback"}
    /\ x.step = "write" => x.todo # {}
    /\ faults < MaxFault /\ faults' = faults + 1
    /\ store' \in {store} \cup Changes(x)
    /\ Go(w, IF x.step = "replace"
             THEN Excepted([x EXCEPT !.step = "rollback"])
             ELSE Failing(x, x.step = "rollback"))
    /\ UNCHANGED <<job, ledger, called, swept, unbooked, alive, space>>

finish(w) ==
    /\ at[w].step = "finish"
    /\ _finish(at[w].job, at[w].end)
    /\ Go(w, Free)
    /\ UNCHANGED <<ledger, called, swept, unbooked, faults, store, alive, space>>

\* A verdict that is written within the try and fails is a failed attempt.
VerdictFails(w) ==
    LET x == at[w] IN
    /\ x.step = "finish" /\ faults < MaxFault
    /\ x.end = "discarded" \/ (x.end = "succeeded" /\ x.purpose # "zero")
    /\ faults' = faults + 1
    /\ Go(w, Failing(x, x.end = "succeeded"))
    /\ UNCHANGED <<job, ledger, called, swept, unbooked, store, alive, space>>

\* The process dies and another one starts in its place, or a verdict outside of the try
\* fails: the job is left as running.
Crash(w) ==
    /\ at[w] # Free /\ faults < MaxFault
    /\ faults' = faults + 1
    /\ Go(w, Free)
    /\ UNCHANGED <<job, ledger, called, swept, unbooked, store, alive, space>>

--------------------------------------------------------------------------------
(* The user. *)

delete_memory(s) ==
    /\ alive /\ s \in store
    /\ store' = store \ {s}
    /\ UNCHANGED <<job, ledger, called, swept, unbooked, faults, alive, space, at>>

delete_thread ==
    /\ alive
    /\ alive' = FALSE
    /\ UNCHANGED <<job, ledger, called, swept, unbooked, faults, store, space, at>>

\* The purge that follows, through the broker.
destroy ==
    /\ ~ alive /\ space
    /\ space' = FALSE /\ store' = {}
    /\ UNCHANGED <<job, ledger, called, swept, unbooked, faults, alive, at>>

--------------------------------------------------------------------------------
Step(w) ==
    \/ guard(w) \/ export(w) \/ usage_for_run(w) \/ write(w) \/ replace(w)
    \/ rollback(w) \/ _ensure_zero_usage(w) \/ finish(w)
    \/ \E found \in Reply["extractor"] : extract(w, found)
    \/ \E merged \in Reply["consolidator"] : consolidate(w, merged)
    \/ \E failed \in BOOLEAN : record_usage(w, failed)

Fault(w) == CallFails(w) \/ BookingFails(w) \/ VerdictFails(w) \/ Crash(w)

JobsNext ==
    \/ \E j \in Job : enqueue(j) \/ requeue_stale(j)
    \/ \E w \in Worker, j \in Job : claim(w, j)
    \/ \E w \in Worker : Step(w) \/ Fault(w)
    \/ \E s \in Deletable : delete_memory(s)
    \/ delete_thread \/ destroy

\* The loop of each worker polls for jobs, works on and sweeps for ever (MemoryWorkerLoop).
JobsFairness ==
    /\ \A w \in Worker : WF_jobVars(Step(w) \/ \E j \in Job : claim(w, j))
    /\ \A j \in Job : WF_jobVars(requeue_stale(j))

JobsSpec == JobsInit /\ [][JobsNext]_jobVars /\ JobsFairness

--------------------------------------------------------------------------------
Holds(w, j) == at[w] # Free /\ at[w].job = j

\* A verdict is final, also when a worker that was taken for dead comes back with
\* another one (_finish in app/memory/job.py).
VerdictIsFinal == [][
    \A j \in Job : job[j].status \in Settled => job'[j] = job[j]
    ]_jobVars

\* A job is worked on by two workers, and claimed more often than the limit says, only as
\* often as the sweep took it from somebody (claim, requeue, requeue_stale).
AttemptsAccounted == \A j \in Job :
    /\ job[j].attempts <= MaxAttempt + swept[j]
    /\ Cardinality({w \in Worker : Holds(w, j)}) <= 1 + swept[j]

\* The ledger never counts a call twice, and counts every call of a job that was never
\* swept once its worker has booked it, unless a booking failed (_record_usage,
\* record_usage).
LedgerExact == \A j \in Job, g \in Stage :
    LET booked == IF ledger[j][g] = Absent THEN 0 ELSE ledger[j][g]
        due    == Cardinality({w \in Worker : Holds(w, j) /\ at[w].stage = g
                                              /\ at[w].step \in {"look", "book"}
                                              /\ at[w].purpose = "call"})
    IN  /\ booked + due <= called[j][g]
        /\ swept[j] = 0 /\ g \notin unbooked[j] /\ (\E w \in Worker : Holds(w, j)) =>
                booked + due = called[j][g]

\* A settled job has a row for each stage, so that a skipped stage is not taken for a
\* missing one, but for the stages of which a booking failed (_ensure_zero_usage).
SettledIsAccounted == \A j \in Job :
    job[j].status \in Settled => \A g \in Stage : ledger[j][g] # Absent \/ g \in unbooked[j]

\* Merging replaces the records it read and no others: what the user deleted meanwhile
\* stays deleted, also in the rollback after a lost answer (_replace_with_rollback).
MergeRespectsUser == [][
    \A w \in Worker :
        at[w] # Free /\ at[w].step \in {"replace", "rollback"} /\ at'[w] # at[w] =>
            store' = store \/ store = at[w].snap
    ]_jobVars

\* The table of jobs is well formed, its attempts and its usage rows are accounted for
\* (memory_jobs and memory_usages in app/memory/job.py).
JobsInv == JobsTypeOK /\ AttemptsAccounted /\ SettledIsAccounted

\* A worker that was overtaken, by another worker or by the user, undoes nothing
\* (_finish, _replace_with_rollback).
OvertakenUndoNothing == VerdictIsFinal /\ MergeRespectsUser

\* Every job ends, whatever fails, as long as crashes and sweeps do (MemoryWorkerLoop).
JobsSettle == \A j \in Job : job[j].status = "queued" ~> job[j].status \in Settled

================================================================================
