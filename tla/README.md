# FinAgentPlatform: a TLA+ model

FinAgentPlatform lets teachers put questions to an LLM agent that works in a
sandbox. A question is a *run* of a *thread* (conversation). Several processes carry
it out: the FastAPI **api**, one or more **workers** (LangGraph), the **broker** that owns
Docker containers and files, and **cron** jobs; they share Postgres and Redis and nothing
else. What is hard in this code lies between those processes: who may end a run, what a
crash between two stores leaves behind, which of two timers wins, what a request read
before somebody else wrote. This directory models that, checks it with TLC on small
instances and proves the safety properties with TLAPS for all instances. Paths below
are relative to `src/src/app`.

## 1. Inventory

| Component | State | Operations | Interacts with | Correct when |
|---|---|---|---|---|
| Run repository (`run/repository.py`) | `runs.status`, `started_at` | conditional updates `start`, `succeed`, `fail`, `cancel`, `wait_approval`, `resume`; `create`, `unfinished` | everybody | a terminal row never changes; one caller wins |
| Task queue (`task/queue.py`) | Redis stream, consumer group, pending list, `_held` per process | `publish`, `reserve`, `touch`, `ack`, `in_flight` | api → worker, reaper | an unfinished run is carried by a message; one process drives a message once |
| Worker, executor (`worker/`, `run/executor.py`) | slots, heartbeats, one delivery each, the checkpoint | reserve, `_drive`, `_consume`, `_suspend`, `_stop`, `_fail`, ack | repository, log, broker | status first, event only for the winner, ack last |
| Event log (`run/{log,archive,replay}.py`, `api/sse.py`) | Redis stream per run, archive table | `append`, `record`, `follow`, `read`, `collapse`, retention | workers, api, crons → browsers | one terminal event; followers miss nothing unexplained and end |
| Run api (`api/route/{run,thread}.py`, `run/submitter.py`) | request in progress, cancel flag | submit, cancel, approve, delete | repository, queue, log | nothing is lost between two stores |
| Crons of a run (`run/{reaper,approval}.py`) | list of suspects | `orphaned`, `sweep` | repository, queue, log | every run ends; only orphans are failed |
| Sandbox pool (`sandbox/pool.py`) | `_slot`, `_queue`, `_reserved`, `_lock` | `acquire`, `release`, `discard`, `sweep`, `_pump`, `reclaim`, `aclose` | broker routes, Docker | never more than `max_container`; no place given twice |
| Threads (`thread/`) | rows, titles, purge jobs | create, rename, compose a title, soft delete, purge | broker, submissions | database and broker agree; deletion completes |
| Broker (`broker/`, `sandbox/{workspace,remote}.py`) | thread locks, directories, tool results | file, tool, skill and life-cycle routes | api, workers | no work in a directory that goes away; a retried call runs once |
| Quota and rates (`quota/`) | counts in Postgres, windows in Redis | three admission checks, `allow` | api | limits are exceeded only by what raced |
| Memory files (`memory/store.py`) | a directory with stage, backup and markers | replace, recover | broker | a reader finds the old set or the new one |
| Memory jobs (`memory/{job,worker}.py`) | job rows, usage rows | claim, extract, book, merge, roll back, finish, sweep | Postgres, broker | each job is settled once, and booked exactly |
| Agents, skills (`preset/`) | rows, versions, reviews, files of skills | draft, release, share, review, catalogue, resolve | api, broker, submissions | what is published stays; what a run gets fits together |
| MCP directory (`preset/mcp.py`, `agent/{mcp,circuit}.py`) | rows, failure counters | apply, decide, toggle, load, call, probe | api, workers | no writer gets in; a failing server goes out |
| Accounts, groups (`user/`, `auth/`, `group/`) | rows, sessions, rosters, join requests | bootstrap, register, login, administrate, apply, decide | api | sessions speak for accounts somebody vouched for |
| Agent factory, event mapper (`agent/factory.py`, `event/mapper.py`) | — | build the graph, translate its chunks | executor | — |
| Evaluation scripts (`src/script/eval`), web front end (`src/web`) | — | — | api | — |

The hard behaviours, each listed with its line under `hazards` in `PROJECT.json`:
a store written and a process killed before the next one; redelivery of a message
whose effects are partly there; two crons reading several stores that move; an answer
racing a timeout; a value read, an await, and a write that relies on it; a request
cancelled while it waits for a lock or for a thread that cannot be cancelled; a reader
that switches between two stores one of which is ahead; recovery that is itself killed.

## 2. Modules

An action is one database transaction, one Redis round trip, one call to the broker, or
what a coroutine does between two awaits, whichever is the unit others can interleave
with. Operators marked *Mutant* are plausible bugs, used to test that each property can
fail; nothing else refers to them.

**Run life cycle**

| Module | Code | State and actions |
|---|---|---|
| `Platform` | — | constants and their assumption |
| `RunRepository` | `run/repository.py`, `approval.expired` | `status`, and `age` (`started_at` as the thresholds the crons compare it with). One operator per update, all conditional as in `_transit_from` |
| `TaskQueue` | `task/queue.py` | `stream`, `delivered`, `pending` (Redis), `held` (`_held`), `grouped` (the consumer group exists). The three reads of `in_flight` are three operators because another process may act between them |
| `EventLog` | `run/log.py`, `event/model.py` | `log[r]`; only what the properties tell apart: the type, `resumed`, the interrupt's number |
| `RunSignals` | `run/cancel.py`, `ThreadRepository.delete/active` | `flag`, deleted threads |
| `RunExecutor` | `worker/*`, `run/executor.py` | per slot: `pc`, message, decoded task, start mode, steps, interrupt read by `inspect`, heartbeat. **One action per await** of a delivery, with its failure (`Hiccup`), the heartbeat's (`BeatStops`) and the process's (`Crash`). A chunk of the graph is a step boundary (`updates`), where the cancel flag is read, or one whose events are appended without a look at it. Of LangGraph: per conversation the number of interrupts raised, the open one, and how often a question entered the checkpoint |
| `RunApi` | `api/route/{run,thread}.py`, `run/submitter.py` | per request what it still has to do; a request can be dropped between any two stores |
| `RunCron` | `run/{reaper,approval}.py` | each read and write of both sweeps; a cron can die in mid-pass |
| `RunSystem` | composition | `Next`, fairness, properties, refinement mapping |
| `RunContract` | abstract specification | the state machine of a status and "at most one terminal event, of the written status, after it was written" |

**Events as the browser gets them.** `EventFeed` models one run's events from XADD to the
page: events are numbered in the order of the Stream; of each its type and path (which agent
speaks) are kept, since the replay joins pieces of one path only; `Stream` is what trimming
and the TTL left of it, `table` the archive, `writing` the appends between XADD and
`record`. Per page: the place in `follow` or `read`, the cursor, what is being sent, what
was seen. Trimming is exact as in the code; `record` may fail or come out of order;
retention deletes from the archive in batches of any order; a page reconnects with its
`Last-Event-ID`, reloads, or replays.

**Sandboxes.** `SandboxPool` models `sandbox/pool.py` as the broker's routes drive it. All of it
runs on one event loop. `slot`, `holder`, `queue`, `reserved` and `lockq` (the FIFO of
`asyncio.Lock`) are the code's attributes; `granted` are the waiters whose future `_pump` has
resolved, `cancelled` those whose task has been told to stop but has not run yet, `tlock` the
per-thread locks of `ThreadOperationLocks`, `stray` counts containers that run without being
registered. `last_used` is left out: any idle container may be the victim. `Prompt` states
the one scheduling fact of asyncio the model uses: a cancelled task runs within one turn of
the loop, so it may lose a race against a coroutine that is about to continue, not against
one that has yet to start and await something.

**Conversations**

| Module | Code | State and actions |
|---|---|---|
| `Threads` | `thread/repository.py`, `thread/reaper.py`, `api/route/thread.py`, `Workspace.path/destroy` | rows, titles, purge jobs, directories, the containers the pool knows (`boxes`) and those it has lost (`strays`: docker rm failed, or the caller of docker run went away), the lock of each thread; creation with its compensation, soft delete, destruction by the request or the cron. `at[a]` is where a request or the cron stands |
| `Submissions` | `quota/{usage,policy}.py`, `run/submitter.py`, `thread/title.py`, executor and `remote.acquire` as far as they touch a thread | the three admission checks one by one, the row, the title, the run's state and its container; a start whose caller goes away (`AbandonStart`) may still mount, and make the directory anew (`MountLate`; `late`, `revived`) |
| `ToolCalls` | `broker/cache.py`, `_once`, `sandbox/remote.py` | one tool call and its retries: sent, looked up, running, remembered; Redis may fail at either end, the caller may hang up |
| `FileRequests` | `api/route/file.py`, `sandbox/{remote,workspace}.py` | uploads, deletions and views under the thread's lock |
| `Workbench` | composition | what a directory holds goes with it; properties and fairness |

**Memory.** `MemoryFiles` is `_replace_files` and `_recover_transaction_artifacts`, one action per
file system call that a kill can separate from the next; `active`, `stage` and `backup` are the
three directories, `kept`, `promoting`, `committed` the markers. `MemoryJobs` is the worker: what it
holds in memory between two calls is `at[w]`; `ledger` are the usage rows, `called` counts the
model calls really made, `swept` how often the sweep took a job away, `unbooked` the stages of
which a booking failed. A call of the broker may fail before or after its effect; a statement
that fails has had none.

**Catalogues.** `PresetTable` (rows and versions of agents and skills, which are written by
the same code twice), `ReviewQueue` (`reviews`), `AgentCatalog` (drafts that load in one
step and store in another, resolution of references), `SkillCatalog` (the same for skills,
and the broker's files), `Membership` (groups; a path may spell the id of a user in several
ways, and the owner can be taken off his roster by one the route does not recognise),
composed in `Catalog` with a submission that resolves agent, skills and subagents one
transaction after the other. `McpDirectory` composes `ReviewQueue` with the directory of MCP
servers, the circuit breaker and the runs that load servers.

**Access.** `Accounts` (bootstrap, registration, login, sessions, administration), `RateGate` (the
sliding window, whose entries expire one by one), `Membership`; composed in `Access`.

Proofs: `RunProofs` about `RunSystem`, `FeedProofs` about `EventFeed`, `PoolProofs`,
`MemoryProofs` (files and jobs), `WorkbenchProofs`, `AccessProofs`, `McpProofs`,
`CatalogProofs`; section 4. The `MC*` modules
give constants their values and state the constraints of section 3.

## 3. Runs

| Run | Bounds | Properties |
|---|---|---|
| `RunCrash` | 1 run, 2 workers, 1 kill, 1 interrupt, 1 step per delivery | `TypeOK`, `OneVerdict`, `CarriedUnlessFault`, `AskedPerFault`, `FreshUnlessFault`, `ContractSpec` |
| `RunCron` | 1 run, 1 worker, 1 failed call, 2 steps, 1 token, time passes both thresholds | `OneDebtor`, `OrphansHaveNoMessage`, `CancelIsPrompt` |
| `RunPair` | 2 runs of one thread, 1 worker with 2 slots, 1 failed call | `HeldOnce`, `CancelledForAReason` |
| `RunLive` | 1 run, fresh deployment, 1 fault, time passes | `EveryRunEnds` |
| `PoolSafe` | 4 requests, 3 threads, 2 places, one impatient request, one deletable thread, one mortal container | `PoolTypeOK`, `Capacity`, `GrantsAreBacked`, `NoOverwrite`, `BusyKept` |
| `FeedSafe` | 3 events (two tokens of one speaker and one of another; any of them the terminal one), 2 writers, a Stream of 2, 2 faults, 1 page | `FeedInv`, `SkippedIsExplained`, `FollowersEnd` |
| `CatalogSafe` | 2 agents (one with two versions), 1 skill with two, 3 edits, 1 review, 1 group, 1 submission | `CatalogInv`, `FilesUnlessLost`, `ResolvedFits`, `PublishedStands` |
| `McpSafe` | 2 servers, 2 tools, threshold 2, 3 requests of administrators, 1 run, 1 probe | `DirectoryInv`, `TripsAreKept` |
| `FilesSafe` | 3 files, 2 contents, every set of files; any number of failures and kills | `FilesSound`, `AtomicUnlessRestoreCut` |
| `JobsAll` | 1 job, 2 workers, 2 records (one the user deletes), 2 attempts, 1 sweep too many, 1 fault | `JobsInv`, `LedgerExact`, `OvertakenUndoNothing`, `JobsSettle` |
| `AccessSafe` | 2 users, 1 group, 2 join requests, 2 logins, limit 1, 2 replicas | `AccessInv`, `SessionMatchesUnlessChanged`, `BootstrapOnlyOnce` |
| `ThreadSafe` | 1 conversation, 2 requests and the cron, 2 attempts of a call, 1 fault, limits of 1 | `WorkbenchInv`, `OverQuotaOnlyIfRaced`, `RunsOnce`, `TypedTitleStands`, `PurgeCompletes` |

Why these bounds are enough. One run, job or conversation suffices where the property speaks
of one, since rows, logs, flags, directories and locks are per run, job or conversation;
what two of them share is `RunPair`'s, `PoolSafe`'s and `CatalogSafe`'s business. One kill
reaches every await; the second worker (or the restarted one) then finds what it left. A
race needs two requests; a third party is the cron. A Stream of two with three events is
trimmed past a reader both while it reads and while it waits. Three files are the least that
let a kill fall between two of several moves. Named bounds: `MaxCrash`, `MaxHiccup`,
`MaxAge`, `MaxAsk`, `RecursionLimit`, `MaxToken`; `MaxStray`, `Impatient`, `Deletable`,
`Mortal`; `MaxWriter`, `MaxFault`; `Bound`, `MaxJoin`; `MaxFailure`; `MaxAttempt`,
`MaxSweep`, and the replies of the models. Three runs have a state constraint, which leaves
out what none of their properties looks at: tokens of runs nobody cancels (`TokensMatter`,
`RunCron`), a midnight in behaviours that also have a fault or a tool call (`QuietMidnight`,
`ThreadSafe`: only the token quota sees the date), and an owner who applies to join his own
group (`OnlyOthersApply`, `AccessSafe`). The proofs have none of these bounds.
`CHECK_DEADLOCK FALSE` where the system may stop: when all has been done, or when a bound is
spent. Symmetry is used only in runs without liveness.

What they show:

* **`OneVerdict`, `OneDebtor`, `ContractSpec`**: worker, api, reaper and approval sweeper
  may all try to end a run; the conditional update has one winner, only the winner
  publishes, and together they implement `RunContract`.
* **`CarriedUnlessFault`**: kills alone never orphan a run, wherever they happen. A failed
  store call outside the executor's `try` block does; then the reaper is needed.
* **`EveryRunEnds`**: with that fault, a dropped request or a killed cron, every run still
  ends.
* **`AskedPerFault`, `FreshUnlessFault`**: a question enters the conversation again only
  when a fault made Redis redeliver the first task, and an approved run looks new only then.
* **`OrphansHaveNoMessage`**: the reaper's three queue reads are not atomic, yet the order
  (last-delivered-id first) makes them safe.
* **`CancelIsPrompt`**: after the cancellation is announced a handler reports at most one
  more graph step, the one it had already checked the flag for. The flag is read at
  `updates` chunks only: tokens of the model call that is running follow without a bound, as
  `cancel_run` says.
* **`HeldOnce`**, **`CancelledForAReason`**: `_held` keeps a process from claiming its own
  message, and runs of one conversation do not cancel one another.
* **`Capacity`, `GrantsAreBacked`**: registered containers, promised places and the one
  being filled stay within `max_container`, and no place is handed back twice, whatever
  timeout or disconnection races the promise. **`NoOverwrite`**: the second critical section
  of `acquire` does not look again whether the thread has a container; thanks to the
  broker's per-thread lock it need not. **`BusyKept`**: room is never made at the expense of
  a container in use.
* **`FeedInv`**: archive and Stream overlap, writers finish out of order, pages reconnect;
  still every event is sent once and in order, and `collapse` loses no text and joins
  exactly the neighbouring pieces of one kind and one path: what subagents say in parallel
  stays apart.
* **`SkippedIsExplained`**: an event a page went past unseen had left the Stream unarchived,
  was purged, was trimmed ahead of a slow follower (`overrun`: `follow` never goes back to
  the archive), or was overtaken in the archive (`slipped`): the reader found no Stream, and
  by the time it read the archive a later event was there and this one, in the Stream by
  then, was not. Both are real, and kept apart so that neither excuses anything else;
  section 5.
* **`FollowersEnd`**: the connection to a run that is over closes as long as its end can be
  told (`Closable`). What `Closable` leaves out is real too: section 5.
* **`CatalogInv`, `FilesUnlessLost`, `ResolvedFits`, `PublishedStands`**: only released
  versions are submitted; a released skill lacks its files only when the upload's second
  half is on its way or was lost; the skills of a run fit into one directory and its
  subagents are flat, although they are resolved one transaction after another; and a
  release changes only by a request that loaded it as a draft.
* **`DirectoryInv`, `TripsAreKept`**: servers that write stay out however two administrators
  interleave, the trail never contradicts the outcome, mounted tools never shadow one
  another, and a counter at the threshold takes the server out before its caller goes on.
* **`FilesSound`, `AtomicUnlessRestoreCut`**: a reader after any failure or kill finds the
  old set or the committed one, with the one exception named in section 5, and the next
  replacement can start.
* **`JobsInv`, `LedgerExact`, `OvertakenUndoNothing`, `JobsSettle`**: attempts and double
  work are bounded by the sweeps that caused them; usage is never booked twice and, without
  a sweep or a booking that failed, exactly; a settled job has a row for each stage but for
  bookings that failed; a verdict is final, and neither a merge nor its rollback touches
  what it did not read.
* **`AccessInv`, `SessionMatchesUnlessChanged`, `BootstrapOnlyOnce`**: sessions belong to
  accounts an administrator, the configuration or an invite code vouched for, and say what
  the login read; one open join request per user and group; the window exceeds its limit
  only by what was between its two round trips; replicas make one administrator.
* **`WorkbenchInv`**: every directory has a row or somebody who will remove it, unless its
  creation was cut short or docker made it anew; every container the pool knows has a
  directory, every visible conversation too, and no work runs in a directory that is gone,
  for late uploads and commands too. Of containers the pool has lost (`strays`) nothing is
  claimed. **`PurgeCompletes`**: a purge is noted as done in the end, whatever call or
  process failed; a `docker rm` that failed is not noticed by it.
  **`OverQuotaOnlyIfRaced`**, **`RunsOnce`**, **`TypedTitleStands`**: what exceeds the
  quota, runs twice or overwrites a typed title was let through by one of the windows of
  section 5 and nothing else.

Fairness. `RunLive`: weak fairness of each worker slot, of each request already accepted,
of both crons, of a worker's boot and of time: workers poll in an endless loop, compose
restarts them, crons run on a schedule. `FeedSafe`: weak fairness of what a request in
the api does next (Redis and Postgres answer, XREAD blocks for a bounded time). `JobsAll`: weak
fairness of each worker's next step, its claim and the sweep, the three things
`MemoryWorkerLoop` does for ever. `ThreadSafe`: weak fairness of the purge cron, of the destroying
call, and of whoever holds the thread's lock (a command runs into its time limit, a file
request ends). Users, faults, deaths and writers owe nothing anywhere.

## 4. Proofs

Every safety property of the runs, invariant or action property, is proved for all
instances, and so is the refinement `ContractSpec`.

Assumptions, all stated beside the constants and evaluated in every run: types and ranges;
names are distinct where the code has distinct kinds of ids (a run is not a thread or the
sweeper; "no file", "no row", "no bytes" are none of the values); the sets somebody counts
over are finite (`Worker` and `Slot`, whose deliveries are counted; `Token`, `Request`, the
workers of the memory; runs, threads, jobs and presets may be infinite); a pool has a
place, a window admits one request, a preset has room for a version, ids are either
agents or skills.

**`RunProofs`**, types and the task queue; each layer uses the ones before

* `TypeCorrect`: one lemma per kind of store access and one per process.
* `MessageHeldOnce`: `QueueInv` ties each busy slot to its message and to `held` of its
  process, and lets one slot at a time renew a message.
* `OrphansAreOrphans`: `ReapInv` dates the reaper's reads: what was delivered before the first
  can only leave the pending list, what was not is found in the stream. The theorem is
  `[](~FreshDeploy => OrphansHaveNoMessage)`: as long as no worker has ever created the consumer
  group, `in_flight` reads a missing group as an empty queue (`task/queue.py:268`) and the
  reaper may well suspect a run whose message nobody could take yet. That is the one
  hypothesis any of the theorems adds to its property, and the window is listed in section 5.
* `AskedOncePerFault`: `TaskInv` says a run's first task is published once; `CreditInv` keeps an
  account: questions asked, handlers that are about to ask, and a delivery that is still
  possible are together at most one more than the crashes and failed calls.
* `FreshStartsFirst`: `FreshInv` says what cannot have happened to a run while its first task is
  still to be announced.

**`RunProofs`**, how runs end

* `DebtorUnique`, `VerdictUnique`: `OneVerdict` is not inductive: a process that has written a
  terminal status and not yet appended could append a second event. `OneDebtor` says who
  may, and that nobody has before. Both speak of one run; every action changes one run
  in one of three ways (nothing that matters; a live run moves and, if it ends, somebody
  owes the event; the debtor pays), each a lemma, and the per-action steps only say which.
* `ContractImplemented`: `Spec => ContractSpec`; the same three ways are the contract's actions or
  its stutters under the refinement mapping.
* `CancellationsHaveReasons`: what a cancellation was read from is never taken back (`CauseInv`).
* `CancellationIsPrompt`: steps reported after the cancellation and handlers already past the
  flag check are together no more than the handlers (`PromptInv`).
* `RunsAreCarried`: `CarriedUnlessFault` is not inductive, since a pending message of a handler
  that is through with the run carries nothing. `CarryInv` says which handlers those are
  (`Left`); the delicate one stands between the two updates of `start()`.

**`FeedProofs`**

* What the operators compute. `InOrder` is a recursive function and `collapse` a fold, so
  what they return for every input takes induction and recursion over the natural numbers.
  The library's theorems for that have an operator as a parameter; here they are lemmas
  about sets and functions: `Induct` (the least number outside a set), `Chains` and
  `FoldExists` (the function a recursion defines). With them `InOrderSorted` says that
  `InOrder` lists a set once and in order, and `CollapseJoins` that `collapse` keeps the
  text and joins exactly the neighbours of one kind and one path.
* `FeedSendsOnce`, `PagesMissNothing`: `FeedIInv` follows a request through its places.
  `Kept`: what left the Stream is archived, purged or lost. `Settled`: between the cursor
  and what the request has read there is no gap but known ones; when an empty Stream was
  read, what the archive then lacks in front of its last event has left the Stream
  unarchived or is still in it (`slipped`); when a Stream was read, the archive has what is
  in front of it; and while a page follows, nothing leaves the Stream ahead of it unnoticed.

**`PoolProofs`**

* `PoolTypeCorrect`, `PoolCapacity`, `PoolGrants`: `PoolInv` adds to `Capacity` and
  `GrantsAreBacked` who is between the awaits of a critical section: the owner of `_lock`
  (`LockInv`, so at most one place is in the making); that a request on its way to redeem a
  place still has its promise (`PromiseInv`, so `_reserved` does not go negative); and that
  `_slot` is finite.
* `PoolNeverOverwrites`: `LeaseInv` says what the broker's lock of a conversation is worth:
  who is inside `acquire` holds it, nobody else does, and past the look the slot stays
  empty.
* `PoolKeepsBusy`: an action property, from `PoolInv`.

**`MemoryProofs`**

* `DirectoryIsSound`, `ReplacementIsAtomic`: `FilesInv` says how the markers exclude one another
  (`Marks`), that no file is both active and in the backup unless new ones are being
  promoted (`Separate`), and which markers exist at each point of a replacement or recovery
  (`Position`); that a step leaves what a reader finds alone is shown action by action.
* `JobsAccounted`: `HoldersSwept` and `ClaimsPaid` count who holds a job and who may still claim it
  against the sweeps; the worker that would queue a job again must be allowed to. `RowsThere` says
  which rows a worker has behind it at each step, so that `SettledIsAccounted` survives the verdict.
* `LedgerIsExact`: `Ledgers` adds to what is booked what each holder has read and is about to
  write: the row it rewrites is the sum it saw, which a sweep may have made stale.
* `OvertakenAreHarmless`: from the guards of the job's token and of the snapshot, by step.

**`WorkbenchProofs`**

* `ConversationsAgree`: the four statements of `WorkbenchInv` support one another, given who
  holds the thread's lock (`Locked`), that the pool forgets the container before the
  directory goes (`Emptied`) and which rows the deleting and undoing actors leave behind
  (`Condemned`).
* `CommandsRunOnce`, `QuotaHoldsUnlessRaced`, `TitlesStand`: `Lost`, `Room` (a request
  admitted on a count that still stands has room for its run) and `Composing`.

**`AccessProofs`**: `AccessInOrder`, `SessionsMatch`, `BootChangesNobody`. The window of the
rate limit counts those between its two round trips (`Window`); a session matches its
account from the moment the login reads the row, not only once it is issued
(`LoginMatches`).

**`McpProofs`**: `DirectoryInOrder`, `TrippedAreOut`. A verdict whose review is still to be
closed stands (`ClosingAgrees`), and a process that talks to servers is `Sound`.
`_unique_references` is a fold; what it returns is proved by unrolling it for the two picks
a submission makes here.

**`CatalogProofs`**: `CatalogInOrder`, `FilesFollow`, `ReferencesFit`, `PublicationsStand`.
A step writes one version at most, and one that was released stays released and is stained
if its text changes (`Writes`). So what was once true of a released version stays true of
it, and `GoodRefs` (different names; subagents `Flat` or stained) carries over from the read
of a submission or of an author's request to whenever the references are stored or used.
`EditsInv` says what a loaded request may rely on when it stores; `UploadsInv` is
`FilesUnlessLost` for drafts too, without which a release would break it.

Only model-checked: liveness (`EveryRunEnds`, `FollowersEnd`, `JobsSettle`,
`PurgeCompletes`), which rests on fairness and so on ENABLED, beyond the installed provers.

## 5. Where the code and what is said of it differ

Observed while modelling. The models behave as the code does; the properties above are
stated so that they allow exactly these windows, or speak of what they leave untouched.

* `run/approval.py:126`: the comment says the sweeper does nothing if the teacher has just
  confirmed; `cancel()` admits `queued` and `running` and cancels the approved run.
* `run/reaper.py:105`: a run suspended and acknowledged between the reaper's two reads is
  failed, since `fail()` admits `waiting_approval`; the docstring says nobody would touch it
  again.
* `run/executor.py:538`: killed between the status and its event, the worker leaves a run
  that nobody announces; `api/route/run.py:100` says its stream ends by itself.
* `api/route/run.py:208`: decisions are matched with the open interrupt by number only.
* `sandbox/pool.py:241,410`: a reservation is lost when its request is cancelled while it
  waits for `_lock` again, when `set_result` meets a cancelled future, or when the queue
  empties while `_pump` evicts; the comment at 242 says it is given back in any case.
* `sandbox/container.py:325-338`: a `docker rm` that fails or times out is logged only. The
  pool has forgotten the container, `destroy_thread` (`broker/route.py:223`) goes on to
  remove the directory under it, against its own "container first", and the purge is noted
  as done.
* `broker/route.py:661`: a client that disconnects during `docker run` frees the thread's
  lock while docker goes on; if the conversation is destroyed meanwhile, docker makes the
  mounted directory anew. `sandbox/pool.py:266` removes a container without a directory when
  the broker restarts.
* `sandbox/pool.py:387`: a client that disconnects during `docker run` leaves a container
  nobody registers; `reclaim` (line 270) adopts it after a restart, beyond `max_container`
  if need be.
* `memory/store.py:451-456`: a kill while the old files are put back under `.promoting`
  makes the next recovery wipe those already back. `AtomicUnlessRestoreCut` excepts this
  step by name.
* `run/log.py:171-180`: when the Stream is empty the archive is read to its end, in a second
  round trip. An event appended in between by one writer and archived late or never, next to
  a later one that is archived, is not in the answer, and `follow` goes on behind the later
  one: a silent gap, which the comments at 152 and 200 say cannot be.
* `run/log.py:215`: `follow` reads the Stream only; events trimmed ahead of a slow follower
  are skipped though archived. `run/log.py:250-256`: an event after the terminal one, or a
  terminal event that was neither archived nor kept, holds a later follower open for ever.
* `thread/title.py:67`: "looks again before it writes", but it looks before it asks the
  model.
* `preset/repository.py:340`: "a published version cannot be changed", but a draft loaded
  before the release and stored after it changes it. `preset/reference.py:70`: `mcp_refs`
  are not carried over.
* `auth/session.py:34`: roles are said to take effect at once; `require_admin` looks at the
  session, and a disabled account keeps its session.
* `quota/policy.py`: overrides are said to tighten only; `allow` takes them as they are.
* `api/route/thread.py:340`: the concurrency quota is counted before the row exists and not
  asked on approval. `quota/rate.py:38` counts and records in two round trips.
* `memory/worker.py:225-233,248-255`: a zero row that cannot be written is logged only, and
  the job settled or queued again, so a skipped stage may look like a missing booking after
  all.
* `memory/worker.py:345`: the usage row is read and written in two statements: two holders
  of a swept job may lose one addition.
* `api/route/group.py:166`: the owner's id is compared as text; another spelling of the UUID
  (with dashes, in upper case) passes, and `group/repository.py:223` takes the owner off his
  roster, which the docstring excludes.
* `memory/worker.py:470`: a worker that starts requeues the jobs of those that live;
  attempts then exceed their limit.
* `api/route/mcp.py:185`: a server is enabled before its counter is reset, so one failure in
  between takes it out again. `api/route/mcp.py:110`: an application can be decided before
  its review is filed, which then stays pending.
* `api/route/skill.py:140`: the row is committed before the files are saved.
* `sandbox/workspace.py:148`: a directory whose quota could not be set stays without one;
  `api/route/thread.py:73`: a lost answer to its creation leaves a directory without a row.
* `broker/cache.py:110`: results that are too large or that Redis refuses are not
  remembered, so the command may run again. `sandbox/workspace.py:288` protects `.memory`
  from removal, not `.skills`.
* `task/queue.py:268`: a missing consumer group is read as an empty queue, so on a
  deployment whose workers start late the reaper may fail queued runs.
  `run/executor.py:383`: if the event that the sandbox is ready fails, the sandbox is not
  released until the next release or sweep.

## 6. Not modelled, and the plan

Left out of the modelled components: token counters and configuration snapshots; trimming of
the task stream (it keeps ten thousand tasks); graceful shutdown of a worker; start-up and
shutdown of the broker (`reclaim`, `aclose`), and so the removal of stray containers; path
resolution, previews and listings; password hashing, expiry of sessions; recall of memories
within a run. Not worth modelling: schemas (`api/schema.py`), data translation (agent
factory, event mapper, prompts), listings and projections of rows, settings, telemetry, the
evaluation scripts, which are sequential clients of the api, and the front end. These make
up most of the lines the map does not name.

In order:

1. `SandboxPool`: restart of the broker and its composition with `RunExecutor`.
2. Trimming of the task stream and what `in_flight` then reads.
