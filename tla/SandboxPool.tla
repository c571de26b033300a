------------------------------ MODULE SandboxPool ------------------------------
(***************************************************************************)
(* The broker's pool of sandbox containers (app/sandbox/pool.py) as its    *)
(* HTTP routes drive it (app/broker/route.py): acquire streams that hold a *)
(* lock per conversation, releases, deletions of a conversation and the    *)
(* background sweeper.  All of it runs on one event loop, so a step is     *)
(* what a coroutine does between two awaits; asyncio.Lock is a FIFO queue. *)
(* A request is named after the run it is for, a deletion after its        *)
(* conversation.                                                           *)
(*                                                                         *)
(* last_used only decides which idle container is evicted or swept; no     *)
(* property tells them apart, so any idle one may be.                      *)
(***************************************************************************)
EXTENDS Naturals, Sequences, FiniteSets

CONSTANTS
    Run, Thread, Sweeper,
    ThreadOf,                    \* ThreadOf[r]: the conversation of run r
    MaxContainer,                \* max_container
    MaxStray,                    \* bound: containers started for a request that was gone
    Impatient,                   \* bound: runs whose requests time out or disconnect
    Deletable,                   \* bound: conversations that are deleted
    Mortal                       \* bound: conversations whose container may die

Actor == Run \cup Thread \cup {Sweeper}

ASSUME PoolAssumption ==
    /\ ThreadOf \in [Run -> Thread]
    /\ MaxContainer \in Nat \ {0}
    /\ MaxStray \in Nat
    /\ Impatient \subseteq Run /\ Deletable \subseteq Thread /\ Mortal \subseteq Thread
    /\ Run \cap Thread = {}
    /\ Sweeper \notin Run \cup Thread

VARIABLES
    slot,                        \* _slot: conversations with a registered container
    holder,                      \* holder[t]: the runs using it
    dead,                        \* registered containers that no longer run
    stray,                       \* containers running that are not in _slot
    queue,                       \* _queue: requests waiting for a container
    granted,                     \* requests whose future is resolved and not yet redeemed
    cancelled,                   \* waiting requests that were told to stop
    reserved,                    \* _reserved
    lockq,                       \* _lock: its owner, then who waits for it
    tlock,                       \* thread_lock: the streams and deletions inside it
    pc,                          \* where each actor is
    wiped                        \* conversations whose directory is gone

bookVars == <<slot, holder, dead, stray>>
waitVars == <<queue, granted, cancelled, reserved>>
vars     == <<bookVars, waitVars, lockq, tlock, pc, wiped>>

\* Holding _lock, at an await of acquire's two critical sections or of _pump.
TakingPc == {"probe", "rebuild", "evict", "start"}
PumpPc   == {"pump", "evicting"}
LockPc   == {"lock1", "lock2", "release", "delete", "sweep"}
PoolPc   == {"idle", "waiting", "using", "gone"} \cup TakingPc \cup PumpPc \cup LockPc

PoolTypeOK ==
    /\ slot \subseteq Thread
    /\ holder \in [Thread -> SUBSET Run]
    /\ dead \subseteq slot
    /\ stray \in 0..MaxStray
    /\ queue \in Seq(Run)
    /\ granted \subseteq Run
    /\ cancelled \subseteq Run
    /\ reserved \in Nat
    /\ lockq \in Seq(Actor)
    /\ tlock \subseteq Actor
    /\ pc \in [Actor -> PoolPc]
    /\ wiped \subseteq Thread

Init ==
    /\ slot = {} /\ dead = {} /\ stray = 0
    /\ holder = [t \in Thread |-> {}]
    /\ queue = <<>> /\ granted = {} /\ cancelled = {} /\ reserved = 0
    /\ lockq = <<>> /\ tlock = {}
    /\ pc = [a \in Actor |-> "idle"]
    /\ wiped = {}

--------------------------------------------------------------------------------
At(a, p)    == pc[a] = p
Goto(a, p)  == pc' = [pc EXCEPT ![a] = p]
Owns(a)     == lockq # <<>> /\ Head(lockq) = a
Lock(a)     == lockq' = Append(lockq, a)
Unlock      == lockq' = Tail(lockq)

\* Mutant: the places promised to waiters are not counted.
has_room_now == Cardinality(slot) < MaxContainer

has_room == Cardinality(slot) + reserved < MaxContainer

idle == {t \in slot : holder[t] = {}}

\* Mutant: busy containers may be evicted too.
evictAny(v) ==
    /\ v \in slot
    /\ slot' = slot \ {v}
    /\ dead' = dead \ {v}
    /\ holder' = [holder EXCEPT ![v] = {}]
    /\ UNCHANGED stray

\* _evict_idle up to the await of _discard: the victim leaves the books at once.
evict_idle(v) ==
    /\ v \in idle
    /\ slot' = slot \ {v}
    /\ dead' = dead \ {v}
    /\ holder' = [holder EXCEPT ![v] = {}]
    /\ UNCHANGED stray

\* thread_lock(t) is free for a.
Alone(a, t) == \A b \in tlock \ {a} : b # t /\ (b \in Run => ThreadOf[b] # t)
Busy(t)     == t \in slot /\ holder[t] # {}
Drop(s, i)  == [j \in 1..(Len(s) - 1) |-> IF j < i THEN s[j] ELSE s[j + 1]]

--------------------------------------------------------------------------------
(***************************************************************************)
(* acquire.                                                                *)
(***************************************************************************)
\* Mutant: acquire_sandbox without the thread lock.
OpenUnlocked(r) ==
    /\ At(r, "idle")
    /\ ThreadOf[r] \notin wiped
    /\ tlock' = tlock \cup {r}
    /\ Lock(r)
    /\ Goto(r, "lock1")
    /\ UNCHANGED <<bookVars, waitVars, wiped>>

\* _acquire_stream takes the conversation's lock; the directory is looked up, then _lock.
Open(r) ==
    /\ At(r, "idle")
    /\ Alone(r, ThreadOf[r])
    /\ ThreadOf[r] \notin wiped
    /\ tlock' = tlock \cup {r}
    /\ Lock(r)
    /\ Goto(r, "lock1")
    /\ UNCHANGED <<bookVars, waitVars, wiped>>

\* The request has its container: its stream ends.
Served(r) ==
    /\ Unlock
    /\ Goto(r, "using")
    /\ tlock' = tlock \ {r}
    /\ UNCHANGED <<waitVars, wiped>>

\* _take: ask Docker whether the registered container is alive ...
Probe(r) ==
    /\ At(r, "lock1") /\ Owns(r)
    /\ ThreadOf[r] \in slot
    /\ Goto(r, "probe")
    /\ UNCHANGED <<bookVars, waitVars, lockq, tlock, wiped>>

Reuse(r) ==
    /\ At(r, "probe")
    /\ ThreadOf[r] \notin dead
    /\ holder' = [holder EXCEPT ![ThreadOf[r]] = @ \cup {r}]
    /\ UNCHANGED <<slot, dead, stray>>
    /\ Served(r)

\* ... drop it if it is not, ...
DropDead(r) ==
    LET t == ThreadOf[r]
    IN  /\ At(r, "probe")
        /\ t \in dead
        /\ slot' = slot \ {t}
        /\ dead' = dead \ {t}
        /\ holder' = [holder EXCEPT ![t] = {}]
        /\ Goto(r, "rebuild")
        /\ UNCHANGED <<stray, waitVars, lockq, tlock, wiped>>

\* ... and find room for a new one: a free place, an idle container's, or none.
Seeking(r) == At(r, "rebuild") \/ (At(r, "lock1") /\ Owns(r) /\ ThreadOf[r] \notin slot)

TakeRoom(r) ==
    /\ Seeking(r)
    /\ has_room
    /\ Goto(r, "start")
    /\ UNCHANGED <<bookVars, waitVars, lockq, tlock, wiped>>

TakeEvict(r) ==
    /\ Seeking(r)
    /\ ~has_room
    /\ \E v \in Thread : evict_idle(v)
    /\ Goto(r, "evict")
    /\ UNCHANGED <<waitVars, lockq, tlock, wiped>>

TakeEvicted(r) ==
    /\ At(r, "evict")
    /\ Goto(r, "start")
    /\ UNCHANGED <<bookVars, waitVars, lockq, tlock, wiped>>

Enqueue(r) ==
    /\ Seeking(r)
    /\ ~has_room
    /\ idle = {}
    /\ queue' = Append(queue, r)
    /\ Unlock
    /\ Goto(r, "waiting")
    /\ UNCHANGED <<bookVars, granted, cancelled, reserved, tlock, wiped>>

\* _start: docker run, then the books.
StartOk(r) ==
    LET t == ThreadOf[r]
    IN  /\ At(r, "start")
        /\ slot' = slot \cup {t}
        /\ dead' = dead \ {t}
        /\ holder' = [holder EXCEPT ![t] = {r}]
        /\ UNCHANGED stray
        /\ Served(r)

StartFails(r) ==
    /\ At(r, "start")
    /\ Unlock
    /\ Goto(r, "idle")
    /\ tlock' = tlock \ {r}
    /\ UNCHANGED <<bookVars, waitVars, wiped>>

--------------------------------------------------------------------------------
(***************************************************************************)
(* A waiting request.  Its task resumes with the promised place, and goes  *)
(* on without a pause if _lock is free.                                    *)
(***************************************************************************)
Redeemed(r) ==
    /\ reserved' = reserved - 1
    /\ granted' = granted \ {r}

Wake(r) ==
    /\ At(r, "waiting")
    /\ r \in granted \ cancelled
    /\ Lock(r)
    /\ IF lockq = <<>>
         THEN Redeemed(r) /\ Goto(r, "start")
         ELSE UNCHANGED <<reserved, granted>> /\ Goto(r, "lock2")
    /\ UNCHANGED <<bookVars, queue, cancelled, tlock, wiped>>

Redeem(r) ==
    /\ At(r, "lock2") /\ Owns(r)
    /\ Redeemed(r)
    /\ Goto(r, "start")
    /\ UNCHANGED <<bookVars, queue, cancelled, lockq, tlock, wiped>>

\* wait_for's timer: the future is cancelled now, the task learns of it later.
Timeout(r) ==
    /\ At(r, "waiting")
    /\ r \notin cancelled
    /\ cancelled' = cancelled \cup {r}
    /\ UNCHANGED <<bookVars, queue, granted, reserved, lockq, tlock, pc, wiped>>

\* Mutants: the place is handed back whether or not it was promised; the same, not
\* below zero.
AbandonWith(r, left) ==
    /\ At(r, "waiting")
    /\ r \in cancelled
    /\ reserved' = left
    /\ granted' = granted \ {r}
    /\ queue' = IF \E i \in 1..Len(queue) : queue[i] = r
                  THEN Drop(queue, CHOOSE i \in 1..Len(queue) : queue[i] = r) ELSE queue
    /\ cancelled' = cancelled \ {r}
    /\ Goto(r, "idle")
    /\ tlock' = tlock \ {r}
    /\ UNCHANGED <<bookVars, lockq, wiped>>

AbandonAlways(r)  == AbandonWith(r, reserved - 1)
AbandonClamped(r) == AbandonWith(r, IF reserved > 0 THEN reserved - 1 ELSE 0)

\* _abandon: a promised place is handed back, otherwise the waiter leaves the queue.
Abandon(r) ==
    /\ At(r, "waiting")
    /\ r \in cancelled
    /\ IF r \in granted
         THEN Redeemed(r) /\ UNCHANGED queue
         ELSE /\ UNCHANGED <<reserved, granted>>
              /\ queue' = IF \E i \in 1..Len(queue) : queue[i] = r
                            THEN Drop(queue, CHOOSE i \in 1..Len(queue) : queue[i] = r) ELSE queue
    /\ cancelled' = cancelled \ {r}
    /\ Goto(r, "idle")
    /\ tlock' = tlock \ {r}
    /\ UNCHANGED <<bookVars, lockq, wiped>>

(***************************************************************************)
(* The client disconnects: the stream is closed, its finally cancels the   *)
(* acquire task and leaves the conversation's lock without waiting for it. *)
(***************************************************************************)
CloseWaiting(r) ==
    /\ r \in tlock /\ At(r, "waiting")
    /\ cancelled' = cancelled \cup {r}
    /\ tlock' = tlock \ {r}
    /\ UNCHANGED <<bookVars, queue, granted, reserved, lockq, pc, wiped>>

\* Waiting for _lock.  The second time a place is promised, and nobody hands it back.
CloseLocking(r) ==
    /\ r \in tlock /\ pc[r] \in {"lock1", "lock2"}
    /\ \E i \in 1..Len(lockq) : lockq[i] = r /\ lockq' = Drop(lockq, i)
    /\ granted' = granted \ {r}
    /\ Goto(r, "idle")
    /\ tlock' = tlock \ {r}
    /\ UNCHANGED <<bookVars, queue, cancelled, reserved, wiped>>

\* Holding _lock.  What to_thread has begun runs on: a container may come up that
\* nobody registers.
CloseTaking(r) ==
    /\ r \in tlock /\ pc[r] \in TakingPc
    /\ Unlock
    /\ Goto(r, "idle")
    /\ tlock' = tlock \ {r}
    /\ stray' \in {stray} \cup {n \in {stray + 1} : At(r, "start") /\ stray < MaxStray}
    /\ UNCHANGED <<slot, holder, dead, waitVars, wiped>>

--------------------------------------------------------------------------------
(***************************************************************************)
(* release, discard and sweep end with _pump.  A task whose future was     *)
(* cancelled runs within one turn of the event loop: it may lose a race    *)
(* against a coroutine that is about to continue, not against one that has *)
(* yet to start and await something.                                       *)
(***************************************************************************)
Prompt == \A r \in cancelled : ~At(r, "waiting")

Release(r) ==
    /\ At(r, "using")
    /\ Lock(r)
    /\ Goto(r, "release")
    /\ UNCHANGED <<bookVars, waitVars, tlock, wiped>>

\* The worker dies with the lease; whoever recovers the run acquires again.
Forget(r) ==
    /\ At(r, "using")
    /\ Goto(r, "idle")
    /\ UNCHANGED <<bookVars, waitVars, lockq, tlock, wiped>>

ReleaseIn(r) ==
    /\ At(r, "release") /\ Owns(r)
    /\ Prompt
    /\ holder' = [holder EXCEPT ![ThreadOf[r]] = @ \ {r}]
    /\ Goto(r, "pump")
    /\ UNCHANGED <<slot, dead, stray, waitVars, lockq, tlock, wiped>>

\* destroy_thread: the conversation's lock, the container, then the directory.
Destroy(t) ==
    /\ At(t, "idle")
    /\ t \notin wiped
    /\ Alone(t, t)
    /\ tlock' = tlock \cup {t}
    /\ Lock(t)
    /\ Goto(t, "delete")
    /\ UNCHANGED <<bookVars, waitVars, wiped>>

DestroyIn(t) ==
    /\ At(t, "delete") /\ Owns(t)
    /\ Prompt
    /\ slot' = slot \ {t}
    /\ dead' = dead \ {t}
    /\ holder' = [holder EXCEPT ![t] = {}]
    /\ Goto(t, "pump")
    /\ UNCHANGED <<stray, waitVars, lockq, tlock, wiped>>

Sweep ==
    /\ At(Sweeper, "idle")
    /\ Lock(Sweeper)
    /\ Goto(Sweeper, "sweep")
    /\ UNCHANGED <<bookVars, waitVars, tlock, wiped>>

\* Leases nobody touched are cleared, then idle containers past their time discarded.
SweepIn ==
    /\ At(Sweeper, "sweep") /\ Owns(Sweeper)
    /\ Prompt
    /\ \E lapsed \in SUBSET slot : \E stale \in SUBSET {t \in slot : ~Busy(t) \/ t \in lapsed} :
        /\ slot' = slot \ stale
        /\ dead' = dead \ stale
        /\ holder' = [t \in Thread |-> IF t \in lapsed THEN {} ELSE holder[t]]
    /\ Goto(Sweeper, "pump")
    /\ UNCHANGED <<stray, waitVars, lockq, tlock, wiped>>

\* The caller of _pump returns; an exception skips the directory's removal and ends
\* the sweeper's task for good.
PumpEnds(a, raised) ==
    /\ Unlock
    /\ Goto(a, IF a = Sweeper /\ raised THEN "gone" ELSE "idle")
    /\ tlock' = tlock \ {a}
    /\ wiped' = IF a \in Thread /\ ~raised THEN wiped \cup {a} ELSE wiped

\* One turn of the loop: reserve first, then popleft and set_result, which raise on an
\* empty queue and on a cancelled future.
Admit(a) ==
    /\ reserved' = reserved + 1
    /\ UNCHANGED <<stray, cancelled>>
    /\ IF queue = <<>>
         THEN UNCHANGED <<queue, granted>> /\ PumpEnds(a, TRUE)
         ELSE /\ queue' = Tail(queue)
              /\ IF Head(queue) \in cancelled
                   THEN UNCHANGED granted /\ PumpEnds(a, TRUE)
                   ELSE /\ granted' = granted \cup {Head(queue)}
                        /\ Goto(a, "pump")
                        /\ UNCHANGED <<lockq, tlock, wiped>>

Pump(a) ==
    /\ At(a, "pump")
    /\ queue # <<>> /\ has_room
    /\ Admit(a)
    /\ UNCHANGED <<slot, holder, dead>>

PumpEvict(a) ==
    /\ At(a, "pump")
    /\ queue # <<>> /\ ~has_room
    /\ Prompt
    /\ \E v \in Thread : evict_idle(v)
    /\ Goto(a, "evicting")
    /\ UNCHANGED <<waitVars, lockq, tlock, wiped>>

PumpEvicted(a) ==
    /\ At(a, "evicting")
    /\ Admit(a)
    /\ UNCHANGED <<slot, holder, dead>>

PumpDone(a) ==
    /\ At(a, "pump")
    /\ queue = <<>> \/ (~has_room /\ idle = {})
    /\ PumpEnds(a, FALSE)
    /\ UNCHANGED <<bookVars, waitVars>>

\* A container dies by itself (memory limit, docker rm).
Die(t) ==
    /\ t \in slot \ dead
    /\ dead' = dead \cup {t}
    /\ UNCHANGED <<slot, holder, stray, waitVars, lockq, tlock, pc, wiped>>

--------------------------------------------------------------------------------
AcquireStep(r) ==
    \/ Probe(r) \/ Reuse(r) \/ DropDead(r)
    \/ TakeRoom(r) \/ TakeEvict(r) \/ TakeEvicted(r) \/ Enqueue(r)
    \/ StartOk(r) \/ StartFails(r) \/ Wake(r) \/ Redeem(r) \/ Abandon(r)
    \/ ReleaseIn(r)

PumpStep(a) == Pump(a) \/ PumpEvict(a) \/ PumpEvicted(a) \/ PumpDone(a)

Disconnect(r) == CloseWaiting(r) \/ CloseLocking(r) \/ CloseTaking(r)

Next ==
    \/ \E r \in Run :
        \/ Open(r) \/ AcquireStep(r) \/ Release(r) \/ Forget(r)
    \/ \E r \in Impatient : Timeout(r) \/ Disconnect(r)
    \/ \E t \in Deletable : Destroy(t) \/ DestroyIn(t)
    \/ \E t \in Mortal : Die(t)
    \/ Sweep \/ SweepIn
    \/ \E a \in Actor : PumpStep(a)

Spec == Init /\ [][Next]_vars

--------------------------------------------------------------------------------
\* Whoever owns _lock is filling a place or about to promise one.
ComingPc == {"start", "evict", "evicting"}
Coming   == IF \E a \in Actor : pc[a] \in ComingPc THEN 1 ELSE 0

\* Registered containers, promised places and the one being filled never exceed
\* max_container, whatever requests time out, disconnect or die in between
\* (SandboxPool._has_room, _pump, _abandon and both critical sections of acquire).
Capacity == Cardinality(slot) + reserved + Coming <= MaxContainer

\* Every promised place is backed by a reservation: none is handed back twice, by a
\* timeout that races the promise or by a request that redeems it (_abandon, acquire).
GrantsAreBacked == Cardinality(granted) <= reserved

\* A container is only started for a conversation that has none, although a request that
\* waited does not look again (acquire's second critical section relies on _acquire_stream
\* holding the conversation's lock, and on a cancelled task never getting that far).
NoOverwrite == \A r \in Run : At(r, "start") => ThreadOf[r] \notin slot

\* A container leaves the books under a live holder only because it died, its
\* conversation was deleted or its lease lapsed: never to make room for somebody else
\* (_evict_idle, release by holder).
BusyKept ==
    [][\A t \in slot \ slot' : Busy(t) => t \in dead \/ At(t, "delete") \/ At(Sweeper, "sweep")]_vars

================================================================================
