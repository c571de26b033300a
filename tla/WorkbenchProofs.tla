--------------------------- MODULE WorkbenchProofs ---------------------------
(***************************************************************************)
(* What holds of a user's conversations for every set of requests, threads *)
(* and tool calls, and any number of faults: the database and the broker   *)
(* agree on directories and containers, a command runs twice only if its   *)
(* result was lost, only raced runs exceed the quota, and a composer takes *)
(* a typed title away only if it had looked before.                        *)
(***************************************************************************)
EXTENDS Workbench, FiniteSetTheorems, TLAPS

--------------------------------------------------------------------------------
(* Kinds: every variable is of its kind, without the bounds of the counters. *)

Where == [Actor -> [place : Place, thread : Thread \cup {NoThread}]]

ThreadKinds ==
    /\ at \in Where
    /\ row \in [Thread -> RowStatus] /\ title \in [Thread -> TitleKind]
    /\ purge \in [Thread -> PurgeStatus]
    /\ {dirs, boxes, strays, cut} \subseteq SUBSET Thread
    /\ holder \in [Thread -> Actor \cup Attempt \cup {Nobody}]
    /\ faults \in 0..MaxFault

SubmitKinds ==
    /\ run \in [Request -> RunState] /\ of \in [Request -> Thread \cup {NoThread}]
    /\ \A q \in Request : run[q] = "none" <=> of[q] = NoThread
    /\ {old, outrun, early} \subseteq SUBSET Request /\ {late, revived} \subseteq SUBSET Thread

ToolKinds ==
    /\ call \in [Attempt -> CallPlace] /\ gone \subseteq Attempt
    /\ remembered \in BOOLEAN /\ ran \in Nat /\ misses \in Nat

\* Who is on the way with a thread has one.
Placed == \A a \in Actor : at[a].place \in {"in", "done"} \/ at[a].thread \in Thread

Kinds == ThreadKinds /\ SubmitKinds /\ ToolKinds /\ files \subseteq Thread /\ Placed

\* What moving an actor does to the positions.
LEMMA PutEffect ==
  ASSUME at \in Where, NEW a \in Actor, NEW place \in Place, NEW t \in Thread \cup {NoThread},
         Put(a, place, t)
  PROVE  /\ at' \in Where
         /\ at'[a].place = place
         /\ at'[a].thread = IF place = "done" THEN NoThread ELSE t
         /\ \A b \in Actor : b # a => at'[b] = at[b]
BY DEF Put, Where

\* An actor that leaves is at the start or done.
LEMMA LeaveEffect ==
  ASSUME at \in Where, NEW a \in Actor, Leave(a)
  PROVE  /\ at' \in Where
         /\ at'[a].place \in {"in", "done"}
         /\ \A b \in Actor : b # a => at'[b] = at[b]
BY DEF Leave, Put, Where, Place

\* A fault stays below the bound.
LEMMA FaultEffect ==
  ASSUME faults \in 0..MaxFault, Fault
  PROVE  faults' \in 0..MaxFault /\ faults' = faults + 1
BY ThreadsAssumption DEF Fault, CanFail

\* The kinds hold at the start.
LEMMA KindsInitially == WorkbenchInit => Kinds
<1> SUFFICES ASSUME WorkbenchInit PROVE Kinds
  OBVIOUS
<1>1. ThreadKinds /\ Placed
  BY ThreadsAssumption
     DEF WorkbenchInit, ThreadsInit, ThreadKinds, Placed, Where, Place, RowStatus, TitleKind, PurgeStatus
<1>2. SubmitKinds
  BY DEF WorkbenchInit, SubmissionsInit, SubmitKinds, RunState
<1>3. ToolKinds /\ files \subseteq Thread
  BY DEF WorkbenchInit, ToolCallsInit, FilesInit, ToolKinds, CallPlace
<1>4. QED
  BY <1>1, <1>2, <1>3 DEF Kinds

\* The kinds of the conversations, as the requests of the api keep them.
LEMMA RequestKinds ==
  ASSUME ThreadKinds, Placed, NEW q \in Request, NEW t \in Thread,
         \/ create(q, t) \/ RequireThread(q, t) \/ MakeDirectory(q) \/ MakeFails(q)
         \/ Undo(q, Referred(at[q].thread)) \/ delete(q)
  PROVE  ThreadKinds' /\ Placed'
<1> USE PutEffect, FaultEffect DEF Actor, ThreadKinds, Placed, Place, RowStatus, PurgeStatus, threadVars
<1>1. CASE create(q, t)
  BY <1>1 DEF create
<1>2. CASE RequireThread(q, t)
  BY <1>2 DEF RequireThread
<1>3. CASE MakeDirectory(q)
  BY <1>3 DEF MakeDirectory
<1>4. CASE MakeFails(q)
  BY <1>4 DEF MakeFails
<1>5. CASE Undo(q, Referred(at[q].thread))
  BY <1>5 DEF Undo
<1>6. CASE delete(q)
  BY <1>6 DEF delete
<1>7. QED
  BY <1>1, <1>2, <1>3, <1>4, <1>5, <1>6

\* The same for a deletion in the broker and for the reaper.
LEMMA PurgeKinds ==
  ASSUME ThreadKinds, Placed, NEW a \in Actor, NEW t \in Thread,
         \/ pending_purge(t) \/ DestroyBox(a) \/ RemoveDirectory(a)
         \/ fail_purge(a) \/ complete_purge(a) \/ Die(a)
  PROVE  ThreadKinds' /\ Placed'
<1> USE PutEffect, LeaveEffect, FaultEffect DEF ThreadKinds, Placed, Place, PurgeStatus, threadVars
<1>1. CASE pending_purge(t)
  <2>1. Reaper \in Actor
    BY DEF Actor
  <2>2. QED
    BY <1>1, <2>1 DEF pending_purge
<1>2. CASE DestroyBox(a)
  <2>1. at[a].thread \in Thread /\ at' \in Where /\ Placed'
    BY <1>2 DEF DestroyBox
  <2>2. {boxes', strays'} \subseteq SUBSET Thread /\ faults' \in 0..MaxFault
    BY <1>2, <2>1 DEF DestroyBox, ForgetBox
  <2>3. holder' \in [Thread -> Actor \cup Attempt \cup {Nobody}]
    BY <1>2 DEF DestroyBox
  <2>4. QED
    BY <1>2, <2>1, <2>2, <2>3 DEF DestroyBox
<1>3. CASE RemoveDirectory(a)
  <2>1. at[a].thread \in Thread
    BY <1>3 DEF RemoveDirectory
  <2>2. dirs' \subseteq Thread /\ faults' \in 0..MaxFault
    BY <1>3, <2>1 DEF RemoveDirectory
  <2>3. at' \in Where /\ Placed'
    BY <1>3, <2>1 DEF RemoveDirectory
  <2>4. QED
    BY <1>3, <2>1, <2>2, <2>3 DEF RemoveDirectory
<1>4. CASE fail_purge(a)
  BY <1>4 DEF fail_purge
<1>5. CASE complete_purge(a)
  BY <1>5 DEF complete_purge
<1>6. CASE Die(a)
  BY <1>6 DEF Die
<1>7. QED
  BY <1>1, <1>2, <1>3, <1>4, <1>5, <1>6

\* A submission, and the run it creates, keep the kinds.
LEMMA SubmitStepKinds ==
  ASSUME ThreadKinds, SubmitKinds, Placed, SubmitStep
  PROVE  ThreadKinds' /\ SubmitKinds' /\ Placed'
<1> USE PutEffect DEF Actor, ThreadKinds, SubmitKinds, Placed, Place, RunState, TitleKind, threadVars,
        submitVars
<1>1. ASSUME NEW q \in Request, NEW t \in Thread, SubmitRun(q, t) \/ RenameThread(q, t)
      PROVE  ThreadKinds' /\ SubmitKinds' /\ Placed'
  BY <1>1 DEF SubmitRun, RenameThread, update
<1>2. ASSUME NEW q \in Request, CheckSlots(q) \/ CheckPending(q) \/ compose(q) \/ _ask(q)
      PROVE  ThreadKinds' /\ SubmitKinds' /\ Placed'
  <2>1. CASE CheckSlots(q) \/ CheckPending(q)
    <3>1. PICK place \in {"counting", "admitted", "done"} : Put(q, place, at[q].thread)
      BY <1>2, <2>1 DEF CheckSlots, CheckPending, Refuse
    <3>2. at[q].thread \in Thread
      BY <2>1 DEF CheckSlots, CheckPending
    <3>3. at' \in Where /\ Placed'
      BY <3>1, <3>2
    <3>4. QED
      BY <2>1, <3>3 DEF CheckSlots, CheckPending
  <2>2. CASE compose(q)
    BY <1>2, <2>2 DEF compose
  <2>3. CASE _ask(q)
    <3>1. at' \in Where /\ Placed'
      BY <1>2, <2>3 DEF _ask
    <3>2. title' \in [Thread -> TitleKind]
      BY <1>2, <2>3 DEF _ask
    <3>3. QED
      BY <1>2, <2>3, <3>1, <3>2 DEF _ask
  <2>4. QED
    BY <1>2, <2>1, <2>2, <2>3
<1>3. ASSUME NEW q \in Request, submit(q)
      PROVE  ThreadKinds' /\ SubmitKinds' /\ Placed'
  <2>1. at[q].thread \in Thread /\ at' \in Where /\ Placed'
    BY <1>3 DEF submit
  <2>2. run' \in [Request -> RunState] /\ of' \in [Request -> Thread \cup {NoThread}]
    BY <1>3, <2>1 DEF submit, Status
  <2>3. \A k \in Request : run'[k] = "none" <=> of'[k] = NoThread
    BY <1>3, <2>1, ThreadsAssumption DEF submit, Status
  <2>4. outrun' \subseteq Request
    BY <1>3 DEF submit, Admitted
  <2>5. QED
    BY <1>3, <2>1, <2>2, <2>3, <2>4 DEF submit
<1>4. ASSUME NEW q \in Request, Begin(q) \/ acquire(q) \/ AbandonStart(q) \/ Stop(q) \/ resume(q)
      PROVE  ThreadKinds' /\ SubmitKinds' /\ Placed'
  <2>1. PICK s \in RunState \ {"none"} : Status(q, s) /\ run[q] # "none"
    BY <1>4 DEF Begin, acquire, AbandonStart, Stop, resume
  <2>2. run' \in [Request -> RunState] /\ \A k \in Request : run'[k] = "none" <=> of[k] = NoThread
    BY <2>1 DEF Status
  <2>3. {boxes', strays', late'} \subseteq SUBSET Thread /\ outrun' \subseteq Request
    BY <1>4 DEF Begin, acquire, AbandonStart, Stop, resume, Admitted
  <2>f. faults' \in 0..MaxFault
    BY <1>4, FaultEffect DEF Begin, acquire, AbandonStart, Stop, resume
  <2>4. UNCHANGED <<at, row, title, purge, dirs, holder, cut, of, old, early, revived>>
    BY <1>4 DEF Begin, acquire, AbandonStart, Stop, resume
  <2>5. QED
    BY <2>2, <2>3, <2>f, <2>4
<1>5. ASSUME NEW t \in Thread, Reclaim(t) \/ MountLate(t)
      PROVE  ThreadKinds' /\ SubmitKinds' /\ Placed'
  BY <1>5, FaultEffect DEF Reclaim, ForgetBox, MountLate
<1>6. CASE Midnight
  BY <1>6 DEF Midnight
<1>7. QED
  BY <1>1, <1>2, <1>3, <1>4, <1>5, <1>6 DEF SubmitStep

\* A tool call keeps the kinds.
LEMMA ToolStepKinds ==
  ASSUME ThreadKinds, ToolKinds, Placed, NEW n \in Attempt,
         SendCall(n) \/ LookUp(n) \/ LookUpBlind(n) \/ HangUp(n) \/ _remember(n)
  PROVE  ThreadKinds' /\ ToolKinds' /\ Placed'
<1> USE FaultEffect, ToolAssumption DEF ThreadKinds, ToolKinds, Placed, CallPlace, threadVars, At
<1>1. CASE SendCall(n)
  BY <1>1 DEF SendCall
<1>2. CASE LookUp(n)
  BY <1>2 DEF LookUp
<1>3. CASE LookUpBlind(n)
  BY <1>3 DEF LookUpBlind
<1>4. CASE HangUp(n)
  BY <1>4 DEF HangUp
<1>5. CASE _remember(n)
  <2>1. holder' \in [Thread -> Actor \cup Attempt \cup {Nobody}]
    BY <1>5 DEF _remember
  <2>2. faults' \in 0..MaxFault /\ misses' \in Nat
    BY <1>5 DEF _remember
  <2>b. remembered' \in BOOLEAN
    <3>1. remembered' = TRUE \/ remembered' = remembered
      BY <1>5, Zenon DEF _remember
    <3>2. QED
      BY <3>1, Zenon
  <2>3. call' \in [Attempt -> CallPlace]
    BY <1>5 DEF _remember
  <2>4. QED
    BY <1>5, <2>1, <2>2, <2>b, <2>3 DEF _remember
<1>6. QED
  BY <1>1, <1>2, <1>3, <1>4, <1>5

\* So does a request for files.
LEMMA FileStepKinds ==
  ASSUME ThreadKinds, Placed, files \subseteq Thread, FileStep
  PROVE  ThreadKinds' /\ Placed' /\ files' \subseteq Thread
<1> USE PutEffect, FaultEffect DEF Actor, ThreadKinds, Placed, Place, threadVars, Answer, Reach
<1>1. ASSUME NEW q \in Request, NEW t \in Thread, OpenFiles(q, t)
      PROVE  ThreadKinds' /\ Placed' /\ files' \subseteq Thread
  BY <1>1 DEF OpenFiles
<1>2. ASSUME NEW q \in Request, Unreached(q) \/ EnterDirectory(q) \/ NoDirectory(q)
      PROVE  ThreadKinds' /\ Placed' /\ files' \subseteq Thread
  BY <1>2 DEF Unreached, EnterDirectory, NoDirectory
<1>3. ASSUME NEW q \in Request, save(q) \/ remove(q) \/ browse(q)
      PROVE  ThreadKinds' /\ Placed' /\ files' \subseteq Thread
  BY <1>3 DEF save, remove, browse, Within
<1>4. QED
  BY <1>1, <1>2, <1>3 DEF FileStep

\* Every step keeps the kinds.
LEMMA StepKinds == Kinds /\ [WorkbenchNext]_vars => Kinds'
<1> SUFFICES ASSUME Kinds, [WorkbenchNext]_vars PROVE Kinds'
  OBVIOUS
<1> USE DEF Kinds
<1>1. CASE ThreadStep /\ files' = files \cap dirs' /\ UNCHANGED <<submitVars, toolVars>>
  <2>1. ThreadKinds' /\ Placed'
    <3>1. CASE \E q \in Request :
                 \/ \E t \in Thread : create(q, t) \/ RequireThread(q, t)
                 \/ MakeDirectory(q) \/ MakeFails(q) \/ Undo(q, Referred(at[q].thread)) \/ delete(q)
      BY <3>1, RequestKinds, ToolAssumption
    <3>2. CASE \/ \E t \in Thread : pending_purge(t)
               \/ \E a \in Actor : \/ DestroyBox(a) \/ RemoveDirectory(a)
                                   \/ fail_purge(a) \/ complete_purge(a) \/ Die(a)
      BY <3>2, PurgeKinds, ToolAssumption DEF Actor
    <3>3. QED
      BY <1>1, <3>1, <3>2 DEF ThreadStep
  <2>2. SubmitKinds' /\ ToolKinds' /\ files' \subseteq Thread
    BY <1>1 DEF SubmitKinds, ToolKinds, submitVars, toolVars
  <2>3. QED
    BY <2>1, <2>2
<1>2. CASE SubmitStep /\ UNCHANGED <<toolVars, files>>
  BY <1>2, SubmitStepKinds DEF ToolKinds, toolVars
<1>3. CASE FileStep /\ UNCHANGED <<submitVars, toolVars>>
  BY <1>3, FileStepKinds DEF SubmitKinds, ToolKinds, submitVars, toolVars
<1>4. CASE ToolStep /\ UNCHANGED files
  <2>1. UNCHANGED submitVars
    BY <1>4 DEF ToolStep, SendCall, LookUp, LookUpBlind, HangUp, _remember
  <2>2. QED
    BY <1>4, <2>1, ToolStepKinds DEF ToolStep, SubmitKinds, submitVars
<1>5. CASE UNCHANGED vars
  BY <1>5 DEF vars, ThreadKinds, SubmitKinds, ToolKinds, Placed, threadVars, submitVars, toolVars
<1>6. QED
  BY <1>1, <1>2, <1>3, <1>4, <1>5 DEF WorkbenchNext

--------------------------------------------------------------------------------
(* What the database says of a conversation and what the broker keeps of it. *)

\* Who removes a directory or works in it holds the lock of its thread.
Locked ==
    /\ \A a \in Actor : at[a].place \in {"removing", "filing"} => holder[at[a].thread] = a
    /\ \A n \in Attempt : call[n] = "running" => holder[ToolThread] = n

\* The container is gone before the directory, and stays gone.
Emptied == \A a \in Actor : at[a].place = "removing" => at[a].thread \notin boxes

\* The rows of the threads that somebody deletes, or whose creation is undone.
Condemned ==
    /\ \A t \in Thread : purge[t] # "none" => row[t] = "deleted"
    /\ \A a \in Actor :
        /\ at[a].place = "found" => row[at[a].thread] # "none"
        /\ at[a].place \in {"destroying", "removing", "noting", "excusing"}
            => row[at[a].thread] \in {"deleted", "removed"}
        /\ at[a].place = "noting" => at[a].thread \notin dirs \ (cut \cup revived)
        /\ at[a].place = "undoing" => at[a].thread \in cut

Agreement ==
    /\ Locked /\ Emptied /\ Condemned
    /\ DirectoryIsAccounted /\ BoxHasDirectory /\ VisibleIsUsable /\ WorkKeepsDirectory

--------------------------------------------------------------------------------
(* How often the command of the tool call ran. *)

Running == \E n \in Attempt : call[n] = "running"

\* Without a result, or a command that will leave one, every run of it was lost.
Lost == RunsOnce /\ (remembered \/ Running \/ ran <= misses)

\* A command runs once per attempt, and is lost by a fault or by a caller that is gone.
Counted ==
    /\ ran <= Cardinality({n \in Attempt : call[n] \in {"running", "over"}})
    /\ misses <= faults + Cardinality({n \in Attempt : call[n] = "over"})

--------------------------------------------------------------------------------
(* The quota, and the titles. *)

\* A request that was admitted on a count that still stands may add a run.
Room ==
    \A q \in Admitted \ outrun :
        Cardinality({k \in Request \ outrun : run[k] \in ActiveStatus}) < ConcurrentRun

\* A composer of a typed title had looked before it was typed.
Composing ==
    \A q \in Request : at[q].place = "asking" /\ title[at[q].thread] = "typed" => q \in early

--------------------------------------------------------------------------------
\* The database and the broker agree at the start.
LEMMA AgreementInitially == WorkbenchInit => Agreement
BY DEF WorkbenchInit, ThreadsInit, ToolCallsInit, Agreement, Locked, Emptied, Condemned,
       DirectoryIsAccounted, BoxHasDirectory, VisibleIsUsable, WorkKeepsDirectory, Actor, _visible

\* Positions that the agreement says nothing of.
Quiet == {"in", "spending", "counting", "admitted", "naming", "asking", "reaching", "done"}

\* A step that only moves actors to such a position, or ends a container or a call, keeps it.
LEMMA QuietKeepsAgreement ==
  ASSUME Kinds, Agreement,
         \A a \in Actor : at'[a] = at[a] \/ (at[a].place # "making" /\ at'[a].place \in Quiet),
         UNCHANGED <<row, purge, dirs, holder, cut, revived>>, boxes' \subseteq boxes,
         \A n \in Attempt : call'[n] = "running" => call[n] = "running"
  PROVE  Agreement'
<1> USE DEF Agreement
<1>1. Locked'
  BY DEF Locked, Quiet
<1>2. Emptied' /\ BoxHasDirectory'
  BY DEF Emptied, BoxHasDirectory, Quiet
<1>3. Condemned' /\ DirectoryIsAccounted'
  BY DEF Condemned, DirectoryIsAccounted, Quiet
<1>4. VisibleIsUsable'
  BY DEF VisibleIsUsable, Quiet, _visible, Actor
<1>5. WorkKeepsDirectory'
  BY DEF WorkKeepsDirectory, Quiet, Actor
<1>6. QED
  BY <1>1, <1>2, <1>3, <1>4, <1>5

\* Making and marking conversations keeps the agreement.
LEMMA RequestsKeepAgreement ==
  ASSUME Kinds, Agreement, UNCHANGED <<submitVars, toolVars>>, NEW q \in Request, NEW t \in Thread,
         \/ create(q, t) \/ RequireThread(q, t) \/ MakeDirectory(q) \/ MakeFails(q)
         \/ Undo(q, Referred(at[q].thread)) \/ delete(q)
  PROVE  Agreement'
<1>a. q \in Actor /\ Request \subseteq Actor
  BY DEF Actor
<1> USE <1>a DEF Agreement, threadVars, submitVars, toolVars
<1>1. CASE create(q, t)
  <2>1. /\ at[q].place = "in" /\ t \in Thread
        /\ at'[q].place = "making" /\ at'[q].thread = t
        /\ \A b \in Actor : b # q => at'[b] = at[b]
    BY <1>1, PutEffect DEF create, Kinds, ThreadKinds, Placed, Place
  <2>2. Locked' /\ Emptied'
    BY <1>1, <2>1 DEF create, Locked, Emptied
  <2>3. Condemned'
    BY <1>1, <2>1 DEF create, Condemned, Kinds, ThreadKinds, _visible
  <2>4. DirectoryIsAccounted' /\ BoxHasDirectory'
    BY <1>1, <2>1 DEF create, DirectoryIsAccounted, BoxHasDirectory, Condemned, Kinds, ThreadKinds, _visible
  <2>5. VisibleIsUsable'
    BY <1>1, <2>1 DEF create, VisibleIsUsable, Condemned, Kinds, ThreadKinds, _visible
  <2>6. WorkKeepsDirectory'
    BY <1>1, <2>1 DEF create, WorkKeepsDirectory
  <2>7. QED
    BY <2>2, <2>3, <2>4, <2>5, <2>6
<1>2. CASE RequireThread(q, t)
  <2>1. /\ at[q].place = "in" /\ t \in Thread
        /\ at'[q].place = "found" /\ at'[q].thread = t
        /\ \A b \in Actor : b # q => at'[b] = at[b]
    BY <1>2, PutEffect DEF RequireThread, Kinds, ThreadKinds, Placed, Place
  <2>2. Locked' /\ Emptied'
    BY <1>2, <2>1 DEF RequireThread, Locked, Emptied
  <2>3. Condemned'
    BY <1>2, <2>1 DEF RequireThread, Condemned, Kinds, ThreadKinds, _visible
  <2>4. DirectoryIsAccounted' /\ BoxHasDirectory'
    BY <1>2, <2>1 DEF RequireThread, DirectoryIsAccounted, BoxHasDirectory, Condemned, Kinds, ThreadKinds, _visible
  <2>5. VisibleIsUsable'
    BY <1>2, <2>1 DEF RequireThread, VisibleIsUsable, Condemned, Kinds, ThreadKinds, _visible
  <2>6. WorkKeepsDirectory'
    BY <1>2, <2>1 DEF RequireThread, WorkKeepsDirectory
  <2>7. QED
    BY <2>2, <2>3, <2>4, <2>5, <2>6
<1>3. CASE MakeDirectory(q)
  <2>1. /\ at[q].place = "making" /\ at[q].thread \in Thread
        /\ at'[q].place = "done" /\ at'[q].thread = NoThread
        /\ \A b \in Actor : b # q => at'[b] = at[b]
    BY <1>3, PutEffect DEF MakeDirectory, Kinds, ThreadKinds, Placed, Place
  <2>2. Locked' /\ Emptied'
    BY <1>3, <2>1 DEF MakeDirectory, Locked, Emptied
  <2>3. Condemned'
    BY <1>3, <2>1 DEF MakeDirectory, Condemned, Kinds, ThreadKinds, _visible
  <2>4. DirectoryIsAccounted' /\ BoxHasDirectory'
    BY <1>3, <2>1 DEF MakeDirectory, DirectoryIsAccounted, BoxHasDirectory, Condemned, Kinds, ThreadKinds, _visible
  <2>5. VisibleIsUsable'
    BY <1>3, <2>1 DEF MakeDirectory, VisibleIsUsable, Condemned, Kinds, ThreadKinds, _visible
  <2>6. WorkKeepsDirectory'
    BY <1>3, <2>1 DEF MakeDirectory, WorkKeepsDirectory
  <2>7. QED
    BY <2>2, <2>3, <2>4, <2>5, <2>6
<1>4. CASE MakeFails(q)
  <2>1. /\ at[q].place = "making" /\ at[q].thread \in Thread
        /\ at'[q].place = "undoing" /\ at'[q].thread = at[q].thread
        /\ \A b \in Actor : b # q => at'[b] = at[b]
    BY <1>4, PutEffect DEF MakeFails, Kinds, ThreadKinds, Placed, Place
  <2>2. Locked' /\ Emptied'
    BY <1>4, <2>1 DEF MakeFails, Locked, Emptied
  <2>3. Condemned'
    BY <1>4, <2>1 DEF MakeFails, Condemned, Kinds, ThreadKinds, _visible
  <2>4. DirectoryIsAccounted' /\ BoxHasDirectory'
    BY <1>4, <2>1 DEF MakeFails, DirectoryIsAccounted, BoxHasDirectory, Condemned, Kinds, ThreadKinds, _visible
  <2>5. VisibleIsUsable'
    BY <1>4, <2>1 DEF MakeFails, VisibleIsUsable, Condemned, Kinds, ThreadKinds, _visible
  <2>6. WorkKeepsDirectory'
    BY <1>4, <2>1 DEF MakeFails, WorkKeepsDirectory
  <2>7. QED
    BY <2>2, <2>3, <2>4, <2>5, <2>6
<1>5. CASE Undo(q, Referred(at[q].thread))
  <2>1. /\ at[q].place = "undoing" /\ at[q].thread \in Thread
        /\ at'[q].place = "done" /\ at'[q].thread = NoThread
        /\ \A b \in Actor : b # q => at'[b] = at[b]
    BY <1>5, PutEffect DEF Undo, Kinds, ThreadKinds, Placed, Place
  <2>2. Locked' /\ Emptied'
    BY <1>5, <2>1 DEF Undo, Locked, Emptied
  <2>3. Condemned'
    BY <1>5, <2>1 DEF Undo, Condemned, Kinds, ThreadKinds, _visible
  <2>4. DirectoryIsAccounted' /\ BoxHasDirectory'
    BY <1>5, <2>1 DEF Undo, DirectoryIsAccounted, BoxHasDirectory, Condemned, Kinds, ThreadKinds, _visible
  <2>5. VisibleIsUsable'
    BY <1>5, <2>1 DEF Undo, VisibleIsUsable, Condemned, Kinds, ThreadKinds, _visible
  <2>6. WorkKeepsDirectory'
    BY <1>5, <2>1 DEF Undo, WorkKeepsDirectory
  <2>7. QED
    BY <2>2, <2>3, <2>4, <2>5, <2>6
<1>6. CASE delete(q)
  <2>1. /\ at[q].place = "found" /\ at[q].thread \in Thread
        /\ at'[q].place = "destroying" /\ at'[q].thread = at[q].thread
        /\ \A b \in Actor : b # q => at'[b] = at[b]
    BY <1>6, PutEffect DEF delete, Kinds, ThreadKinds, Placed, Place
  <2>2. Locked' /\ Emptied'
    BY <1>6, <2>1 DEF delete, Locked, Emptied
  <2>3. Condemned'
    BY <1>6, <2>1 DEF delete, Condemned, Kinds, ThreadKinds, RowStatus, _visible
  <2>4. DirectoryIsAccounted' /\ BoxHasDirectory'
    BY <1>6, <2>1 DEF delete, DirectoryIsAccounted, BoxHasDirectory, Condemned, Kinds, ThreadKinds, _visible
  <2>5. VisibleIsUsable'
    BY <1>6, <2>1 DEF delete, VisibleIsUsable, Condemned, Kinds, ThreadKinds, _visible
  <2>6. WorkKeepsDirectory'
    BY <1>6, <2>1 DEF delete, WorkKeepsDirectory
  <2>7. QED
    BY <2>2, <2>3, <2>4, <2>5, <2>6
<1>7. QED
  BY <1>1, <1>2, <1>3, <1>4, <1>5, <1>6

\* The broker's part of a deletion, and the reaper, keep the agreement.
LEMMA PurgesKeepAgreement ==
  ASSUME Kinds, Agreement, UNCHANGED <<submitVars, toolVars>>, NEW a \in Actor, NEW t \in Thread,
         \/ pending_purge(t) \/ DestroyBox(a) \/ RemoveDirectory(a)
         \/ fail_purge(a) \/ complete_purge(a) \/ Die(a)
  PROVE  Agreement'
<1>a. Request \subseteq Actor /\ Reaper \in Actor /\ Nobody \notin Actor
  BY ThreadsAssumption DEF Actor
<1> USE <1>a DEF Agreement, threadVars, submitVars, toolVars
<1>1. CASE pending_purge(t)
  <2>1. /\ at[Reaper].place = "in" /\ at'[Reaper].place = "destroying" /\ at'[Reaper].thread = t
        /\ \A b \in Actor : b # Reaper => at'[b] = at[b]
    BY <1>1, PutEffect DEF pending_purge, Kinds, ThreadKinds, Place
  <2>2. Locked' /\ Emptied'
    BY <1>1, <2>1 DEF pending_purge, Locked, Emptied
  <2>3. Condemned'
    BY <1>1, <2>1 DEF pending_purge, Condemned, Kinds, ThreadKinds
  <2>4. DirectoryIsAccounted' /\ BoxHasDirectory'
    BY <1>1, <2>1 DEF pending_purge, DirectoryIsAccounted, BoxHasDirectory, Condemned, Kinds, ThreadKinds
  <2>5. VisibleIsUsable'
    BY <1>1, <2>1 DEF pending_purge, VisibleIsUsable, Condemned, Kinds, ThreadKinds, _visible
  <2>6. WorkKeepsDirectory'
    BY <1>1, <2>1 DEF pending_purge, WorkKeepsDirectory
  <2>7. QED
    BY <2>2, <2>3, <2>4, <2>5, <2>6
<1>2. CASE DestroyBox(a)
  <2>1. /\ at[a].place = "destroying" /\ at[a].thread \in Thread
        /\ at'[a].place \in {"removing", "excusing"} /\ at'[a].thread = at[a].thread
        /\ at'[a].place = "removing" =>
             Free(at[a].thread) /\ holder' = [holder EXCEPT ![at[a].thread] = a]
             /\ boxes' = boxes \ {at[a].thread}
        /\ at'[a].place = "excusing" => UNCHANGED <<boxes, holder>>
        /\ \A b \in Actor : b # a => at'[b] = at[b]
        /\ UNCHANGED <<row, purge, dirs, cut, revived>>
    BY <1>2, PutEffect DEF DestroyBox, ForgetBox, Kinds, ThreadKinds, Placed, Place
  <2>n. ToolThread \in Thread /\ \A n \in Attempt : n # Nobody
    BY ToolAssumption DEF Attempt
  <2>2. Locked'
    <3>1. CASE at'[a].place = "excusing"
      BY <2>1, <3>1 DEF Locked
    <3>2. CASE at'[a].place = "removing"
      <4>1. \A b \in Actor : at'[b].place \in {"removing", "filing"} => holder'[at'[b].thread] = b
        BY <2>1, <3>2 DEF Locked, Kinds, ThreadKinds, Placed, Free
      <4>2. \A n \in Attempt : call'[n] = "running" => holder'[ToolThread] = n
        BY <2>1, <2>n, <3>2 DEF Locked, Kinds, ThreadKinds, Free
      <4>3. QED
        BY <4>1, <4>2 DEF Locked
    <3>3. QED
      BY <2>1, <3>1, <3>2
  <2>0. Emptied'
    BY <2>1 DEF Emptied
  <2>3. Condemned'
    BY <2>1 DEF Condemned
  <2>4. DirectoryIsAccounted' /\ BoxHasDirectory'
    BY <2>1 DEF DirectoryIsAccounted, BoxHasDirectory
  <2>5. VisibleIsUsable'
    BY <2>1 DEF VisibleIsUsable, _visible
  <2>6. WorkKeepsDirectory'
    BY <2>1 DEF WorkKeepsDirectory
  <2>7. QED
    BY <2>0, <2>2, <2>3, <2>4, <2>5, <2>6
<1>3. CASE RemoveDirectory(a)
  <2>1. /\ at[a].place = "removing" /\ at[a].thread \in Thread
        /\ at'[a].place \in {"noting", "excusing"} /\ at'[a].thread = at[a].thread
        /\ holder' = [holder EXCEPT ![at[a].thread] = Nobody]
        /\ dirs \ {at[a].thread} \subseteq dirs' /\ dirs' \subseteq dirs
        /\ at'[a].place = "noting" => at[a].thread \notin dirs'
        /\ \A b \in Actor : b # a => at'[b] = at[b]
        /\ UNCHANGED <<row, purge, boxes, cut, revived>>
    BY <1>3, PutEffect DEF RemoveDirectory, Kinds, ThreadKinds, Placed, Place
  <2>h. /\ holder[at[a].thread] = a /\ at[a].thread \notin boxes
        /\ row[at[a].thread] # "active"
        /\ \A n \in Attempt : n # a
    BY <2>1, ToolAssumption DEF Locked, Emptied, Condemned, Actor, Attempt
  <2>2. Locked'
    BY <2>1, <2>h, ToolAssumption DEF Locked, Kinds, ThreadKinds, Placed
  <2>0. Emptied'
    BY <2>1 DEF Emptied
  <2>3. Condemned'
    BY <2>1 DEF Condemned
  <2>4. DirectoryIsAccounted' /\ BoxHasDirectory'
    BY <2>1, <2>h DEF DirectoryIsAccounted, BoxHasDirectory
  <2>5. VisibleIsUsable'
    BY <2>1, <2>h DEF VisibleIsUsable, _visible
  <2>6. WorkKeepsDirectory'
    BY <2>1, <2>h DEF WorkKeepsDirectory, Locked
  <2>7. QED
    BY <2>0, <2>2, <2>3, <2>4, <2>5, <2>6
<1>4. CASE fail_purge(a)
  BY <1>4, LeaveEffect, QuietKeepsAgreement DEF fail_purge, Kinds, ThreadKinds, Quiet
<1>5. CASE complete_purge(a)
  <2>1. /\ at[a].place = "noting" /\ at[a].thread \in Thread
        /\ at'[a].place \in {"in", "done"}
        /\ \A b \in Actor : b # a => at'[b] = at[b]
        /\ purge' = [purge EXCEPT ![at[a].thread] = IF @ = "pending" THEN "done" ELSE @]
        /\ UNCHANGED <<row, dirs, boxes, holder, cut, revived>>
    BY <1>5, LeaveEffect DEF complete_purge, Kinds, ThreadKinds, Placed, Place
  <2>2. Locked' /\ Emptied' /\ BoxHasDirectory'
    BY <2>1 DEF Locked, Emptied, BoxHasDirectory
  <2>3. Condemned'
    BY <2>1 DEF Condemned, Kinds, ThreadKinds
  <2>4. DirectoryIsAccounted'
    BY <2>1 DEF DirectoryIsAccounted, Condemned, Kinds, ThreadKinds
  <2>5. VisibleIsUsable' /\ WorkKeepsDirectory'
    BY <2>1 DEF VisibleIsUsable, WorkKeepsDirectory, _visible
  <2>7. QED
    BY <2>2, <2>3, <2>4, <2>5
<1>6. CASE Die(a)
  <2>1. /\ at[a].place \in {"making", "undoing", "found", "destroying", "excusing", "noting"}
        /\ at[a].thread \in Thread /\ at'[a].place \in {"in", "done"}
        /\ \A b \in Actor : b # a => at'[b] = at[b]
        /\ cut' = IF at[a].place = "making" THEN cut \cup {at[a].thread} ELSE cut
        /\ UNCHANGED <<row, purge, dirs, boxes, holder, revived>>
    BY <1>6, LeaveEffect DEF Die, Kinds, ThreadKinds, Placed, Place
  <2>2. Locked' /\ Emptied' /\ BoxHasDirectory'
    BY <2>1 DEF Locked, Emptied, BoxHasDirectory
  <2>3. Condemned' /\ DirectoryIsAccounted'
    BY <2>1 DEF Condemned, DirectoryIsAccounted
  <2>5. VisibleIsUsable' /\ WorkKeepsDirectory'
    BY <2>1 DEF VisibleIsUsable, WorkKeepsDirectory, _visible
  <2>7. QED
    BY <2>2, <2>3, <2>5
<1>7. QED
  BY <1>1, <1>2, <1>3, <1>4, <1>5, <1>6

\* A run gets a container only where there is a directory, and nobody holds the lock; an
\* abandoned one leaves the books alone.
LEMMA AcquireKeepsAgreement ==
  ASSUME Kinds, Agreement, UNCHANGED toolVars, NEW q \in Request, acquire(q) \/ AbandonStart(q)
  PROVE  Agreement'
<1>1. /\ UNCHANGED <<at, row, purge, dirs, holder, cut, revived, call>>
      /\ boxes' = boxes \/ (boxes' = boxes \cup {of[q]} /\ of[q] \in dirs /\ Free(of[q]))
  BY DEF acquire, AbandonStart, toolVars
<1>2. Emptied'
  BY <1>1, ThreadsAssumption DEF Agreement, Emptied, Locked, Free, Actor
<1>3. BoxHasDirectory'
  BY <1>1 DEF Agreement, BoxHasDirectory
<1>4. Locked' /\ Condemned' /\ DirectoryIsAccounted' /\ VisibleIsUsable' /\ WorkKeepsDirectory'
  BY <1>1 DEF Agreement, Locked, Condemned, DirectoryIsAccounted, VisibleIsUsable, WorkKeepsDirectory, _visible
<1>5. QED
  BY <1>2, <1>3, <1>4 DEF Agreement

\* A directory that docker makes anew is accounted for as such.
LEMMA MountKeepsAgreement ==
  ASSUME Kinds, Agreement, UNCHANGED toolVars, NEW t \in Thread, MountLate(t)
  PROVE  Agreement'
<1>1. /\ UNCHANGED <<at, row, purge, boxes, holder, cut, call>>
      /\ dirs' = dirs \cup {t} /\ revived' = revived \cup {t}
  BY DEF MountLate, toolVars
<1>2. Locked' /\ Emptied' /\ BoxHasDirectory'
  BY <1>1 DEF Agreement, Locked, Emptied, BoxHasDirectory
<1>3. Condemned' /\ DirectoryIsAccounted'
  BY <1>1 DEF Agreement, Condemned, DirectoryIsAccounted
<1>4. VisibleIsUsable' /\ WorkKeepsDirectory'
  BY <1>1 DEF Agreement, VisibleIsUsable, WorkKeepsDirectory, _visible
<1>5. QED
  BY <1>2, <1>3, <1>4 DEF Agreement

\* Submissions and runs keep the agreement.
LEMMA SubmitKeepsAgreement ==
  ASSUME Kinds, Agreement, SubmitStep, UNCHANGED toolVars
  PROVE  Agreement'
<1>a. Request \subseteq Actor
  BY DEF Actor
<1>c. UNCHANGED call
  BY DEF toolVars
<1> USE <1>a, <1>c DEF threadVars, submitVars
<1>1. ASSUME NEW q \in Request, NEW t \in Thread, SubmitRun(q, t) \/ RenameThread(q, t)
      PROVE  Agreement'
  BY <1>1, PutEffect, QuietKeepsAgreement
     DEF SubmitRun, RenameThread, update, Kinds, ThreadKinds, Place, Quiet
<1>2. ASSUME NEW q \in Request, CheckSlots(q) \/ CheckPending(q) \/ submit(q) \/ compose(q) \/ _ask(q)
      PROVE  Agreement'
  <2>1. PICK place \in {"counting", "admitted", "naming", "asking", "done"} : Put(q, place, at[q].thread)
    BY <1>2 DEF CheckSlots, CheckPending, Refuse, submit, compose, _ask
  <2>2. /\ at[q].place # "making" /\ at[q].thread \in Thread
        /\ UNCHANGED <<row, purge, dirs, boxes, holder, cut, revived>>
    BY <1>2 DEF CheckSlots, CheckPending, submit, compose, _ask, Kinds, Placed
  <2>3. at'[q].place \in Quiet /\ \A b \in Actor : b # q => at'[b] = at[b]
    BY <2>1, <2>2, PutEffect DEF Kinds, ThreadKinds, Place, Quiet
  <2>4. QED
    BY <2>2, <2>3, QuietKeepsAgreement
<1>3. ASSUME NEW q \in Request, Begin(q) \/ Stop(q) \/ resume(q)
      PROVE  Agreement'
  BY <1>3, QuietKeepsAgreement DEF Begin, Stop, resume
<1>4. ASSUME NEW t \in Thread, Reclaim(t)
      PROVE  Agreement'
  BY <1>4, QuietKeepsAgreement DEF Reclaim, ForgetBox
<1>5. CASE Midnight
  BY <1>5, QuietKeepsAgreement DEF Midnight
<1>6. QED
  BY <1>1, <1>2, <1>3, <1>4, <1>5, AcquireKeepsAgreement, MountKeepsAgreement DEF SubmitStep

\* A tool call keeps the agreement.
LEMMA ToolsKeepAgreement ==
  ASSUME Kinds, Agreement, NEW n \in Attempt,
         SendCall(n) \/ LookUp(n) \/ LookUpBlind(n) \/ HangUp(n) \/ _remember(n)
  PROVE  Agreement'
<1>a. /\ Request \subseteq Actor /\ Nobody \notin Actor /\ ToolThread \in Thread
      /\ \A k \in Attempt : k \notin Actor /\ k # Nobody
  BY ThreadsAssumption, ToolAssumption DEF Actor, Attempt
<1>b. UNCHANGED <<at, row, purge, dirs, boxes, cut, revived>>
  BY DEF SendCall, LookUp, LookUpBlind, HangUp, _remember, threadVars, submitVars
<1>c. call \in [Attempt -> CallPlace] /\ holder \in [Thread -> Actor \cup Attempt \cup {Nobody}]
  BY DEF Kinds, ThreadKinds, ToolKinds
<1> USE <1>a, <1>b, <1>c DEF At
<1>1. CASE UNCHANGED holder /\ call'[n] # "running" /\ \A k \in Attempt \ {n} : call'[k] = call[k]
  BY <1>1, QuietKeepsAgreement
<1>2. CASE UNCHANGED <<holder, call>>
  BY <1>2, QuietKeepsAgreement
<1>3. CASE /\ Free(ToolThread) /\ ToolThread \in dirs
           /\ At(n, "running") /\ holder' = [holder EXCEPT ![ToolThread] = n]
  <2>1. Locked'
    BY <1>3 DEF Agreement, Locked, Free, Kinds, Placed
  <2>2. WorkKeepsDirectory'
    BY <1>3 DEF Agreement, WorkKeepsDirectory
  <2>3. QED
    BY <2>1, <2>2 DEF Agreement, Emptied, Condemned, DirectoryIsAccounted, BoxHasDirectory, VisibleIsUsable,
                      _visible
<1>4. CASE _remember(n)
  <2>1. call[n] = "running" /\ At(n, "over") /\ holder' = [holder EXCEPT ![ToolThread] = Nobody]
    BY <1>4 DEF _remember
  <2>2. holder[ToolThread] = n
    BY <2>1 DEF Agreement, Locked
  <2>3. Locked'
    BY <2>1, <2>2 DEF Agreement, Locked, Kinds, Placed
  <2>4. WorkKeepsDirectory'
    BY <2>1 DEF Agreement, WorkKeepsDirectory
  <2>5. QED
    BY <2>3, <2>4 DEF Agreement, Emptied, Condemned, DirectoryIsAccounted, BoxHasDirectory, VisibleIsUsable,
                      _visible
<1>5. CASE SendCall(n) \/ HangUp(n)
  BY <1>1, <1>2, <1>5 DEF SendCall, HangUp, threadVars
<1>6. CASE LookUp(n) \/ LookUpBlind(n)
  BY <1>1, <1>3, <1>6 DEF LookUp, LookUpBlind
<1>7. QED
  BY <1>4, <1>5, <1>6

\* So does a request for files.
LEMMA FilesKeepAgreement ==
  ASSUME Kinds, Agreement, FileStep, UNCHANGED <<submitVars, toolVars>>
  PROVE  Agreement'
<1>a. /\ Request \subseteq Actor /\ Nobody \notin Actor
      /\ \A k \in Attempt : k \notin Actor /\ k # Nobody
  BY ThreadsAssumption, ToolAssumption DEF Actor, Attempt
<1>c. UNCHANGED call
  BY DEF toolVars
<1> USE <1>a, <1>c DEF threadVars, submitVars, Answer, Reach
<1>1. ASSUME NEW q \in Request, NEW t \in Thread, OpenFiles(q, t)
      PROVE  Agreement'
  BY <1>1, PutEffect, QuietKeepsAgreement DEF OpenFiles, Kinds, ThreadKinds, Place, Quiet
<1>2. ASSUME NEW q \in Request, Unreached(q) \/ NoDirectory(q)
      PROVE  Agreement'
  BY <1>2, PutEffect, QuietKeepsAgreement
     DEF Unreached, NoDirectory, Kinds, ThreadKinds, Placed, Place, Quiet
<1>3. ASSUME NEW q \in Request, EnterDirectory(q)
      PROVE  Agreement'
  <2>1. /\ at[q].place = "reaching" /\ at[q].thread \in dirs /\ Free(at[q].thread) /\ at[q].thread \in Thread
        /\ at'[q].place = "filing" /\ at'[q].thread = at[q].thread
        /\ \A b \in Actor : b # q => at'[b] = at[b]
        /\ holder' = [holder EXCEPT ![at[q].thread] = q]
        /\ UNCHANGED <<row, purge, dirs, boxes, cut, revived>>
    BY <1>3, PutEffect DEF EnterDirectory, Kinds, ThreadKinds, Placed, Place
  <2>2. Locked'
    BY <2>1, ToolAssumption DEF Agreement, Locked, Free, Kinds, ThreadKinds, Placed
  <2>3. WorkKeepsDirectory'
    BY <2>1 DEF Agreement, WorkKeepsDirectory
  <2>4. Emptied' /\ Condemned' /\ DirectoryIsAccounted' /\ BoxHasDirectory'
    BY <2>1 DEF Agreement, Emptied, Condemned, DirectoryIsAccounted, BoxHasDirectory
  <2>5. VisibleIsUsable'
    BY <2>1 DEF Agreement, VisibleIsUsable, _visible
  <2>6. QED
    BY <2>2, <2>3, <2>4, <2>5 DEF Agreement
<1>4. ASSUME NEW q \in Request, Within(q)
      PROVE  Agreement'
  <2>1. /\ at[q].place = "filing" /\ at[q].thread \in Thread /\ at'[q].place = "done"
        /\ \A b \in Actor : b # q => at'[b] = at[b]
        /\ holder' = [holder EXCEPT ![at[q].thread] = Nobody]
        /\ UNCHANGED <<row, purge, dirs, boxes, cut, revived>>
    BY <1>4, PutEffect DEF Within, Kinds, ThreadKinds, Placed, Place
  <2>h. holder[at[q].thread] = q
    BY <2>1 DEF Agreement, Locked
  <2>2. Locked'
    BY <2>1, <2>h, ToolAssumption DEF Agreement, Locked, Kinds, ThreadKinds, Placed
  <2>3. WorkKeepsDirectory'
    BY <2>1 DEF Agreement, WorkKeepsDirectory
  <2>4. Emptied' /\ Condemned' /\ DirectoryIsAccounted' /\ BoxHasDirectory'
    BY <2>1 DEF Agreement, Emptied, Condemned, DirectoryIsAccounted, BoxHasDirectory
  <2>5. VisibleIsUsable'
    BY <2>1 DEF Agreement, VisibleIsUsable, _visible
  <2>6. QED
    BY <2>2, <2>3, <2>4, <2>5 DEF Agreement
<1>5. QED
  BY <1>1, <1>2, <1>3, <1>4 DEF FileStep, save, remove, browse

\* Every step keeps the agreement.
LEMMA StepAgreement == Kinds /\ Agreement /\ [WorkbenchNext]_vars => Agreement'
<1> SUFFICES ASSUME Kinds, Agreement, [WorkbenchNext]_vars PROVE Agreement'
  OBVIOUS
<1>1. CASE ThreadStep /\ UNCHANGED <<submitVars, toolVars>>
  <2>1. CASE \E q \in Request :
               \/ \E t \in Thread : create(q, t) \/ RequireThread(q, t)
               \/ MakeDirectory(q) \/ MakeFails(q) \/ Undo(q, Referred(at[q].thread)) \/ delete(q)
    BY <1>1, <2>1, RequestsKeepAgreement, ToolAssumption
  <2>2. CASE \/ \E t \in Thread : pending_purge(t)
             \/ \E a \in Actor : \/ DestroyBox(a) \/ RemoveDirectory(a)
                                 \/ fail_purge(a) \/ complete_purge(a) \/ Die(a)
    BY <1>1, <2>2, PurgesKeepAgreement, ToolAssumption DEF Actor
  <2>3. QED
    BY <1>1, <2>1, <2>2 DEF ThreadStep
<1>2. CASE SubmitStep /\ UNCHANGED <<toolVars, files>>
  BY <1>2, SubmitKeepsAgreement
<1>3. CASE FileStep /\ UNCHANGED <<submitVars, toolVars>>
  BY <1>3, FilesKeepAgreement
<1>4. CASE ToolStep
  BY <1>4, ToolsKeepAgreement DEF ToolStep
<1>5. CASE UNCHANGED vars
  BY <1>5, QuietKeepsAgreement DEF vars, threadVars, submitVars, toolVars
<1>6. QED
  BY <1>1, <1>2, <1>3, <1>4, <1>5 DEF WorkbenchNext

--------------------------------------------------------------------------------
\* The history of the command holds at the start.
LEMMA LostInitially == WorkbenchInit => Lost
BY DEF WorkbenchInit, ToolCallsInit, Lost, RunsOnce

\* A step of a tool call keeps it: nobody else runs the command, since it holds the lock.
LEMMA ToolsKeepLost ==
  ASSUME Kinds, Agreement, Lost, NEW n \in Attempt,
         SendCall(n) \/ LookUp(n) \/ LookUpBlind(n) \/ HangUp(n) \/ _remember(n)
  PROVE  Lost'
<1>a. ToolThread \in Thread /\ \A k \in Attempt : k # Nobody
  BY ToolAssumption DEF Attempt
<1>b. /\ call \in [Attempt -> CallPlace] /\ ran \in Nat /\ misses \in Nat
      /\ \A k \in Attempt : call[k] = "running" => holder[ToolThread] = k
  BY DEF Kinds, ToolKinds, Agreement, Locked
<1> USE <1>a, <1>b DEF Lost, RunsOnce, Running, At
<1>1. CASE SendCall(n)
  BY <1>1 DEF SendCall
<1>2. CASE LookUp(n)
  BY <1>2 DEF LookUp, Free
<1>3. CASE LookUpBlind(n)
  BY <1>3 DEF LookUpBlind, Free
<1>4. CASE HangUp(n)
  BY <1>4 DEF HangUp
<1>5. CASE _remember(n)
  <2>1. \A k \in Attempt : call[k] = "running" => k = n
    BY <1>5 DEF _remember
  <2>2. CASE remembered' = TRUE /\ misses' = misses
    BY <1>5, <2>2 DEF _remember
  <2>3. CASE misses' = misses + 1
    BY <1>5, <2>3 DEF _remember
  <2>4. QED
    BY <1>5, <2>2, <2>3 DEF _remember
<1>6. QED
  BY <1>1, <1>2, <1>3, <1>4, <1>5

\* Every step keeps it.
LEMMA StepLost == Kinds /\ Agreement /\ Lost /\ [WorkbenchNext]_vars => Lost'
<1> SUFFICES ASSUME Kinds, Agreement, Lost, [WorkbenchNext]_vars PROVE Lost'
  OBVIOUS
<1>1. CASE UNCHANGED toolVars
  BY <1>1 DEF toolVars, Lost, RunsOnce, Running
<1>2. CASE ToolStep
  BY <1>2, ToolsKeepLost DEF ToolStep
<1>3. QED
  BY <1>1, <1>2 DEF WorkbenchNext, vars

--------------------------------------------------------------------------------
(* The bounds of the counters: attempts are finite in number. *)

Begun == {n \in Attempt : call[n] \in {"running", "over"}}
Over  == {n \in Attempt : call[n] = "over"}

\* Any set of attempts has at most MaxAttempt members.
LEMMA AttemptsFinite ==
  ASSUME NEW S \in SUBSET Attempt
  PROVE  IsFiniteSet(S) /\ Cardinality(S) \in Nat /\ Cardinality(S) <= MaxAttempt
<1>1. IsFiniteSet(Attempt) /\ Cardinality(Attempt) = MaxAttempt
  BY ToolAssumption, FS_Interval DEF Attempt
<1>2. QED
  BY <1>1, FS_Subset, FS_CardinalityType

\* The set of attempts that have begun grows by the one that begins, and the set of those
\* that are over by the one that ends.
LEMMA CountsGrow ==
  ASSUME NEW S \in SUBSET Attempt, NEW T \in SUBSET Attempt, S \subseteq T
  PROVE  /\ Cardinality(S) <= Cardinality(T)
         /\ \A n \in T \ S : Cardinality(S) + 1 <= Cardinality(T)
<1>1. IsFiniteSet(T) /\ IsFiniteSet(S) /\ Cardinality(S) \in Nat /\ Cardinality(T) \in Nat
  BY AttemptsFinite
<1>2. Cardinality(S) <= Cardinality(T)
  BY <1>1, FS_Subset
<1>3. ASSUME NEW n \in T \ S PROVE Cardinality(S) + 1 <= Cardinality(T)
  <2>1. S \cup {n} \subseteq T /\ Cardinality(S \cup {n}) = Cardinality(S) + 1
    BY <1>1, <1>3, FS_AddElement
  <2>2. QED
    BY <1>1, <2>1, FS_Subset
<1>4. QED
  BY <1>2, <1>3

\* A step counts one fault or none.
LEMMA StepFaults == [WorkbenchNext]_vars => faults' = faults \/ faults' = faults + 1
<1> SUFFICES ASSUME [WorkbenchNext]_vars PROVE faults' = faults \/ faults' = faults + 1
  OBVIOUS
<1> USE DEF threadVars, Fault
<1>1. CASE ThreadStep
  BY <1>1 DEF ThreadStep, create, RequireThread, MakeDirectory, MakeFails, Undo, delete, pending_purge,
              DestroyBox, ForgetBox, RemoveDirectory, fail_purge, complete_purge, Die
<1>2. CASE SubmitStep
  BY <1>2 DEF SubmitStep, SubmitRun, RenameThread, update, CheckSlots, CheckPending, submit, compose, _ask,
              Begin, acquire, AbandonStart, Stop, resume, Reclaim, ForgetBox, MountLate, Midnight
<1>3. CASE FileStep
  BY <1>3 DEF FileStep, OpenFiles, Unreached, EnterDirectory, NoDirectory, save, remove, browse
<1>4. CASE ToolStep
  BY <1>4 DEF ToolStep, SendCall, LookUp, LookUpBlind, HangUp, _remember
<1>5. CASE UNCHANGED vars
  BY <1>5 DEF vars
<1>6. QED
  BY <1>1, <1>2, <1>3, <1>4, <1>5 DEF WorkbenchNext

\* The counts hold at the start.
LEMMA CountedInitially == WorkbenchInit => Counted
BY AttemptsFinite DEF WorkbenchInit, ThreadsInit, ToolCallsInit, Counted

\* Every step keeps them.
LEMMA StepCounted == Kinds /\ Counted /\ [WorkbenchNext]_vars => Counted'
<1> SUFFICES ASSUME Kinds, Counted, [WorkbenchNext]_vars PROVE Counted'
  OBVIOUS
<1>k. /\ call \in [Attempt -> CallPlace] /\ ran \in Nat /\ misses \in Nat /\ faults \in Nat
      /\ ran <= Cardinality(Begun) /\ misses <= faults + Cardinality(Over)
  BY DEF Kinds, ToolKinds, ThreadKinds, Counted, Begun, Over
<1>s. /\ Begun \subseteq Attempt /\ Over \subseteq Attempt /\ Begun' \subseteq Attempt /\ Over' \subseteq Attempt
  BY DEF Begun, Over
<1>n. /\ Cardinality(Begun) \in Nat /\ Cardinality(Over) \in Nat
      /\ Cardinality(Begun') \in Nat /\ Cardinality(Over') \in Nat
  BY <1>s, AttemptsFinite
<1>f. faults' = faults \/ faults' = faults + 1
  BY StepFaults
<1>1. CASE UNCHANGED toolVars
  <2>1. Begun' = Begun /\ Over' = Over
    BY <1>1 DEF toolVars, Begun, Over
  <2>2. QED
    BY <1>1, <1>k, <1>n, <1>f, <2>1 DEF toolVars, Counted, Begun, Over
<1>2. ASSUME NEW n \in Attempt,
             SendCall(n) \/ LookUp(n) \/ LookUpBlind(n) \/ HangUp(n) \/ _remember(n)
      PROVE  Counted'
  <2>1. Begun \subseteq Begun' /\ Over \subseteq Over'
    BY <1>2, <1>k DEF SendCall, LookUp, LookUpBlind, HangUp, _remember, At, Begun, Over
  <2>2. Cardinality(Begun) <= Cardinality(Begun') /\ Cardinality(Over) <= Cardinality(Over')
    BY <1>s, <2>1, CountsGrow
  <2>3. ran' <= Cardinality(Begun')
    <3>1. CASE ran' = ran
      BY <1>k, <1>n, <2>2, <3>1
    <3>2. CASE ran' # ran
      <4>1. ran' = ran + 1 /\ n \in Begun' \ Begun
        BY <1>2, <1>k, <3>2 DEF SendCall, LookUp, LookUpBlind, HangUp, _remember, At, Begun
      <4>2. Cardinality(Begun) + 1 <= Cardinality(Begun')
        BY <1>s, <2>1, <4>1, CountsGrow
      <4>3. QED
        BY <1>k, <1>n, <4>1, <4>2
    <3>3. QED
      BY <3>1, <3>2
  <2>4. misses' <= faults' + Cardinality(Over')
    <3>1. CASE misses' = misses
      BY <1>k, <1>n, <1>f, <2>2, <3>1
    <3>2. CASE misses' = misses + 1 /\ faults' = faults + 1
      BY <1>k, <1>n, <2>2, <3>2
    <3>3. CASE misses' = misses + 1 /\ _remember(n)
      <4>1. n \in Over' \ Over
        BY <1>k, <3>3 DEF _remember, At, Over
      <4>2. Cardinality(Over) + 1 <= Cardinality(Over')
        BY <1>s, <2>1, <4>1, CountsGrow
      <4>3. QED
        BY <1>k, <1>n, <1>f, <3>3, <4>2
    <3>4. QED
      BY <1>2, <3>1, <3>2, <3>3 DEF SendCall, LookUp, LookUpBlind, HangUp, _remember, Fault
  <2>5. QED
    BY <2>3, <2>4 DEF Counted, Begun, Over
<1>3. QED
  BY <1>1, <1>2 DEF WorkbenchNext, vars, ToolStep

--------------------------------------------------------------------------------
(* The quota. *)

Active == {k \in Request \ outrun : run[k] \in ActiveStatus}

\* Sets of requests are finite, and a subset is not larger.
LEMMA RequestsFinite ==
  ASSUME NEW S \in SUBSET Request, NEW T \in SUBSET S
  PROVE  /\ IsFiniteSet(S) /\ Cardinality(S) \in Nat /\ Cardinality(T) \in Nat
         /\ Cardinality(T) <= Cardinality(S)
<1>1. IsFiniteSet(S)
  BY QuotaAssumption, FS_Subset
<1>2. QED
  BY <1>1, FS_Subset, FS_CardinalityType

\* There is room at the start, and nobody over the quota.
LEMMA RoomInitially == WorkbenchInit => OverQuotaOnlyIfRaced /\ Room
<1> SUFFICES ASSUME WorkbenchInit PROVE OverQuotaOnlyIfRaced /\ Room
  OBVIOUS
<1>1. {q \in Request \ outrun : run[q] \in ActiveStatus} = {}
  BY DEF WorkbenchInit, SubmissionsInit, ActiveStatus
<1>2. Cardinality({}) = 0
  BY FS_EmptySet
<1>3. QED
  BY <1>1, <1>2, QuotaAssumption DEF OverQuotaOnlyIfRaced, Room

\* A step that lets nobody else in, and starts no run, leaves the room there was.
LEMMA IdleKeepsRoom ==
  ASSUME OverQuotaOnlyIfRaced, Room, Active' \subseteq Active,
         Admitted' \ outrun' \subseteq Admitted \ outrun
  PROVE  OverQuotaOnlyIfRaced' /\ Room'
<1>1. Cardinality(Active') <= Cardinality(Active) /\ Cardinality(Active) \in Nat /\ Cardinality(Active') \in Nat
  BY RequestsFinite DEF Active
<1>2. Cardinality(Active) <= ConcurrentRun
  BY DEF OverQuotaOnlyIfRaced, Active
<1>3. \A q \in Admitted \ outrun : Cardinality(Active) < ConcurrentRun
  BY DEF Room, Active
<1>4. Cardinality(Active') <= ConcurrentRun
  BY <1>1, <1>2, QuotaAssumption
<1>5. \A q \in Admitted' \ outrun' : Cardinality(Active') < ConcurrentRun
  BY <1>1, <1>3, QuotaAssumption
<1>6. QED
  BY <1>4, <1>5 DEF OverQuotaOnlyIfRaced, Room, Active

\* Submissions keep the room.
LEMMA SubmitKeepsRoom ==
  ASSUME Kinds, OverQuotaOnlyIfRaced, Room, SubmitStep
  PROVE  OverQuotaOnlyIfRaced' /\ Room'
<1>k. /\ at \in Where /\ run \in [Request -> RunState] /\ Request \subseteq Actor
      /\ outrun \subseteq Request /\ Placed
  BY DEF Kinds, ThreadKinds, SubmitKinds, Actor
<1>q. ConcurrentRun \in Nat \ {0}
  BY QuotaAssumption
<1>1. ASSUME NEW q \in Request, NEW t \in Thread, SubmitRun(q, t) \/ RenameThread(q, t)
      PROVE  OverQuotaOnlyIfRaced' /\ Room'
  <2>1. /\ UNCHANGED <<run, outrun>> /\ at'[q].place \in {"spending", "done"}
        /\ \A b \in Actor : b # q => at'[b] = at[b]
    BY <1>1, <1>k, PutEffect DEF SubmitRun, RenameThread, update, Place, submitVars
  <2>2. Active' \subseteq Active /\ Admitted' \ outrun' \subseteq Admitted \ outrun
    BY <1>k, <2>1 DEF Active, Admitted
  <2>3. QED
    BY <2>2, IdleKeepsRoom
<1>2. ASSUME NEW q \in Request, CheckSlots(q)
      PROVE  OverQuotaOnlyIfRaced' /\ Room'
  <2>1. UNCHANGED <<run, outrun>> /\ at[q].thread \in Thread
    BY <1>2, <1>k DEF CheckSlots, submitVars, Placed
  <2>2. Active' = Active
    BY <2>1 DEF Active
  <2>3. CASE active_run < ConcurrentRun
    <3>1. Cardinality(Active) <= active_run /\ Cardinality(Active) \in Nat /\ active_run \in Nat
      BY RequestsFinite DEF Active, active_run
    <3>2. Cardinality(Active') < ConcurrentRun
      BY <1>q, <2>2, <2>3, <3>1
    <3>3. QED
      BY <1>q, <2>2, <3>1, <3>2 DEF OverQuotaOnlyIfRaced, Room, Active
  <2>4. CASE ~ (active_run < ConcurrentRun)
    <3>1. at'[q].place = "done" /\ \A b \in Actor : b # q => at'[b] = at[b]
      BY <1>2, <1>k, <2>1, <2>4, PutEffect DEF CheckSlots, Refuse, Place
    <3>2. Admitted' \ outrun' \subseteq Admitted \ outrun
      BY <1>k, <2>1, <3>1 DEF Admitted
    <3>3. QED
      BY <2>2, <3>2, IdleKeepsRoom
  <2>5. QED
    BY <2>3, <2>4
<1>3. ASSUME NEW q \in Request, CheckPending(q) \/ compose(q) \/ _ask(q)
      PROVE  OverQuotaOnlyIfRaced' /\ Room'
  <2>1. PICK place \in {"admitted", "asking", "done"} :
          Put(q, place, at[q].thread) /\ (place = "admitted" => at[q].place = "counting")
    BY <1>3 DEF CheckPending, Refuse, compose, _ask
  <2>2. UNCHANGED <<run, outrun>> /\ at[q].thread \in Thread
    BY <1>3, <1>k DEF CheckPending, compose, _ask, submitVars, Placed
  <2>3. at'[q].place = place /\ \A b \in Actor : b # q => at'[b] = at[b]
    BY <1>k, <2>1, <2>2, PutEffect DEF Place
  <2>4. Active' \subseteq Active /\ Admitted' \ outrun' \subseteq Admitted \ outrun
    BY <1>k, <2>1, <2>2, <2>3 DEF Active, Admitted
  <2>5. QED
    BY <2>4, IdleKeepsRoom
<1>4. ASSUME NEW q \in Request, submit(q)
      PROVE  OverQuotaOnlyIfRaced' /\ Room'
  <2>1. /\ at[q].place = "admitted" /\ at'[q].place = "naming"
        /\ \A b \in Actor : b # q => at'[b] = at[b]
        /\ run' = [run EXCEPT ![q] = "queued"] /\ outrun' = outrun \cup (Admitted \ {q})
    BY <1>4, <1>k, PutEffect DEF submit, Status, Placed, Place
  <2>2. Admitted' \ outrun' = {}
    BY <1>k, <2>1 DEF Admitted
  <2>3. Cardinality(Active') <= ConcurrentRun
    <3>n. Cardinality(Active) \in Nat /\ Cardinality(Active') \in Nat /\ IsFiniteSet(Active)
      BY RequestsFinite DEF Active
    <3>1. CASE q \in outrun
      <4>1. Active' \subseteq Active
        BY <1>k, <2>1, <3>1 DEF Active
      <4>2. Cardinality(Active') <= Cardinality(Active)
        BY <4>1, RequestsFinite DEF Active
      <4>3. QED
        BY <1>q, <3>n, <4>2 DEF OverQuotaOnlyIfRaced, Active
    <3>2. CASE q \notin outrun
      <4>1. Active' \subseteq Active \cup {q} /\ Active \cup {q} \subseteq Request
        BY <1>k, <2>1 DEF Active
      <4>2. Cardinality(Active') <= Cardinality(Active \cup {q})
        BY <4>1, RequestsFinite
      <4>3. Cardinality(Active \cup {q}) <= Cardinality(Active) + 1 /\ Cardinality(Active \cup {q}) \in Nat
        <5>1. Cardinality(Active \cup {q}) = IF q \in Active THEN Cardinality(Active) ELSE Cardinality(Active) + 1
          BY <3>n, FS_AddElement
        <5>2. QED
          BY <3>n, <5>1
      <4>4. Cardinality(Active) < ConcurrentRun
        BY <2>1, <3>2 DEF Room, Admitted, Active
      <4>5. QED
        BY <1>q, <3>n, <4>2, <4>3, <4>4
    <3>3. QED
      BY <3>1, <3>2
  <2>4. QED
    BY <2>2, <2>3 DEF OverQuotaOnlyIfRaced, Room, Active
<1>5. ASSUME NEW q \in Request, Begin(q) \/ acquire(q) \/ AbandonStart(q) \/ Stop(q) \/ resume(q)
      PROVE  OverQuotaOnlyIfRaced' /\ Room'
  <2>1. UNCHANGED at /\ outrun \subseteq outrun'
    BY <1>5 DEF Begin, acquire, AbandonStart, Stop, resume
  <2>2. PICK s \in RunState : Status(q, s) /\ (run[q] \in ActiveStatus \/ q \in outrun')
    BY <1>5 DEF Begin, acquire, AbandonStart, Stop, resume, ActiveStatus, RunState
  <2>3. Active' \subseteq Active
    BY <1>k, <2>1, <2>2 DEF Active, Status
  <2>4. Admitted' \ outrun' \subseteq Admitted \ outrun
    BY <2>1 DEF Admitted
  <2>5. QED
    BY <2>3, <2>4, IdleKeepsRoom
<1>6. CASE (\E t \in Thread : Reclaim(t) \/ MountLate(t)) \/ Midnight
  <2>1. UNCHANGED <<at, run, outrun>>
    BY <1>6 DEF Reclaim, MountLate, Midnight, submitVars
  <2>2. Active' \subseteq Active /\ Admitted' \ outrun' \subseteq Admitted \ outrun
    BY <2>1 DEF Active, Admitted
  <2>3. QED
    BY <2>2, IdleKeepsRoom
<1>7. QED
  BY <1>1, <1>2, <1>3, <1>4, <1>5, <1>6 DEF SubmitStep

\* A request for conversations or files moves one actor, and not to a place where a run is
\* admitted or a title composed.
LEMMA OthersMove ==
  ASSUME Kinds, ThreadStep \/ FileStep
  PROVE  \E a \in Actor :
            /\ at'[a].place \notin {"counting", "admitted", "asking"}
            /\ \A b \in Actor : b # a => at'[b] = at[b]
<1>k. at \in Where /\ Request \subseteq Actor /\ Reaper \in Actor /\ Placed
  BY DEF Kinds, ThreadKinds, Actor
<1> DEFINE Moves == \E a \in Actor :
                      /\ at'[a].place \notin {"counting", "admitted", "asking"}
                      /\ \A b \in Actor : b # a => at'[b] = at[b]
<1>1. ASSUME NEW a \in Actor, NEW place \in Place \ {"counting", "admitted", "asking"},
             NEW t \in Thread \cup {NoThread}, Put(a, place, t)
      PROVE  Moves
  BY <1>k, <1>1, PutEffect
<1>2. ASSUME NEW a \in Actor, Leave(a)
      PROVE  Moves
  BY <1>k, <1>2, LeaveEffect
<1> HIDE DEF Moves
<1>3. ASSUME NEW q \in Request, NEW t \in Thread, create(q, t) \/ RequireThread(q, t) \/ OpenFiles(q, t)
      PROVE  Moves
  BY <1>k, <1>1, <1>3 DEF create, RequireThread, OpenFiles, Reach, Place
<1>4. ASSUME NEW q \in Request, \/ MakeDirectory(q) \/ MakeFails(q) \/ Undo(q, Referred(at[q].thread)) \/ delete(q)
      PROVE  Moves
  BY <1>k, <1>1, <1>4 DEF MakeDirectory, MakeFails, Undo, delete, Place, Placed
<1>5. ASSUME NEW t \in Thread, pending_purge(t)
      PROVE  Moves
  BY <1>k, <1>1, <1>5 DEF pending_purge, Place
<1>6. ASSUME NEW a \in Actor, DestroyBox(a) \/ RemoveDirectory(a)
      PROVE  Moves
  BY <1>k, <1>1, <1>6 DEF DestroyBox, RemoveDirectory, Place, Placed
<1>7. ASSUME NEW a \in Actor, fail_purge(a) \/ complete_purge(a) \/ Die(a)
      PROVE  Moves
  BY <1>2, <1>7 DEF fail_purge, complete_purge, Die
<1>8. ASSUME NEW q \in Request, Unreached(q) \/ EnterDirectory(q) \/ NoDirectory(q) \/ Within(q)
      PROVE  Moves
  BY <1>k, <1>1, <1>8 DEF Unreached, EnterDirectory, NoDirectory, Within, Answer, Place, Placed
<1>9. Moves
  BY <1>3, <1>4, <1>5, <1>6, <1>7, <1>8 DEF ThreadStep, FileStep, save, remove, browse
<1>10. QED
  BY <1>9 DEF Moves

\* So it lets nobody in, and starts no run.
LEMMA OthersKeepRoom ==
  ASSUME Kinds, OverQuotaOnlyIfRaced, Room, ThreadStep \/ FileStep, UNCHANGED submitVars
  PROVE  OverQuotaOnlyIfRaced' /\ Room'
<1>1. Admitted' \subseteq Admitted
  BY OthersMove DEF Admitted, Actor
<1>2. Active' = Active /\ Admitted' \ outrun' \subseteq Admitted \ outrun
  BY <1>1 DEF Active, submitVars
<1>3. QED
  BY <1>2, IdleKeepsRoom

\* Every step keeps the room.
LEMMA StepRoom ==
  Kinds /\ OverQuotaOnlyIfRaced /\ Room /\ [WorkbenchNext]_vars => OverQuotaOnlyIfRaced' /\ Room'
<1> SUFFICES ASSUME Kinds, OverQuotaOnlyIfRaced, Room, [WorkbenchNext]_vars
             PROVE  OverQuotaOnlyIfRaced' /\ Room'
  OBVIOUS
<1>1. CASE SubmitStep
  BY <1>1, SubmitKeepsRoom
<1>2. CASE (ThreadStep \/ FileStep) /\ UNCHANGED submitVars
  BY <1>2, OthersKeepRoom
<1>3. CASE UNCHANGED <<at, submitVars>>
  <2>1. Active' = Active /\ Admitted' \ outrun' \subseteq Admitted \ outrun
    BY <1>3 DEF Active, Admitted, submitVars
  <2>2. QED
    BY <2>1, IdleKeepsRoom
<1>4. ToolStep => UNCHANGED <<at, submitVars>>
  BY DEF ToolStep, SendCall, LookUp, LookUpBlind, HangUp, _remember
<1>5. QED
  BY <1>1, <1>2, <1>3, <1>4 DEF WorkbenchNext, vars

--------------------------------------------------------------------------------
(* The titles. *)

\* Nobody composes at the start.
LEMMA ComposingInitially == WorkbenchInit => Composing
BY DEF WorkbenchInit, ThreadsInit, Composing, Actor

\* A request for conversations or files neither writes a title nor lets a composer in.
LEMMA OthersKeepTitles ==
  ASSUME Kinds, Composing, ThreadStep \/ FileStep, UNCHANGED submitVars
  PROVE  Composing' /\ UNCHANGED title
<1>1. UNCHANGED title
  BY DEF ThreadStep, FileStep, create, RequireThread, MakeDirectory, MakeFails, Undo, delete, pending_purge,
         DestroyBox, RemoveDirectory, fail_purge, complete_purge, Die, OpenFiles, Unreached, EnterDirectory,
         NoDirectory, save, remove, browse, Within, threadVars
<1>2. Composing'
  BY <1>1, OthersMove DEF Composing, Actor, submitVars
<1>3. QED
  BY <1>1, <1>2

\* What a step of a submission or of a run writes into a title.
LEMMA SubmitKeepsTitles ==
  ASSUME Kinds, Composing, SubmitStep
  PROVE  /\ Composing'
         /\ \A t \in Thread : title[t] = "typed" /\ title'[t] = "composed" =>
              \E q \in early : at[q].place = "asking" /\ at'[q].place = "done"
<1>k. /\ at \in Where /\ Request \subseteq Actor /\ Placed /\ title \in [Thread -> TitleKind]
      /\ early \subseteq Request
  BY DEF Kinds, ThreadKinds, SubmitKinds, Actor
<1> DEFINE Stands == \A t \in Thread : title[t] = "typed" /\ title'[t] = "composed" =>
                       \E q \in early : at[q].place = "asking" /\ at'[q].place = "done"
<1> USE DEF threadVars, submitVars
<1>1. ASSUME NEW q \in Request, NEW t \in Thread, SubmitRun(q, t)
      PROVE  Composing' /\ Stands
  <2>1. /\ at'[q].place = "spending" /\ \A b \in Actor : b # q => at'[b] = at[b]
        /\ UNCHANGED <<title, early>>
    BY <1>k, <1>1, PutEffect DEF SubmitRun, Place
  <2>2. QED
    BY <1>k, <2>1 DEF Composing
<1>2. ASSUME NEW q \in Request, NEW t \in Thread, RenameThread(q, t)
      PROVE  Composing' /\ Stands
  <2>1. /\ at'[q].place = "done" /\ \A b \in Actor : b # q => at'[b] = at[b]
        /\ title' = [title EXCEPT ![t] = "typed"]
        /\ early' = early \cup {c \in Request : at[c].place = "asking" /\ at[c].thread = t}
    BY <1>k, <1>2, PutEffect DEF RenameThread, update, Place
  <2>2. Composing'
    BY <1>k, <2>1 DEF Composing
  <2>3. Stands
    BY <1>k, <2>1
  <2>4. QED
    BY <2>2, <2>3
<1>3. ASSUME NEW q \in Request, CheckSlots(q) \/ CheckPending(q) \/ submit(q)
      PROVE  Composing' /\ Stands
  <2>1. PICK place \in {"counting", "admitted", "naming", "done"} : Put(q, place, at[q].thread)
    BY <1>3 DEF CheckSlots, CheckPending, Refuse, submit
  <2>2. at[q].thread \in Thread /\ UNCHANGED <<title, early>>
    BY <1>k, <1>3 DEF CheckSlots, CheckPending, submit, Placed
  <2>3. at'[q].place = place /\ \A b \in Actor : b # q => at'[b] = at[b]
    BY <1>k, <2>1, <2>2, PutEffect DEF Place
  <2>4. QED
    BY <1>k, <2>2, <2>3 DEF Composing
<1>4. ASSUME NEW q \in Request, compose(q)
      PROVE  Composing' /\ Stands
  <2>1. /\ at[q].thread \in Thread /\ UNCHANGED <<title, early>>
        /\ \E place \in {"asking", "done"} :
             /\ Put(q, place, at[q].thread)
             /\ place = "asking" => title[at[q].thread] = "empty"
    BY <1>k, <1>4 DEF compose, Placed
  <2>2. /\ at'[q].place = "asking" => at'[q].thread = at[q].thread /\ title[at[q].thread] = "empty"
        /\ \A b \in Actor : b # q => at'[b] = at[b]
    BY <1>k, <2>1, PutEffect DEF Place
  <2>3. QED
    BY <1>k, <2>1, <2>2 DEF Composing
<1>5. ASSUME NEW q \in Request, _ask(q)
      PROVE  Composing' /\ Stands
  <2>1. /\ at[q].place = "asking" /\ at[q].thread \in Thread /\ at'[q].place = "done"
        /\ \A b \in Actor : b # q => at'[b] = at[b]
        /\ title' = title \/ title' = [title EXCEPT ![at[q].thread] = "composed"]
        /\ early' = early \ {q}
    BY <1>k, <1>5, PutEffect DEF _ask, Placed, Place
  <2>2. Composing'
    BY <1>k, <2>1 DEF Composing, Placed
  <2>3. Stands
    BY <1>k, <2>1 DEF Composing
  <2>4. QED
    BY <2>2, <2>3
<1>6. ASSUME UNCHANGED <<at, title, early>>
      PROVE  Composing' /\ Stands
  BY <1>k, <1>6 DEF Composing
<1>7. ASSUME NEW q \in Request, Begin(q) \/ acquire(q) \/ AbandonStart(q) \/ Stop(q) \/ resume(q)
      PROVE  Composing' /\ Stands
  BY <1>6, <1>7 DEF Begin, acquire, AbandonStart, Stop, resume
<1>8. CASE (\E t \in Thread : Reclaim(t) \/ MountLate(t)) \/ Midnight
  BY <1>6, <1>8 DEF Reclaim, MountLate, Midnight
<1>9. QED
  BY <1>1, <1>2, <1>3, <1>4, <1>5, <1>7, <1>8 DEF SubmitStep

\* Every step keeps the composers honest, and a typed title from the others.
LEMMA StepTitles ==
  ASSUME Kinds, Composing, [WorkbenchNext]_vars
  PROVE  /\ Composing'
         /\ \A t \in Thread : title[t] = "typed" /\ title'[t] = "composed" =>
              \E q \in early : at[q].place = "asking" /\ at'[q].place = "done"
<1>1. CASE SubmitStep
  BY <1>1, SubmitKeepsTitles
<1>2. CASE (ThreadStep \/ FileStep) /\ UNCHANGED submitVars
  BY <1>2, OthersKeepTitles
<1>3. CASE UNCHANGED <<at, title, early>>
  BY <1>3 DEF Composing
<1>4. ToolStep => UNCHANGED <<at, title, early>>
  BY DEF ToolStep, SendCall, LookUp, LookUpBlind, HangUp, _remember, threadVars, submitVars
<1>5. QED
  BY <1>1, <1>2, <1>3, <1>4 DEF WorkbenchNext, vars, threadVars, submitVars

--------------------------------------------------------------------------------
(* The results. *)

\* The inductive invariant of the conversations.
WorkbenchIInv ==
    Kinds /\ Agreement /\ Lost /\ Counted /\ OverQuotaOnlyIfRaced /\ Room /\ Composing

\* It holds always.
LEMMA WorkbenchInductive == WorkbenchSpec => []WorkbenchIInv
<1>1. WorkbenchInit => WorkbenchIInv
  BY KindsInitially, AgreementInitially, LostInitially, CountedInitially, RoomInitially, ComposingInitially
     DEF WorkbenchIInv
<1>2. WorkbenchIInv /\ [WorkbenchNext]_vars => WorkbenchIInv'
  BY StepKinds, StepAgreement, StepLost, StepCounted, StepRoom, StepTitles DEF WorkbenchIInv
<1>3. QED
  BY <1>1, <1>2, PTL DEF WorkbenchSpec

\* The kinds with the bounds of the counters are the type invariant.
LEMMA TypeFromKinds == Kinds /\ Counted => WorkbenchTypeOK
<1> SUFFICES ASSUME Kinds, Counted PROVE WorkbenchTypeOK
  OBVIOUS
<1>1. /\ Cardinality(Begun) \in Nat /\ Cardinality(Begun) <= MaxAttempt
      /\ Cardinality(Over) \in Nat /\ Cardinality(Over) <= MaxAttempt
  BY AttemptsFinite DEF Begun, Over
<1>2. ran \in 0..MaxAttempt /\ misses \in 0..MaxAttempt + MaxFault
  BY <1>1, ToolAssumption, ThreadsAssumption DEF Kinds, ThreadKinds, ToolKinds, Counted, Begun, Over
<1>3. QED
  BY <1>2 DEF Kinds, ThreadKinds, SubmitKinds, ToolKinds, WorkbenchTypeOK, Where

\* Directories, containers and running commands in the broker agree with the rows of the
\* conversations at every moment, whatever requests, runs, reaper and faults interleave
\* (app/api/route/thread.py, app/thread/reaper.py, app/broker/route.py).
THEOREM ConversationsAgree == WorkbenchSpec => []WorkbenchInv
<1>1. WorkbenchIInv => WorkbenchInv
  BY TypeFromKinds DEF WorkbenchIInv, WorkbenchInv, Agreement
<1>2. QED
  BY <1>1, WorkbenchInductive, PTL

\* A command of a tool call runs again only if the table of results lost it
\* (app/broker/route.py, _execute under the thread's lock).
THEOREM CommandsRunOnce == WorkbenchSpec => []RunsOnce
<1>1. WorkbenchIInv => RunsOnce
  BY DEF WorkbenchIInv, Lost
<1>2. QED
  BY <1>1, WorkbenchInductive, PTL

\* Beyond the quota of concurrent runs there are only runs admitted on a stale count, or
\* resumed after an approval (app/quota, app/run/submitter.py).
THEOREM QuotaHoldsUnlessRaced == WorkbenchSpec => []OverQuotaOnlyIfRaced
<1>1. WorkbenchIInv => OverQuotaOnlyIfRaced
  BY DEF WorkbenchIInv
<1>2. QED
  BY <1>1, WorkbenchInductive, PTL

\* A typed title is replaced only by a composer that had looked before (app/thread/title.py).
THEOREM TitlesStand == WorkbenchSpec => TypedTitleStands
<1> DEFINE Stands == \A t \in Thread : title[t] = "typed" /\ title'[t] = "composed" =>
                       \E q \in early : at[q].place = "asking" /\ at'[q].place = "done"
<1>1. WorkbenchIInv /\ [WorkbenchNext]_vars => [Stands]_vars
  BY StepTitles DEF WorkbenchIInv
<1>2. QED
  BY <1>1, WorkbenchInductive, PTL DEF WorkbenchSpec, TypedTitleStands

================================================================================
