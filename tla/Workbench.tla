------------------------------ MODULE Workbench ------------------------------
(***************************************************************************)
(* A user's conversations as a whole: the requests of the api, the reaper, *)
(* the runs' use of the broker and one tool call.                          *)
(***************************************************************************)
EXTENDS FileRequests

vars == <<at, threadVars, submitVars, toolVars, files>>

WorkbenchInit == ThreadsInit /\ SubmissionsInit /\ ToolCallsInit /\ FilesInit

\* A run refers to the thread: the row cannot be removed.
Referred(t) == \E q \in Request : of[q] = t

ThreadStep ==
    \/ \E q \in Request :
        \/ \E t \in Thread : create(q, t) \/ RequireThread(q, t)
        \/ MakeDirectory(q) \/ MakeFails(q)
        \/ Undo(q, Referred(at[q].thread))
        \/ delete(q)
    \/ \E t \in Thread : pending_purge(t)
    \/ \E a \in Actor : DestroyBox(a) \/ RemoveDirectory(a) \/ fail_purge(a) \/ complete_purge(a) \/ Die(a)

SubmitStep ==
    \/ \E q \in Request :
        \/ \E t \in Thread : SubmitRun(q, t) \/ RenameThread(q, t)
        \/ CheckSlots(q) \/ CheckPending(q) \/ submit(q) \/ compose(q) \/ _ask(q)
        \/ Begin(q) \/ acquire(q) \/ AbandonStart(q) \/ Stop(q) \/ resume(q)
    \/ \E t \in Thread : Reclaim(t) \/ MountLate(t)
    \/ Midnight

ToolStep == \E n \in Attempt : SendCall(n) \/ LookUp(n) \/ LookUpBlind(n) \/ HangUp(n) \/ _remember(n)

FileStep ==
    \E q \in Request :
        \/ \E t \in Thread : OpenFiles(q, t)
        \/ Unreached(q) \/ EnterDirectory(q) \/ NoDirectory(q)
        \/ save(q) \/ remove(q) \/ browse(q)

\* What a directory holds goes with it (rmtree).
WorkbenchNext ==
    \/ ThreadStep /\ files' = files \cap dirs' /\ UNCHANGED <<submitVars, toolVars>>
    \/ SubmitStep /\ UNCHANGED <<toolVars, files>>
    \/ FileStep /\ UNCHANGED <<submitVars, toolVars>>
    \/ ToolStep /\ UNCHANGED files

\* The reaper is a cron job, the broker answers or fails, a command runs into its time limit.
ReaperFair ==
    /\ \A t \in Thread : WF_vars(pending_purge(t) /\ UNCHANGED <<submitVars, toolVars, files>>)
    /\ \A a \in Actor :
        WF_vars((DestroyBox(a) \/ RemoveDirectory(a) \/ fail_purge(a) \/ complete_purge(a))
                /\ files' = files \cap dirs' /\ UNCHANGED <<submitVars, toolVars>>)
    /\ \A n \in Attempt : WF_vars(_remember(n) /\ UNCHANGED files)
    /\ \A q \in Request : WF_vars((save(q) \/ browse(q)) /\ UNCHANGED <<submitVars, toolVars>>)

WorkbenchSpec == WorkbenchInit /\ [][WorkbenchNext]_vars /\ ReaperFair

--------------------------------------------------------------------------------
(* Every variable is of its kind, and every run has its thread. *)
WorkbenchTypeOK ==
    /\ at \in [Actor -> [place : Place, thread : Thread \cup {NoThread}]]
    /\ row \in [Thread -> RowStatus] /\ title \in [Thread -> TitleKind]
    /\ purge \in [Thread -> PurgeStatus]
    /\ dirs \subseteq Thread /\ {boxes, strays, cut, late, revived} \subseteq SUBSET Thread
    /\ holder \in [Thread -> Actor \cup Attempt \cup {Nobody}]
    /\ faults \in 0..MaxFault
    /\ run \in [Request -> RunState] /\ of \in [Request -> Thread \cup {NoThread}]
    /\ \A q \in Request : run[q] = "none" <=> of[q] = NoThread
    /\ {old, outrun, early} \subseteq SUBSET Request
    /\ call \in [Attempt -> CallPlace] /\ gone \subseteq Attempt
    /\ files \subseteq Thread
    /\ remembered \in BOOLEAN /\ ran \in 0..MaxAttempt /\ misses \in 0..MaxAttempt + MaxFault

(* A directory in the broker belongs to a conversation or waits for its     *)
(* purge, unless the creation of the conversation was cut short or docker   *)
(* made it anew for a container that came up after the deletion: neither a  *)
(* late run nor a deletion that failed half way leaves one behind.          *)
DirectoryIsAccounted ==
    \A t \in dirs \ (cut \cup revived) : row[t] = "active" \/ purge[t] = "pending"

(* A container the broker would run a command in mounts a directory that    *)
(* exists: deletion makes the pool forget the container first, and a run    *)
(* cannot get one once the directory is gone.  Not so for strays, whose     *)
(* removal failed or whose caller went away (container.py:325-338).         *)
BoxHasDirectory == boxes \subseteq dirs

(* A conversation its owner can see has a directory, unless a creation is   *)
(* on its way or was cut short.                                             *)
VisibleIsUsable ==
    \A t \in Thread \ cut : _visible(t) =>
        t \in dirs \/ \E q \in Request : at[q].thread = t /\ at[q].place = "making"

(* Runs beyond the concurrency quota are runs whose count was stale: they   *)
(* were admitted while another one was, or came back from an approval.      *)
OverQuotaOnlyIfRaced ==
    Cardinality({q \in Request \ outrun : run[q] \in ActiveStatus}) <= ConcurrentRun

(* A command runs again only if the table of results lost it: the lookup,   *)
(* the command and the note of its result are one section of the thread.    *)
RunsOnce == ran <= 1 + misses

(* While a command runs or a file is written the directory stays, although  *)
(* the conversation is deleted or the caller has hung up.                   *)
WorkKeepsDirectory ==
    /\ (\E n \in Attempt : call[n] = "running") => ToolThread \in dirs
    /\ \A q \in Request : at[q].place = "filing" => at[q].thread \in dirs

(* A title the owner typed is replaced only by a composer that had looked   *)
(* before it was typed.                                                     *)
TypedTitleStands ==
    [][\A t \in Thread : title[t] = "typed" /\ title'[t] = "composed"
        => \E q \in early : at[q].place = "asking" /\ at'[q].place = "done"]_vars

(* What a deleted conversation kept in the broker is removed in the end,    *)
(* whatever call or process failed on the way.                              *)
PurgeCompletes == \A t \in Thread : purge[t] = "pending" ~> purge[t] = "done"

(* What the database says of a conversation and what the broker keeps of it *)
(* agree at every moment: directories, containers and running commands      *)
(* (create_thread, delete_thread, the reaper, acquire, execute).            *)
WorkbenchInv ==
    /\ WorkbenchTypeOK
    /\ DirectoryIsAccounted /\ BoxHasDirectory /\ VisibleIsUsable /\ WorkKeepsDirectory

================================================================================
