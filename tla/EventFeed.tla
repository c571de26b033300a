------------------------------- MODULE EventFeed -------------------------------
(***************************************************************************)
(* The events of one run on their way to a page: the capped, expiring      *)
(* Stream and its archive (app/run/log.py, app/run/archive.py), the SSE    *)
(* endpoint and the replay (app/api/route/run.py, app/api/sse.py,          *)
(* app/run/replay.py) and the retention job (app/store/retention.py).      *)
(* An event's id is its position: `pack` keeps the order of ids.  Of the   *)
(* payload, its type and its path (which subagent speaks) are kept.        *)
(* Heartbeats carry no id and are left out.                                *)
(***************************************************************************)
EXTENDS Integers, Sequences, FiniteSetsExt, SequencesExt

CONSTANTS
    Reader,                      \* pages that follow or replay the run
    Path,                        \* paths: the main agent, each subagent
    Script,                      \* type and path of the event at each position
    MaxLength,                   \* events the Stream keeps
    MaxWriter,                   \* processes that append: a worker, the api, a cron job
    MaxFault                     \* archive writes that fail or die

ASSUME FeedAssumption ==
    /\ Script \in Seq([type : {"token", "reasoning", "step"}, path : Path])
    /\ MaxLength \in Nat \ {0} /\ MaxWriter \in Nat /\ MaxFault \in Nat

MaxEvent == Len(Script)
Id       == 1..MaxEvent

VARIABLES
    finished,                    \* the runs row is terminal
    n,                           \* events appended so far
    endAt,                       \* the id of the terminal event, 0 before
    first,                       \* the oldest id in the Stream, n + 1 when it is empty
    table,                       \* ids in run_events
    writing,                     \* ids appended by a process that has not archived them yet
    faults,                      \* archive writes that failed
    place,                       \* per reader: where its request is
    cursor,                      \* the last id the page has processed
    sure,                        \* the runs row was terminal when the request came
    todo,                        \* what the request has read and not yet sent
    seen,                        \* ids the page has processed
    gone,                        \* ids that left the Stream unarchived, or were purged
    overrun,                     \* per reader: ids that left the Stream ahead of it
    slipped                      \* per reader: ids it went past in the Stream, see ReadArchive

logVars    == <<finished, n, endAt, first, table, writing, faults>>
readerVars == <<place, cursor, sure, todo, seen>>
missed     == <<overrun, slipped>>
vars       == <<logVars, readerVars, gone, missed>>

Place == {"away", "read", "archive", "yield", "check", "ask", "wait", "once", "once archive"}

FeedInit ==
    /\ finished = FALSE /\ n = 0 /\ endAt = 0 /\ first = 1 /\ table = {} /\ faults = 0
    /\ writing = {}
    /\ place = [f \in Reader |-> "away"] /\ cursor = [f \in Reader |-> 0]
    /\ sure = [f \in Reader |-> FALSE] /\ todo = [f \in Reader |-> <<>>]
    /\ seen = [f \in Reader |-> {}]
    /\ gone = {} /\ overrun = [f \in Reader |-> {}] /\ slipped = [f \in Reader |-> {}]

Stream     == first..n
Connected(f) == place[f] # "away"

\* The ids of S in order.
InOrder(S) ==
    LET upTo[i \in 0..n] ==
            IF i = 0 THEN <<>> ELSE IF i \in S THEN Append(upTo[i - 1], i) ELSE upTo[i - 1]
    IN  upTo[n]

\* The last id f has read: what is beyond it, it expects from the Stream.
Reached(f) == IF todo[f] = <<>> THEN cursor[f] ELSE Last(todo[f])

\* f has read an empty Stream and not yet the archive, which it will read to its end.
Unbounded(f) == place[f] \in {"archive", "once archive"} /\ todo[f] = <<>>

Following(f) == place[f] \in {"archive", "yield", "check", "ask", "wait"} /\ ~Unbounded(f)

\* Ids leave the Stream: noted as lost if unarchived, and for readers that have not reached them.
Leave(ids) ==
    /\ gone' = gone \cup (ids \ table)
    /\ overrun' = [f \in Reader |->
            overrun[f] \cup {i \in ids : Following(f) /\ i > Reached(f)}]
    /\ UNCHANGED slipped

--------------------------------------------------------------------------------
(* The writers. *)

\* The executor, the api or a cron job settles the row; the event follows.
Finalize ==
    /\ ~finished /\ finished' = TRUE
    /\ UNCHANGED <<n, endAt, first, table, writing, faults, readerVars, gone, missed>>

\* XADD with an exact trim.  A terminal event is the winner's, after the row.
append ==
    /\ Cardinality(writing) < MaxWriter /\ n < MaxEvent
    /\ n' = n + 1
    /\ \/ UNCHANGED endAt
       \/ finished /\ endAt = 0 /\ endAt' = n + 1
    /\ first' = Max({first, n + 2 - MaxLength})
    /\ writing' = writing \cup {n + 1}
    /\ Leave(first..(first' - 1))
    /\ UNCHANGED <<finished, table, faults, readerVars>>

\* EventArchive.record; an error is logged and swallowed, a crash never gets here.
record(i) ==
    /\ writing' = writing \ {i}
    /\ \/ table' = table \cup {i} /\ UNCHANGED faults
       \/ faults < MaxFault /\ faults' = faults + 1 /\ UNCHANGED table
    /\ UNCHANGED <<finished, n, endAt, first, readerVars, gone, missed>>

\* The key's time to live runs out: nothing was appended for a week.
Expire ==
    /\ writing = {} /\ Stream # {} /\ first' = n + 1 /\ UNCHANGED n
    /\ Leave(Stream)
    /\ UNCHANGED <<finished, endAt, table, writing, faults, readerVars>>

\* The retention job deletes what is half a year old in batches of any order: the Stream is
\* long gone and the cron jobs have settled the run.
purge_event ==
    /\ finished /\ writing = {} /\ Stream = {}
    /\ \E batch \in SUBSET table :
        /\ table' = table \ batch
        /\ gone' = gone \cup batch
    /\ UNCHANGED <<finished, n, endAt, first, writing, faults, readerVars, missed>>

--------------------------------------------------------------------------------
(* The readers.  `read` is two queries, `follow` goes on from there. *)

Go(f, p) == place' = [place EXCEPT ![f] = p]

\* The request goes on to p with nothing else changed.
Move(f, p) == Go(f, p) /\ UNCHANGED <<sure, todo, missed>>

\* The request is over, having gone past `late` last.  What lies beyond the cursor can be
\* read again by the next one.
Close(f, late) ==
    /\ Go(f, "away")
    /\ sure' = [sure EXCEPT ![f] = FALSE] /\ todo' = [todo EXCEPT ![f] = <<>>]
    /\ overrun' = [overrun EXCEPT ![f] = @ \cap 1..cursor'[f]]
    /\ slipped' = [slipped EXCEPT ![f] = (@ \cup late) \cap 1..cursor'[f]]

\* The run row is read; the page sends the cursor it kept.
stream_events(f) ==
    /\ ~Connected(f) /\ Go(f, "read")
    /\ sure' = [sure EXCEPT ![f] = finished]
    /\ UNCHANGED <<logVars, cursor, todo, seen, gone, missed>>

\* Another visit of the page: it forgets where it was.
Afresh(f, p) ==
    /\ ~Connected(f) /\ Go(f, p)
    /\ cursor' = [cursor EXCEPT ![f] = 0] /\ seen' = [seen EXCEPT ![f] = {}]
    /\ sure' = [sure EXCEPT ![f] = finished] /\ overrun' = [overrun EXCEPT ![f] = {}]
    /\ slipped' = [slipped EXCEPT ![f] = {}]
    /\ UNCHANGED <<logVars, todo, gone>>

Reload(f)     == Afresh(f, "read")
replay_run(f) == Afresh(f, "once")

Beyond(S, f) == {i \in S : i > cursor[f]}

\* XRANGE after the cursor.
read(f) ==
    /\ place[f] \in {"read", "once"}
    /\ Go(f, IF place[f] = "read" THEN "archive" ELSE "once archive")
    /\ todo' = [todo EXCEPT ![f] = InOrder(Beyond(Stream, f))]
    /\ UNCHANGED <<logVars, cursor, sure, seen, gone, missed>>

\* Mutant: what the Stream has is read from the archive too.
EarlierAlso(f) == Beyond(table, f)

\* Mutant: the archive is for runs whose Stream is gone.
EarlierInstead(f) == {i \in Beyond(table, f) : todo[f] = <<>>}

\* EventArchive.replay: after the cursor, before the oldest the Stream gave.
Earlier(f) == {i \in Beyond(table, f) : todo[f] # <<>> => i < Head(todo[f])}

\* The request found no Stream, and yet the archive has later events than one that is in the
\* Stream by now and not archived: writers archive out of order, or one failed to.
Overtaken(f) ==
    {i \in Beyond(Stream, f) : todo[f] = <<>> /\ i \notin table /\ \E k \in table : i < k}

ReadArchive(f) ==
    LET all == InOrder(Earlier(f)) \o todo[f] IN
    /\ place[f] = "archive"
    /\ Go(f, IF all = <<>> THEN "check" ELSE "yield")
    /\ todo' = [todo EXCEPT ![f] = all]
    /\ slipped' = [slipped EXCEPT ![f] = @ \cup Overtaken(f)]
    /\ UNCHANGED <<logVars, cursor, sure, seen, gone, overrun>>

\* Types whose neighbours are pieces of one text.
MERGEABLE_TYPE == {"token", "reasoning"}

\* What an event is and who speaks.
Mark(i) == [Script[i] EXCEPT !.type = IF i = endAt THEN "end" ELSE @]

_mergeable(previous, i) ==
    /\ Mark(i).type \in MERGEABLE_TYPE
    /\ previous.mark.type = Mark(i).type
    /\ previous.mark.path = Mark(i).path

\* Neighbouring pieces of one text become one event with the id of the last.
collapse(ids) ==
    LET Take(done, i) ==
            IF done # <<>> /\ _mergeable(Last(done), i)
            THEN Front(done) \o <<[id |-> i, mark |-> Mark(i), text |-> Last(done).text \o <<i>>]>>
            ELSE Append(done, [id |-> i, mark |-> Mark(i), text |-> <<i>>])
    IN  FoldLeft(Take, <<>>, ids)

\* The replay answers with everything at once.
ReplayAll(f) ==
    LET all == collapse(InOrder(Earlier(f)) \o todo[f]) IN
    /\ place[f] = "once archive"
    /\ seen' = [seen EXCEPT ![f] = @ \cup UNION {ToSet(all[j].text) : j \in DOMAIN all}]
    /\ cursor' = [cursor EXCEPT ![f] = IF all = <<>> THEN @ ELSE Last(all).id]
    /\ Close(f, Overtaken(f))
    /\ UNCHANGED <<logVars, gone>>

\* One event is sent; the terminal one closes the stream.
Yield(f) ==
    LET i == Head(todo[f])
        rest == Tail(todo[f])
    IN
    /\ place[f] = "yield"
    /\ cursor' = [cursor EXCEPT ![f] = i] /\ seen' = [seen EXCEPT ![f] = @ \cup {i}]
    /\ IF i = endAt
       THEN Close(f, {})
       ELSE /\ Go(f, IF rest = <<>> THEN "check" ELSE "yield")
            /\ todo' = [todo EXCEPT ![f] = rest] /\ UNCHANGED <<sure, missed>>
    /\ UNCHANGED <<logVars, gone>>

\* The last event is terminal and the cursor has reached it.
Over(i, f) == i <= cursor[f] /\ i = endAt

\* _ended: the Stream's last event, the archive's when the Stream is empty.
_ended(f) ==
    /\ place[f] = "check"
    /\ UNCHANGED <<logVars, cursor, seen, gone>>
    /\ \/ Stream = {} /\ Move(f, "ask")
       \/ Stream # {} /\ Over(n, f) /\ Close(f, {})
       \/ Stream # {} /\ ~Over(n, f) /\ Move(f, "wait")

\* Mutant: the row is not asked when nothing is left.
last_unsure(f) ==
    /\ place[f] = "ask" /\ UNCHANGED <<logVars, cursor, seen, gone>>
    /\ IF table # {} /\ Over(Max(table), f) THEN Close(f, {}) ELSE Move(f, "wait")

\* EventArchive.last; without any event the run row decides.
last(f) ==
    LET ended == IF table = {} THEN sure[f] ELSE Over(Max(table), f) IN
    /\ place[f] = "ask" /\ UNCHANGED <<logVars, cursor, seen, gone>>
    /\ IF ended THEN Close(f, {}) ELSE Move(f, "wait")

\* XREAD after the cursor, or the block runs out.
follow(f) ==
    LET fresh == InOrder(Beyond(Stream, f)) IN
    /\ place[f] = "wait" /\ Go(f, IF fresh = <<>> THEN "check" ELSE "yield")
    /\ todo' = [todo EXCEPT ![f] = fresh]
    /\ UNCHANGED <<logVars, cursor, sure, seen, gone, missed>>

\* The connection breaks: what was not processed is not counted by the page.
Disconnect(f) == Connected(f) /\ UNCHANGED <<logVars, cursor, seen, gone>> /\ Close(f, {})

Serve(f) ==
    read(f) \/ ReadArchive(f) \/ ReplayAll(f) \/ Yield(f) \/ _ended(f) \/ last(f) \/ follow(f)

FeedNext ==
    \/ Finalize \/ append \/ Expire \/ purge_event
    \/ \E i \in writing : record(i)
    \/ \E f \in Reader : stream_events(f) \/ Reload(f) \/ replay_run(f) \/ Serve(f) \/ Disconnect(f)

\* A request in the api goes on: Redis and Postgres answer, a block runs out.
FeedSpec == FeedInit /\ [][FeedNext]_vars /\ \A f \in Reader : WF_vars(Serve(f))

--------------------------------------------------------------------------------
(* Every variable is of its kind. *)
FeedTypeOK ==
    /\ finished \in BOOLEAN /\ n \in 0..MaxEvent /\ endAt \in 0..n /\ first \in 1..n + 1
    /\ table \subseteq 1..n /\ writing \subseteq 1..n /\ faults \in 0..MaxFault
    /\ place \in [Reader -> Place] /\ cursor \in [Reader -> 0..n] /\ sure \in [Reader -> BOOLEAN]
    /\ \A f \in Reader : ToSet(todo[f]) \cup seen[f] \cup gone \subseteq 1..n
    /\ \A f \in Reader : overrun[f] \cup slipped[f] \subseteq 1..n

(* What a request is about to send is in order, without a repetition and    *)
(* all beyond what the page has: the archive and the Stream overlap.        *)
SentOnce ==
    \A f \in Reader : \A j \in DOMAIN todo[f] :
        todo[f][j] > (IF j = 1 THEN cursor[f] ELSE todo[f][j - 1])

(* The replay shows the same text: nothing is lost or moved, and exactly    *)
(* the neighbouring pieces of one speaker's text are joined.                *)
CollapseKeepsText ==
    \A f \in Reader :
        LET all == collapse(todo[f]) IN
        /\ FlattenSeq([j \in DOMAIN all |-> all[j].text]) = todo[f]
        /\ \A j \in DOMAIN all :
            /\ all[j].id = Last(all[j].text)
            /\ \A i \in ToSet(all[j].text) : Mark(i) = all[j].mark
            /\ j > 1 /\ all[j].mark.type \in MERGEABLE_TYPE => all[j].mark # all[j - 1].mark

(* The two readings of a run's events, the stream and the replay, send each *)
(* event once, in order, and the replay joins only neighbours (read,        *)
(* follow, collapse).                                                       *)
FeedInv == FeedTypeOK /\ SentOnce /\ CollapseKeepsText

(* An event the page went past without seeing it had left the Stream        *)
(* unarchived, was purged, left the Stream ahead of a slow reader, or was   *)
(* overtaken in the archive while the reader had found no Stream: but for   *)
(* these, the switch from archive to Stream and a reconnection lose nothing *)
(* (read, follow).                                                          *)
SkippedIsExplained ==
    \A f \in Reader : 1..cursor[f] \subseteq seen[f] \cup gone \cup overrun[f] \cup slipped[f]

(* The terminal event can still be told: the last one of the Stream or the  *)
(* archive, or yet to be sent; or nothing is left and the row had settled.  *)
(* In the archive it is of no use to a page it left the Stream ahead of, or *)
(* when it got there only after it had left the Stream.                     *)
Closable(f) ==
    \/ /\ endAt > 0 /\ (endAt = n \/ cursor[f] < endAt)
       /\ endAt \in Stream \/ endAt \in table \ (overrun[f] \cup gone)
    \/ Stream = {} /\ table = {} /\ sure[f]

(* A stream is closed once the run has ended: no reader hangs on a run that *)
(* is over, finished a moment or half a year ago.                           *)
FollowersEnd ==
    \A f \in Reader : Connected(f) /\ Closable(f) ~> ~Connected(f) \/ ~Closable(f)

================================================================================
