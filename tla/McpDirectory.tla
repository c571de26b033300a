------------------------------ MODULE McpDirectory ------------------------------
(***************************************************************************)
(* External tool servers: their directory rows and approval                *)
(* (app/preset/mcp.py, app/api/route/mcp.py), the references a run freezes *)
(* (app/preset/mcp_reference.py), the tools a worker mounts                *)
(* (app/agent/mcp.py) and the failure counter that takes a server out of   *)
(* the directory (app/agent/circuit.py).  Addresses, credentials, reasons  *)
(* and the expiry of an idle counter are left out.  What a server answers  *)
(* may change at any time, so the tools of an answer are any set.          *)
(*                                                                         *)
(* An action is one statement of Postgres or one command of Redis.  A      *)
(* process that dies between two of them simply takes no further step.     *)
(***************************************************************************)
EXTENDS ReviewQueue, Naturals, FiniteSets, Sequences, SequencesExt

CONSTANTS
    Server,                      \* ids of directory rows
    Listed,                      \* those in use from the start, their approval long past
    Tool, Reserved,              \* tool names, and the built-in ones
    Declared,                    \* the tools each server declared
    Threshold,                   \* MCP_FAILURE_THRESHOLD
    MaxServer,                   \* MAX_MCP_SERVER
    MaxFailure,                  \* bound: failures counted in a row
    Admin,                       \* requests of administrators
    Run, Probe                   \* what talks to servers: runs, and tests of a connection

ASSUME McpAssumption ==
    /\ Listed \subseteq Server /\ Reserved \subseteq Tool
    /\ Declared \in [Server -> SUBSET Tool]
    /\ Threshold \in Nat \ {0} /\ MaxServer \in Nat /\ MaxFailure \in Nat

Worker == Run \cup Probe

VARIABLES
    mcp,                         \* status in `mcp_servers`; "none": no such row
    writes,                      \* the rows that declare a write operation
    failures,                    \* the Redis counter of each server
    admin,                       \* what is left to do of each admin request
    worker                       \* each run or probe

mcpVars == <<mcp, writes, failures, reviews, admin, worker>>

McpStatus == {"none", "pending", "enabled", "disabled", "rejected"}

Unused   == [step |-> "unused"]
Finished == [step |-> "finished"]

AdminRow == [step : {"closing"}, server : Server, approved : BOOLEAN]
            \cup [step : {"resetting"}, server : Server]

\* frozen: the references of the run; refs: those still to be
\* loaded; tools: what is mounted, each with its server; asked: the call under way.
WorkerRow == [step : {"loading", "asking", "tripping", "running"}, probe : BOOLEAN,
              frozen : SUBSET Server, refs : Seq(Server),
              tools : SUBSET (Tool \X Server), asked : SUBSET Server]

\* Rows and requests are in one of their states and a run mounts at most MaxServer
\* servers (mcp_servers, MAX_MCP_SERVER in app/agent/mcp.py).
McpTypeOK ==
    /\ mcp \in [Server -> McpStatus]
    /\ writes \subseteq Server
    /\ failures \in [Server -> 0..MaxFailure]
    /\ \A r \in Review : reviews[r] = NoReview \/ reviews[r] \in ReviewRow(Server)
    /\ \A d \in Admin : admin[d] \in AdminRow \cup {Unused, Finished}
    /\ \A w \in Worker : worker[w] \in WorkerRow \cup {Unused, Finished}
    /\ \A w \in Worker : worker[w] \in WorkerRow => Cardinality(worker[w].frozen) <= MaxServer

McpInit ==
    /\ mcp = [s \in Server |-> IF s \in Listed THEN "enabled" ELSE "none"]
    /\ writes = {}
    /\ failures = [s \in Server |-> 0]
    /\ ReviewInit
    /\ admin = [d \in Admin |-> Unused]
    /\ worker = [w \in Worker |-> Unused]

--------------------------------------------------------------------------------
(* The life of a directory row. *)

\* A name that is taken is refused and changes nothing, so names are left out.
apply(s, hasWrite) ==
    /\ mcp[s] = "none"
    /\ mcp' = [mcp EXCEPT ![s] = "pending"]
    /\ writes' = IF hasWrite THEN writes \cup {s} ELSE writes
    /\ UNCHANGED <<failures, reviews, admin, worker>>

\* The second half of apply_for_mcp: the application enters `reviews`.
FileReview(s, r) ==
    /\ mcp[s] # "none"
    /\ \A q \in Review : reviews[q] # NoReview => reviews[q].target # s
    /\ submit(r, s)
    /\ UNCHANGED <<mcp, writes, failures, admin, worker>>

Verdict(approved) == IF approved THEN "enabled" ELSE "rejected"

\* Mutant: the UPDATE names the row only.
decide_whatever(d, s, approved) ==
    /\ admin[d] = Unused /\ mcp[s] # "none"
    /\ ~(approved /\ s \in writes)
    /\ mcp' = [mcp EXCEPT ![s] = Verdict(approved)]
    /\ admin' = [admin EXCEPT ![d] = [step |-> "closing", server |-> s, approved |-> approved]]
    /\ UNCHANGED <<writes, failures, reviews, worker>>

\* decide_application up to mcp.decide, which finds a pending row or refuses.
decide_application(d, s, approved) ==
    /\ admin[d] = Unused /\ mcp[s] = "pending"
    /\ ~(approved /\ s \in writes)
    /\ mcp' = [mcp EXCEPT ![s] = Verdict(approved)]
    /\ admin' = [admin EXCEPT ![d] = [step |-> "closing", server |-> s, approved |-> approved]]
    /\ UNCHANGED <<writes, failures, reviews, worker>>

close_review(d) ==
    LET s == admin[d].server IN
    /\ admin[d].step = "closing"
    /\ IF PendingReview(s)
         THEN \E r \in Review : reviews[r] # NoReview /\ reviews[r].target = s
                                /\ decide(r, admin[d].approved)
         ELSE UNCHANGED reviews
    /\ admin' = [admin EXCEPT ![d] = Finished]
    /\ UNCHANGED <<mcp, writes, failures, worker>>

Toggle(d, s, enabled) ==
    /\ mcp' = [mcp EXCEPT ![s] = IF enabled THEN "enabled" ELSE "disabled"]
    /\ admin' = [admin EXCEPT ![d] =
                    IF enabled THEN [step |-> "resetting", server |-> s] ELSE Finished]
    /\ UNCHANGED <<writes, failures, reviews, worker>>

set_enabled(d, s, enabled) ==
    admin[d] = Unused /\ mcp[s] \in {"enabled", "disabled"} /\ Toggle(d, s, enabled)

reset(d) ==
    /\ admin[d].step = "resetting"
    /\ failures' = [failures EXCEPT ![admin[d].server] = 0]
    /\ admin' = [admin EXCEPT ![d] = Finished]
    /\ UNCHANGED <<mcp, writes, reviews, worker>>

--------------------------------------------------------------------------------
(* Runs and probes. *)

Enter(w, row) ==
    /\ worker' = [worker EXCEPT ![w] = row]
    /\ UNCHANGED <<mcp, writes, failures, reviews, admin>>

\* The same server ticked twice is one reference.
_unique_references(picks) ==
    FoldLeft(LAMBDA refs, s : IF s \in ToSet(refs) THEN refs ELSE Append(refs, s), <<>>, picks)

\* submit_run: resolve_reference builds the configuration from the agent version
\* without its servers, so resolve_mcp_references only sees the picks.
Submit(w, picks) ==
    /\ worker[w] = Unused
    /\ Len(picks) <= MaxServer
    /\ \A i \in 1..Len(picks) : mcp[picks[i]] = "enabled" /\ Declared[picks[i]] \cap Reserved = {}
    /\ Enter(w, [step |-> "loading", probe |-> FALSE, frozen |-> ToSet(picks),
                 refs |-> _unique_references(picks), tools |-> {}, asked |-> {}])

\* load_mcp_tools: the next server, by what its row says now.
LoadNext(w) ==
    LET x == worker[w] IN
    /\ x.step = "loading"
    /\ Enter(w,
         IF x.refs = <<>> THEN [x EXCEPT !.step = "running"]
         ELSE IF mcp[Head(x.refs)] # "enabled" THEN [x EXCEPT !.refs = Tail(@)]
         ELSE [x EXCEPT !.step = "asking", !.asked = {Head(x.refs)}])

\* probe asks whatever the state of the row.
probe(w, s) ==
    /\ worker[w] = Unused /\ mcp[s] # "none"
    /\ Enter(w, [step |-> "asking", probe |-> TRUE, frozen |-> {},
                 refs |-> <<>>, tools |-> {}, asked |-> {s}])

\* A tool of a mounted server is called.
CallTool(w, s) ==
    /\ worker[w].step = "running"
    /\ \E t \in worker[w].tools : t[2] = s
    /\ Enter(w, [worker[w] EXCEPT !.step = "asking", !.asked = {s}])

\* Names that are built in, or that an earlier server brought, are dropped.
_usable(x, s, answer) ==
    {t \in answer : t \notin Reserved /\ \A mounted \in x.tools : mounted[1] # t}

\* Where a call leaves its process: a probe is over, a run goes on.
After(x) ==
    IF x.probe THEN Finished
    ELSE IF x.refs = <<>> THEN [x EXCEPT !.step = "running", !.asked = {}]
    ELSE [x EXCEPT !.step = "loading", !.asked = {}, !.refs = Tail(@)]

\* Loading is over when there is nothing left of refs; a call changes no tools.
Mount(x, s, answer) ==
    IF x.probe \/ x.refs = <<>> THEN x
    ELSE [x EXCEPT !.tools = @ \cup {<<t, s>> : t \in _usable(x, s, answer)}]

record_success(w, answer) ==
    LET x == worker[w] IN
    /\ x.step = "asking"
    /\ \E s \in x.asked :
         /\ failures' = [failures EXCEPT ![s] = 0]
         /\ worker' = [worker EXCEPT ![w] = After(Mount(x, s, answer))]
    /\ UNCHANGED <<mcp, writes, reviews, admin>>

\* Mutant: the server is taken out at exactly the threshold.
TripsAt(count) == count = Threshold

Trips(count) == count >= Threshold

\* The connection or the call timed out or was refused: INCR, whose answer decides.
record_failure(w) ==
    LET x == worker[w] IN
    /\ x.step = "asking"
    /\ \E s \in x.asked :
         /\ failures[s] < MaxFailure
         /\ failures' = [failures EXCEPT ![s] = @ + 1]
         /\ worker' = [worker EXCEPT ![w] =
                         IF Trips(failures[s] + 1) THEN [x EXCEPT !.step = "tripping"] ELSE After(x)]
    /\ UNCHANGED <<mcp, writes, reviews, admin>>

disable_for_failure(w) ==
    LET x == worker[w] IN
    /\ x.step = "tripping"
    /\ \E s \in x.asked :
         mcp' = IF mcp[s] = "enabled" THEN [mcp EXCEPT ![s] = "disabled"] ELSE mcp
    /\ worker' = [worker EXCEPT ![w] = After(x)]
    /\ UNCHANGED <<writes, failures, reviews, admin>>

--------------------------------------------------------------------------------
\* What one submission picks: at most two, in the order they were ticked.
Picks == {<<>>} \cup {<<s>> : s \in Server} \cup {<<s, t>> : s, t \in Server}

DirectoryNext ==
    \/ \E s \in Server, hasWrite \in BOOLEAN : apply(s, hasWrite)
    \/ \E s \in Server, r \in Review : FileReview(s, r)
    \/ \E d \in Admin, s \in Server, yes \in BOOLEAN :
          decide_application(d, s, yes) \/ set_enabled(d, s, yes)
    \/ \E d \in Admin : close_review(d) \/ reset(d)

WorkerNext ==
    \/ \E w \in Run, picks \in Picks : Submit(w, picks)
    \/ \E w \in Run, s \in Server : CallTool(w, s)
    \/ \E w \in Probe, s \in Server : probe(w, s)
    \/ \E w \in Worker : LoadNext(w) \/ record_failure(w) \/ disable_for_failure(w)
    \/ \E w \in Worker, answer \in SUBSET Tool : record_success(w, answer)

McpNext == DirectoryNext \/ WorkerNext

McpSpec == McpInit /\ [][McpNext]_mcpVars

--------------------------------------------------------------------------------
\* A server that declares a write operation is never in use: not through an approval
\* and not by switching on what was never approved (WRITE_OPERATION_MESSAGE, set_enabled).
WritersStayOut == \A s \in writes : mcp[s] \notin {"enabled", "disabled"}

\* The trail of an application never contradicts its outcome, whoever decided it and
\* however two administrators' requests interleave (decide_application, _close_review).
TrailAgrees == \A r \in Review : reviews[r] # NoReview =>
    CASE reviews[r].status = "approved" -> mcp[reviews[r].target] \in {"enabled", "disabled"}
      [] reviews[r].status = "rejected" -> mcp[reviews[r].target] = "rejected"
      [] OTHER -> TRUE

\* A failure that leaves the counter at the threshold or above takes the server out
\* before its caller goes on, also when an earlier caller died on the way there
\* (record_failure in app/agent/circuit.py).
TripsAreKept == [][
    \A w \in Worker : worker[w].step \in {"asking", "tripping"} /\ worker'[w] # worker[w] =>
        \A s \in worker[w].asked :
            failures'[s] >= Threshold /\ worker'[w].step # "tripping" => mcp'[s] # "enabled"
    ]_mcpVars

\* No mounted tool hides a built-in one or the tool of another server (_usable).
NoShadowing == \A w \in Worker : worker[w] \in WorkerRow =>
    \A t, u \in worker[w].tools : t[1] \notin Reserved /\ (t[1] = u[1] => t = u)

\* The directory holds well-formed rows, none of a server that writes is in use, and
\* the reviewers' list says what became of each application; a run's tools have one
\* meaning each (app/preset/mcp.py, decide_application and _close_review; app/agent/mcp.py,
\* _usable).
DirectoryInv == McpTypeOK /\ WritersStayOut /\ TrailAgrees /\ NoShadowing

================================================================================
