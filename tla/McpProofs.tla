------------------------------ MODULE McpProofs ------------------------------
(***************************************************************************)
(* The directory of tool servers, proved for every set of servers, tools,  *)
(* administrators, runs and probes and for every threshold.  Two parts     *)
(* that only meet in the status of a row: the directory with its trail of  *)
(* reviews, and the processes that talk to the servers.                    *)
(***************************************************************************)
EXTENDS McpDirectory, FiniteSetTheorems, TLAPS

--------------------------------------------------------------------------------
(* The references of a submission.  It picks at most two, for which the fold that makes *)
(* them unique can be unrolled.                                                         *)

\* One turn of the loop of _unique_references.
Grow(refs, s) == IF s \in ToSet(refs) THEN refs ELSE Append(refs, s)

Unrolled(it, q) == [S \in SUBSET DOMAIN q |->
    IF S = {} THEN <<>> ELSE Grow(it[S \ {Max(S)}], q[Max(S)])]

\* The fold is what some function does that agrees with its own unrolling.
LEMMA FoldUnrolled ==
  ASSUME NEW q
  PROVE  _unique_references(q) = (CHOOSE it : it = Unrolled(it, q))[DOMAIN q]
BY DEF _unique_references, FoldLeft, MapThenFoldSet, Unrolled, Grow

\* What such a function does with one set of places.
LEMMA FoldSteps ==
  ASSUME NEW q, NEW it, it = Unrolled(it, q), NEW S \in SUBSET DOMAIN q
  PROVE  it[S] = IF S = {} THEN <<>> ELSE Grow(it[S \ {Max(S)}], q[Max(S)])
<1>1. it[S] = Unrolled(it, q)[S]
  OBVIOUS
<1>2. QED
  BY <1>1, Zenon DEF Unrolled

\* The last places of at most two picks.
LEMMA LastPlaces == Max({1}) = 1 /\ Max({2}) = 2 /\ Max({1, 2}) = 2
BY DEF Max

\* Their sets of places, told apart.
LEMMA Apart ==
  /\ {1} # {} /\ {2} # {} /\ {1, 2} # {} /\ {1} # {2} /\ {1, 2} # {1} /\ {1, 2} # {2}
  /\ {1} \ {1} = {} /\ {2} \ {2} = {} /\ {1, 2} \ {2} = {1}
  /\ {} \in SUBSET {1} /\ {1} \in SUBSET {1}
  /\ {} \in SUBSET {1, 2} /\ {1} \in SUBSET {1, 2} /\ {1, 2} \in SUBSET {1, 2}
OBVIOUS

\* A turn of the loop keeps a sequence of servers one.
LEMMA GrowKind ==
  ASSUME NEW refs \in Seq(Server), NEW s \in Server
  PROVE  Grow(refs, s) \in Seq(Server)
BY DEF Grow

\* No pick, no reference.
LEMMA UniqueOfNone == _unique_references(<<>>) \in Seq(Server)
<1> DEFINE q == <<>>
           h == [S \in SUBSET {} |-> <<>>]
           it == CHOOSE f : f = Unrolled(f, q)
<1>1. DOMAIN q = {} /\ \A S \in SUBSET {} : S = {}
  OBVIOUS
<1> HIDE DEF q
<1>2. h = Unrolled(h, q)
  BY <1>1, Zenon DEF Unrolled
<1>3. it = Unrolled(it, q)
  BY <1>2
<1> HIDE DEF it
<1>4. it[{}] = <<>>
  BY <1>1, <1>3, FoldSteps
<1>5. QED
  <2>1. _unique_references(q) = it[{}]
    BY <1>1, FoldUnrolled DEF it
  <2>2. <<>> \in Seq(Server)
    OBVIOUS
  <2>3. QED
    BY <1>4, <2>1, <2>2, Zenon DEF q

\* One pick.
LEMMA UniqueOfOne ==
  ASSUME NEW s \in Server
  PROVE  _unique_references(<<s>>) \in Seq(Server)
<1> DEFINE q == <<s>>
           a == Grow(<<>>, s)
<1>1. DOMAIN q = {1} /\ q[1] = s
  OBVIOUS
<1> HIDE DEF q, a
<1> DEFINE h == [S \in SUBSET {1} |-> IF S = {} THEN <<>> ELSE a]
<1>2. h = Unrolled(h, q)
  <2>1. h[{}] = <<>> /\ h[{1}] = a /\ h = [S \in SUBSET {1} |-> h[S]]
    BY Apart
  <2> HIDE DEF h
  <2>2. ASSUME NEW S \in SUBSET {1}
        PROVE  h[S] = IF S = {} THEN <<>> ELSE Grow(h[S \ {Max(S)}], q[Max(S)])
    <3>1. S = {} \/ S = {1}
      OBVIOUS
    <3>2. CASE S = {}
      BY <2>1, <3>2
    <3>3. CASE S = {1}
      BY <1>1, <2>1, <3>3, LastPlaces, Apart DEF a
    <3>4. QED
      BY <3>1, <3>2, <3>3
  <2>3. QED
    BY <1>1, <2>1, <2>2, Zenon DEF Unrolled
<1> DEFINE it == CHOOSE f : f = Unrolled(f, q)
<1>3. it = Unrolled(it, q)
  BY <1>2
<1> HIDE DEF it, h
<1>4. \A S \in SUBSET {1} : it[S] = IF S = {} THEN <<>> ELSE Grow(it[S \ {Max(S)}], q[Max(S)])
  BY <1>1, <1>3, FoldSteps
<1>5. it[{}] = <<>> /\ it[{1}] = Grow(it[{}], s)
  BY <1>1, <1>4, LastPlaces, Apart
<1>6. it[{1}] \in Seq(Server)
  <2>1. <<>> \in Seq(Server)
    OBVIOUS
  <2>2. QED
    BY <1>5, <2>1, GrowKind
<1>7. QED
  BY <1>1, <1>6, FoldUnrolled DEF it, q

\* Two picks, the same server twice included.
LEMMA UniqueOfTwo ==
  ASSUME NEW s \in Server, NEW t \in Server
  PROVE  _unique_references(<<s, t>>) \in Seq(Server)
<1> DEFINE q == <<s, t>>
           a == Grow(<<>>, s)
           b == Grow(<<>>, t)
           c == Grow(a, t)
<1>1. DOMAIN q = {1, 2} /\ q[1] = s /\ q[2] = t
  OBVIOUS
<1> HIDE DEF q, a, b, c
<1> DEFINE h == [S \in SUBSET {1, 2} |->
       IF S = {} THEN <<>> ELSE IF S = {1} THEN a ELSE IF S = {2} THEN b ELSE c]
<1>2. h = Unrolled(h, q)
  <2>1. h[{}] = <<>> /\ h[{1}] = a /\ h[{2}] = b /\ h[{1, 2}] = c
    BY Apart
  <2>2. h = [S \in SUBSET {1, 2} |-> h[S]]
    OBVIOUS
  <2> HIDE DEF h
  <2>3. ASSUME NEW S \in SUBSET {1, 2}
        PROVE  h[S] = IF S = {} THEN <<>> ELSE Grow(h[S \ {Max(S)}], q[Max(S)])
    <3>0. S = {} \/ S = {1} \/ S = {2} \/ S = {1, 2}
      OBVIOUS
    <3>1. CASE S = {}
      BY <2>1, <3>1
    <3>2. CASE S = {1}
      BY <1>1, <2>1, <3>2, LastPlaces, Apart DEF a
    <3>3. CASE S = {2}
      BY <1>1, <2>1, <3>3, LastPlaces, Apart DEF b
    <3>4. CASE S = {1, 2}
      BY <1>1, <2>1, <3>4, LastPlaces, Apart DEF c
    <3>5. QED
      BY <3>0, <3>1, <3>2, <3>3, <3>4
  <2>4. QED
    BY <1>1, <2>2, <2>3, Zenon DEF Unrolled
<1> DEFINE it == CHOOSE f : f = Unrolled(f, q)
<1>3. it = Unrolled(it, q)
  BY <1>2
<1> HIDE DEF it, h
<1>4. \A S \in SUBSET {1, 2} : it[S] = IF S = {} THEN <<>> ELSE Grow(it[S \ {Max(S)}], q[Max(S)])
  <2>1. SUBSET {1, 2} = SUBSET DOMAIN q
    BY <1>1
  <2>2. ASSUME NEW S \in SUBSET DOMAIN q
        PROVE  it[S] = IF S = {} THEN <<>> ELSE Grow(it[S \ {Max(S)}], q[Max(S)])
    BY <1>3, FoldSteps
  <2>3. QED
    BY <2>1, <2>2
<1>5. it[{}] = <<>> /\ it[{1}] = Grow(it[{}], s) /\ it[{1, 2}] = Grow(it[{1}], t)
  <2>1. it[{}] = <<>>
    BY <1>4, Apart
  <2>2. it[{1}] = Grow(it[{}], s)
    BY <1>1, <1>4, LastPlaces, Apart
  <2>3. it[{1, 2}] = Grow(it[{1, 2} \ {Max({1, 2})}], q[Max({1, 2})])
    BY <1>4, Apart
  <2>4. QED
    BY <1>1, <2>1, <2>2, <2>3, LastPlaces, Apart
<1>6. it[{1, 2}] \in Seq(Server)
  <2>1. <<>> \in Seq(Server)
    OBVIOUS
  <2>2. it[{1}] \in Seq(Server)
    BY <1>5, <2>1, GrowKind
  <2>3. QED
    BY <1>5, <2>2, GrowKind
<1>7. QED
  BY <1>1, <1>6, FoldUnrolled DEF it, q

\* Whatever a submission picks, its references are servers, and no more than it picked.
LEMMA PicksKind ==
  ASSUME NEW picks \in Picks
  PROVE  /\ _unique_references(picks) \in Seq(Server)
         /\ ToSet(picks) \subseteq Server
         /\ Len(picks) \in Nat
         /\ Cardinality(ToSet(picks)) \in Nat /\ Cardinality(ToSet(picks)) <= Len(picks)
<1>1. CASE picks = <<>>
  <2>1. ToSet(picks) = {} /\ Len(picks) = 0
    BY <1>1 DEF ToSet
  <2>2. QED
    BY <1>1, <2>1, UniqueOfNone, FS_EmptySet
<1>2. CASE \E s \in Server : picks = <<s>>
  <2>1. PICK s \in Server : picks = <<s>>
    BY <1>2
  <2>2. ToSet(picks) = {s} /\ Len(picks) = 1
    BY <2>1 DEF ToSet
  <2>3. Cardinality({s}) = 1
    BY FS_Singleton
  <2>4. _unique_references(picks) \in Seq(Server)
    BY <2>1, UniqueOfOne
  <2>5. ToSet(picks) \subseteq Server
    BY <2>2
  <2>6. QED
    BY <2>2, <2>3, <2>4, <2>5
<1>3. CASE \E s, t \in Server : picks = <<s, t>>
  <2>1. PICK s \in Server, t \in Server : picks = <<s, t>>
    BY <1>3
  <2>2. ToSet(picks) = {s} \cup {t} /\ Len(picks) = 2
    BY <2>1 DEF ToSet
  <2>3. IsFiniteSet({s}) /\ Cardinality({s}) = 1
    BY FS_Singleton
  <2>4. Cardinality({s} \cup {t}) \in {1, 2}
    BY <2>3, FS_AddElement
  <2>5. _unique_references(picks) \in Seq(Server)
    BY <2>1, UniqueOfTwo
  <2>6. ToSet(picks) \subseteq Server
    BY <2>2
  <2>7. Cardinality(ToSet(picks)) \in Nat /\ Cardinality(ToSet(picks)) <= 2
    <3>1. \A n \in {1, 2} : n \in Nat /\ n <= 2
      OBVIOUS
    <3>2. QED
      BY <2>2, <2>4, <3>1, Zenon
  <2>8. QED
    BY <2>2, <2>5, <2>6, <2>7
<1>4. QED
  BY <1>1, <1>2, <1>3 DEF Picks

--------------------------------------------------------------------------------
(* The directory and its trail *)

InUse == {"enabled", "disabled"}

DirectoryKinds ==
    /\ mcp \in [Server -> McpStatus] /\ writes \subseteq Server
    /\ failures \in [Server -> 0..MaxFailure]
    /\ reviews \in [Review -> ReviewRow(Server) \cup {NoReview}]
    /\ admin \in [Admin -> AdminRow \cup {Unused, Finished}]

\* A verdict whose review is still to be closed stands: no other request reaches a row
\* that is not pending any more but to switch it on or off.
ClosingAgrees == \A d \in Admin : admin[d].step = "closing" =>
    IF admin[d].approved THEN mcp[admin[d].server] \in InUse ELSE mcp[admin[d].server] = "rejected"

\* TrailAgrees row by row.
Told(r) ==
    /\ reviews[r].status = "approved" => mcp[reviews[r].target] \in InUse
    /\ reviews[r].status = "rejected" => mcp[reviews[r].target] = "rejected"

Trail == \A r \in Review : reviews[r] # NoReview => Told(r)

RowsInv == DirectoryKinds /\ WritersStayOut /\ ClosingAgrees /\ Trail

\* Statuses only move on: what was refused stays refused, what is in use stays a row in use.
Onward == \A s \in Server :
    /\ mcp[s] \in InUse => mcp'[s] \in InUse
    /\ mcp[s] = "rejected" => mcp'[s] = "rejected"

\* What is left of a request is a row with the server it is about.
LEMMA AdminKind ==
  ASSUME DirectoryKinds, NEW d \in Admin
  PROVE  /\ admin[d].step = "closing" => admin[d].server \in Server /\ admin[d].approved \in BOOLEAN
         /\ admin[d].step = "resetting" => admin[d].server \in Server
<1>1. admin[d] \in AdminRow \cup {Unused, Finished}
  BY DEF DirectoryKinds
<1>2. CASE admin[d] \in {Unused, Finished}
  BY <1>2 DEF Unused, Finished
<1>3. CASE admin[d] \in [step : {"closing"}, server : Server, approved : BOOLEAN]
  <2>1. admin[d].step = "closing" /\ admin[d].server \in Server
    BY <1>3
  <2>2. admin[d].approved \in BOOLEAN
    BY <1>3, Zenon
  <2>3. QED
    BY <2>1, <2>2
<1>4. CASE admin[d] \in [step : {"resetting"}, server : Server]
  BY <1>4
<1>5. QED
  BY <1>1, <1>2, <1>3, <1>4 DEF AdminRow

\* Statuses that only move on contradict no verdict and no trail.
LEMMA OnwardKeeps ==
  ASSUME DirectoryKinds, ClosingAgrees, Trail, Onward
  PROVE  /\ admin' = admin => ClosingAgrees'
         /\ reviews' = reviews => Trail'
<1>1. admin' = admin => ClosingAgrees'
  BY AdminKind DEF ClosingAgrees, Onward
<1>2. reviews' = reviews => Trail'
  <2> SUFFICES ASSUME reviews' = reviews, NEW r \in Review, reviews[r] # NoReview PROVE Told(r)'
    BY DEF Trail
  <2>1. reviews[r].target \in Server /\ Told(r)
    BY DEF Trail, DirectoryKinds, ReviewRow
  <2>2. QED
    BY <2>1 DEF Told, Onward
<1>3. QED
  BY <1>1, <1>2

\* A row that is applied for was none before, so nothing said anything of it.
LEMMA ApplyKeeps ==
  ASSUME RowsInv, NEW s \in Server, NEW hasWrite \in BOOLEAN, apply(s, hasWrite)
  PROVE  RowsInv'
<1> USE DEF RowsInv
<1>1. /\ mcp[s] = "none" /\ mcp' = [mcp EXCEPT ![s] = "pending"] /\ writes' \subseteq writes \cup {s}
      /\ UNCHANGED <<failures, reviews, admin>>
  BY DEF apply
<1>2. Onward
  BY <1>1 DEF Onward, InUse, DirectoryKinds
<1>3. DirectoryKinds'
  BY <1>1 DEF DirectoryKinds, McpStatus
<1>4. WritersStayOut'
  BY <1>1 DEF WritersStayOut, DirectoryKinds
<1>5. QED
  BY <1>1, <1>2, <1>3, <1>4, OnwardKeeps

\* The review of an application says nothing while it is pending.
LEMMA FileKeeps ==
  ASSUME RowsInv, NEW s \in Server, NEW r \in Review, FileReview(s, r)
  PROVE  RowsInv'
<1> USE DEF RowsInv
<1>1. /\ UNCHANGED <<mcp, writes, failures, admin>>
      /\ reviews' = [reviews EXCEPT ![r] = [target |-> s, status |-> "pending"]]
  BY DEF FileReview, submit
<1>2. DirectoryKinds'
  BY <1>1 DEF DirectoryKinds, ReviewRow
<1>3. Trail'
  BY <1>1 DEF Trail, Told, DirectoryKinds
<1>4. QED
  BY <1>1, <1>2, <1>3 DEF WritersStayOut, ClosingAgrees

\* A verdict, which only a pending row receives, and the switch of a row in use.
LEMMA VerdictKeeps ==
  ASSUME RowsInv, NEW d \in Admin, NEW s \in Server, NEW yes \in BOOLEAN,
         decide_application(d, s, yes) \/ set_enabled(d, s, yes)
  PROVE  RowsInv'
<1> USE DEF RowsInv
<1>1. CASE decide_application(d, s, yes)
  <2>1. /\ mcp[s] = "pending" /\ mcp' = [mcp EXCEPT ![s] = Verdict(yes)]
        /\ admin' = [admin EXCEPT ![d] = [step |-> "closing", server |-> s, approved |-> yes]]
        /\ UNCHANGED <<writes, failures, reviews>>
        /\ ~ (yes /\ s \in writes)
    BY <1>1 DEF decide_application
  <2>2. Verdict(yes) \in {"enabled", "rejected"}
    BY DEF Verdict
  <2>3. Onward
    BY <2>1 DEF Onward, InUse, DirectoryKinds
  <2>4. [step |-> "closing", server |-> s, approved |-> yes] \in AdminRow
    BY DEF AdminRow
  <2>5. DirectoryKinds'
    BY <2>1, <2>2, <2>4 DEF DirectoryKinds, McpStatus
  <2>6. WritersStayOut'
    BY <2>1 DEF WritersStayOut, DirectoryKinds, Verdict
  <2>7. ClosingAgrees'
    <3> SUFFICES ASSUME NEW e \in Admin, admin'[e].step = "closing"
                 PROVE  IF admin'[e].approved THEN mcp'[admin'[e].server] \in InUse
                        ELSE mcp'[admin'[e].server] = "rejected"
      BY DEF ClosingAgrees
    <3>1. CASE e = d
      BY <2>1, <3>1 DEF DirectoryKinds, Verdict, InUse
    <3>2. CASE e # d
      <4>1. admin'[e] = admin[e] /\ admin[e].server \in Server
        BY <2>1, <3>2, AdminKind DEF DirectoryKinds
      <4>2. QED
        BY <2>3, <4>1 DEF ClosingAgrees, Onward
    <3>3. QED
      BY <3>1, <3>2
  <2>8. QED
    BY <2>1, <2>3, <2>5, <2>6, <2>7, OnwardKeeps
<1>2. CASE set_enabled(d, s, yes)
  <2>1. /\ mcp[s] \in InUse /\ mcp' = [mcp EXCEPT ![s] = IF yes THEN "enabled" ELSE "disabled"]
        /\ UNCHANGED <<writes, failures, reviews>>
    BY <1>2 DEF set_enabled, Toggle, InUse
  <2>2. PICK row \in {[step |-> "resetting", server |-> s], Finished} : admin' = [admin EXCEPT ![d] = row]
    BY <1>2 DEF set_enabled, Toggle
  <2>3. row \in AdminRow \cup {Finished} /\ row.step # "closing"
    BY <2>2 DEF AdminRow, Finished
  <2>4. Onward
    BY <2>1 DEF Onward, InUse, DirectoryKinds
  <2>5. DirectoryKinds'
    BY <2>1, <2>2, <2>3 DEF DirectoryKinds, McpStatus
  <2>6. WritersStayOut'
    BY <2>1 DEF WritersStayOut, DirectoryKinds, InUse
  <2>7. ClosingAgrees'
    <3> SUFFICES ASSUME NEW e \in Admin, admin'[e].step = "closing"
                 PROVE  IF admin'[e].approved THEN mcp'[admin'[e].server] \in InUse
                        ELSE mcp'[admin'[e].server] = "rejected"
      BY DEF ClosingAgrees
    <3>1. admin'[e] = admin[e] /\ admin[e].server \in Server
      BY <2>2, <2>3, AdminKind DEF DirectoryKinds
    <3>2. QED
      BY <2>4, <3>1 DEF ClosingAgrees, Onward
  <2>8. QED
    BY <2>1, <2>4, <2>5, <2>6, <2>7, OnwardKeeps
<1>3. QED
  BY <1>1, <1>2

\* The second halves of these requests: the review is closed, the counter put back.
LEMMA SecondHalfKeeps ==
  ASSUME RowsInv, NEW d \in Admin, close_review(d) \/ reset(d)
  PROVE  RowsInv'
<1> USE DEF RowsInv
<1>1. mcp' = mcp /\ writes' = writes /\ admin' = [admin EXCEPT ![d] = Finished]
  BY DEF close_review, reset
<1>2. ClosingAgrees' /\ WritersStayOut'
  BY <1>1 DEF ClosingAgrees, WritersStayOut, DirectoryKinds, Finished
<1>3. CASE reset(d)
  <2>1. reviews' = reviews /\ failures' = [failures EXCEPT ![admin[d].server] = 0]
    BY <1>3 DEF reset
  <2>2. DirectoryKinds'
    <3>1. 0 \in 0..MaxFailure
      BY McpAssumption
    <3>2. failures' \in [Server -> 0..MaxFailure]
      BY <2>1, <3>1 DEF DirectoryKinds
    <3>3. admin' \in [Admin -> AdminRow \cup {Unused, Finished}]
      BY <1>1 DEF DirectoryKinds
    <3>4. QED
      BY <1>1, <2>1, <3>2, <3>3 DEF DirectoryKinds
  <2>3. Trail'
    BY <1>1, <2>1 DEF Trail, Told
  <2>4. QED
    BY <1>2, <2>2, <2>3
<1>4. CASE close_review(d) /\ reviews' = reviews
  <2>1. DirectoryKinds'
    BY <1>1, <1>4 DEF DirectoryKinds, close_review
  <2>2. Trail'
    BY <1>1, <1>4 DEF Trail, Told
  <2>3. QED
    BY <1>2, <2>1, <2>2
<1>5. CASE close_review(d) /\ reviews' # reviews
  <2>1. PICK r \in Review : /\ reviews[r] # NoReview /\ reviews[r].target = admin[d].server
                            /\ decide(r, admin[d].approved)
    BY <1>5 DEF close_review
  <2>2. PICK verdict \in {"approved", "rejected"} :
          /\ reviews' = [reviews EXCEPT ![r].status = verdict]
          /\ verdict = IF admin[d].approved THEN "approved" ELSE "rejected"
    BY <2>1 DEF decide
  <2>3. reviews[r] \in ReviewRow(Server)
    BY <2>1 DEF DirectoryKinds
  <2>4. /\ reviews' \in [Review -> ReviewRow(Server) \cup {NoReview}]
        /\ reviews'[r].target = reviews[r].target /\ reviews'[r].status = verdict
        /\ \A q \in Review : q # r => reviews'[q] = reviews[q]
    BY <2>2, <2>3 DEF DirectoryKinds, ReviewRow
  <2>5. DirectoryKinds'
    BY <1>1, <1>5, <2>4 DEF DirectoryKinds, close_review
  <2>6. Told(r)'
    BY <1>1, <1>5, <2>1, <2>2, <2>4 DEF close_review, ClosingAgrees, Told
  <2>7. Trail'
    BY <1>1, <2>4, <2>6 DEF Trail, Told
  <2>8. QED
    BY <1>2, <2>5, <2>7
<1>6. QED
  BY <1>3, <1>4, <1>5

--------------------------------------------------------------------------------
(* The processes that talk to servers *)

\* A call is about one server.
OneAsked(x) == x.step \in {"asking", "tripping"} => \E s \in Server : x.asked = {s}

\* No tool hides another or a built-in one.
Unshadowed(tools) == \A t, u \in tools : t[1] \notin Reserved /\ (t[1] = u[1] => t = u)

Sound(x) ==
    /\ x \in WorkerRow
    /\ Cardinality(x.frozen) <= MaxServer
    /\ OneAsked(x) /\ Unshadowed(x.tools)

WorkersInv ==
    /\ worker \in [Worker -> WorkerRow \cup {Unused, Finished}]
    /\ \A w \in Worker : worker[w] \in WorkerRow => Sound(worker[w])

\* A process that is neither unused nor finished has all the fields of a row.
LEMMA InsideIsSound ==
  ASSUME WorkersInv, NEW w \in Worker, worker[w].step \notin {"unused", "finished"}
  PROVE  Sound(worker[w])
BY DEF WorkersInv, Unused, Finished

\* A process that is over or sound keeps the others as they are.
LEMMA MoveKeeps ==
  ASSUME WorkersInv, NEW w \in Worker, NEW y, Sound(y) \/ y = Finished,
         worker' = [worker EXCEPT ![w] = y]
  PROVE  WorkersInv'
<1>1. y \in WorkerRow \cup {Finished}
  BY DEF Sound
<1>2. worker' \in [Worker -> WorkerRow \cup {Unused, Finished}]
  BY <1>1 DEF WorkersInv
<1>3. ASSUME NEW v \in Worker, worker'[v] \in WorkerRow
      PROVE  Sound(worker'[v])
  <2>1. CASE v = w
    <3>1. worker'[v] = y
      BY <2>1 DEF WorkersInv
    <3>2. Finished \notin WorkerRow
      BY DEF Finished, WorkerRow
    <3>3. QED
      BY <1>3, <3>1, <3>2
  <2>2. CASE v # w
    BY <1>3, <2>2 DEF WorkersInv
  <2>3. QED
    BY <2>1, <2>2
<1>4. QED
  BY <1>2, <1>3 DEF WorkersInv

\* A row that keeps its tools and its snapshot stays sound.
LEMMA StepKind ==
  ASSUME NEW x, Sound(x), NEW y \in WorkerRow, y.tools = x.tools, y.frozen = x.frozen, OneAsked(y)
  PROVE  Sound(y)
BY DEF Sound

\* Where a call leaves its process.
LEMMA AfterKind ==
  ASSUME NEW x, Sound(x)
  PROVE  /\ Sound(After(x)) \/ After(x) = Finished
         /\ After(x).step # "tripping"
<1>1. x \in WorkerRow /\ x.refs \in Seq(Server) /\ x.asked \in SUBSET Server /\ {} \in SUBSET Server
  BY DEF Sound, WorkerRow
<1>2. CASE x.probe
  BY <1>2 DEF After, Finished
<1>3. CASE ~ x.probe /\ x.refs = <<>>
  <2> DEFINE y == [x EXCEPT !.step = "running", !.asked = {}]
  <2>1. y \in WorkerRow /\ y.tools = x.tools /\ y.frozen = x.frozen /\ y.step = "running"
    BY <1>1 DEF WorkerRow
  <2>2. Sound(y)
    BY <2>1, StepKind DEF OneAsked
  <2>3. QED
    BY <1>3, <2>1, <2>2 DEF After
<1>4. CASE ~ x.probe /\ x.refs # <<>>
  <2> DEFINE y == [x EXCEPT !.step = "loading", !.asked = {}, !.refs = Tail(x.refs)]
  <2>1. Tail(x.refs) \in Seq(Server)
    BY <1>1, <1>4
  <2>2. y \in WorkerRow /\ y.tools = x.tools /\ y.frozen = x.frozen /\ y.step = "loading"
    BY <1>1, <2>1 DEF WorkerRow
  <2>3. Sound(y)
    BY <2>2, StepKind DEF OneAsked
  <2>4. After(x) = y
    BY <1>1, <1>4 DEF After, WorkerRow
  <2>5. QED
    BY <2>2, <2>3, <2>4
<1>5. QED
  BY <1>2, <1>3, <1>4

\* A server's answer adds only tools whose names are free.
LEMMA MountKind ==
  ASSUME NEW x, Sound(x), NEW s \in Server, NEW answer \in SUBSET Tool
  PROVE  Sound(Mount(x, s, answer))
<1> DEFINE new == {<<t, s>> : t \in _usable(x, s, answer)}
           y == [x EXCEPT !.tools = x.tools \cup new]
<1>1. x \in WorkerRow /\ x.tools \in SUBSET (Tool \X Server) /\ Unshadowed(x.tools)
  BY DEF Sound, WorkerRow
<1>2. /\ new \subseteq Tool \X Server
      /\ \A t \in new : t[1] \notin Reserved /\ t[2] = s /\ t = <<t[1], t[2]>>
                        /\ \A u \in x.tools : u[1] # t[1]
  BY DEF _usable
<1>3. Unshadowed(x.tools \cup new)
  BY <1>1, <1>2 DEF Unshadowed
<1>4. y \in WorkerRow
  BY <1>1, <1>2 DEF WorkerRow
<1>5. /\ y.tools = x.tools \cup new /\ y.frozen = x.frozen /\ y.step = x.step /\ y.asked = x.asked
  BY <1>1 DEF WorkerRow
<1>6. Sound(y)
  BY <1>3, <1>4, <1>5 DEF Sound, OneAsked
<1>7. Mount(x, s, answer) \in {x, y}
  BY DEF Mount
<1>8. QED
  BY <1>6, <1>7

\* A submission begins with a sound row.
LEMMA SubmitKeeps ==
  ASSUME WorkersInv, NEW w \in Worker, NEW picks \in Picks, Submit(w, picks)
  PROVE  WorkersInv'
<1> DEFINE y == [step |-> "loading", probe |-> FALSE, frozen |-> ToSet(picks),
                 refs |-> _unique_references(picks), tools |-> {}, asked |-> {}]
<1>1. worker' = [worker EXCEPT ![w] = y] /\ Len(picks) <= MaxServer
  BY DEF Submit, Enter
<1>2. y \in WorkerRow
  BY PicksKind DEF WorkerRow
<1>3. Cardinality(y.frozen) <= MaxServer
  BY <1>1, PicksKind, McpAssumption
<1>4. Sound(y)
  BY <1>2, <1>3 DEF Sound, OneAsked, Unshadowed
<1>5. QED
  BY <1>1, <1>4, MoveKeeps

\* So does a probe.
LEMMA ProbeKeeps ==
  ASSUME WorkersInv, NEW w \in Worker, NEW s \in Server, probe(w, s)
  PROVE  WorkersInv'
<1> DEFINE y == [step |-> "asking", probe |-> TRUE, frozen |-> {},
                 refs |-> <<>>, tools |-> {}, asked |-> {s}]
<1>1. worker' = [worker EXCEPT ![w] = y]
  BY DEF probe, Enter
<1>2. y \in WorkerRow
  BY DEF WorkerRow
<1>3. Cardinality(y.frozen) <= MaxServer
  BY FS_EmptySet, McpAssumption
<1>4. Sound(y)
  BY <1>2, <1>3 DEF Sound, OneAsked, Unshadowed
<1>5. QED
  BY <1>1, <1>4, MoveKeeps

\* A run calls a tool it has mounted.
LEMMA CallToolKeeps ==
  ASSUME WorkersInv, NEW w \in Worker, NEW s \in Server, CallTool(w, s)
  PROVE  WorkersInv'
<1> DEFINE x == worker[w]
           y == [x EXCEPT !.step = "asking", !.asked = {s}]
<1>1. Sound(x) /\ x \in WorkerRow
  BY InsideIsSound DEF CallTool, Sound
<1>2. worker' = [worker EXCEPT ![w] = y]
  BY DEF CallTool, Enter
<1>3. y \in WorkerRow /\ y.tools = x.tools /\ y.frozen = x.frozen /\ y.asked = {s}
  BY <1>1 DEF WorkerRow
<1>4. QED
  BY <1>1, <1>2, <1>3, StepKind, MoveKeeps DEF OneAsked

\* Loading goes on with the next server, skips it or is over.
LEMMA LoadKeeps ==
  ASSUME WorkersInv, NEW w \in Worker, LoadNext(w)
  PROVE  WorkersInv'
<1> DEFINE x == worker[w]
<1>1. Sound(x)
  BY InsideIsSound DEF LoadNext
<1>2. x \in WorkerRow /\ x.refs \in Seq(Server)
  BY <1>1 DEF Sound, WorkerRow
<1>3. CASE LoadNext(w) /\ x.refs = <<>>
  <2> DEFINE y == [x EXCEPT !.step = "running"]
  <2>1. worker' = [worker EXCEPT ![w] = y]
    BY <1>3 DEF LoadNext, Enter
  <2>2. y \in WorkerRow /\ y.tools = x.tools /\ y.frozen = x.frozen /\ y.step = "running"
    BY <1>2 DEF WorkerRow
  <2>3. QED
    BY <1>1, <2>1, <2>2, StepKind, MoveKeeps DEF OneAsked
<1>4. CASE LoadNext(w) /\ x.refs # <<>>
  <2>1. Head(x.refs) \in Server /\ Tail(x.refs) \in Seq(Server) /\ x.step = "loading"
    BY <1>2, <1>4 DEF LoadNext
  <2>2. CASE mcp[Head(x.refs)] # "enabled"
    <3> DEFINE y == [x EXCEPT !.refs = Tail(x.refs)]
    <3>1. worker' = [worker EXCEPT ![w] = y]
      BY <1>2, <1>4, <2>2 DEF LoadNext, Enter, WorkerRow
    <3>2. y \in WorkerRow /\ y.tools = x.tools /\ y.frozen = x.frozen /\ y.step = "loading"
      BY <1>2, <2>1 DEF WorkerRow
    <3>3. QED
      BY <1>1, <3>1, <3>2, StepKind, MoveKeeps DEF OneAsked
  <2>3. CASE mcp[Head(x.refs)] = "enabled"
    <3> DEFINE y == [x EXCEPT !.step = "asking", !.asked = {Head(x.refs)}]
    <3>1. worker' = [worker EXCEPT ![w] = y]
      BY <1>4, <2>3 DEF LoadNext, Enter
    <3>2. y \in WorkerRow /\ y.tools = x.tools /\ y.frozen = x.frozen /\ y.asked = {Head(x.refs)}
      BY <1>2, <2>1 DEF WorkerRow
    <3>3. QED
      BY <1>1, <2>1, <3>1, <3>2, StepKind, MoveKeeps DEF OneAsked
  <2>4. QED
    BY <2>2, <2>3
<1>5. QED
  BY <1>3, <1>4

--------------------------------------------------------------------------------
(* The calls, where the processes meet the directory *)

\* What a call is about, and what its end does to the counter, the row and the process.
LEMMA CallEffect ==
  ASSUME RowsInv, WorkersInv, NEW w \in Worker, NEW answer \in SUBSET Tool,
         record_success(w, answer) \/ record_failure(w) \/ disable_for_failure(w)
  PROVE  \E s \in Server :
           /\ worker[w].asked = {s}
           /\ mcp' = mcp \/ (mcp[s] = "enabled" /\ mcp' = [mcp EXCEPT ![s] = "disabled"])
           /\ failures' \in [Server -> 0..MaxFailure]
           /\ UNCHANGED <<writes, reviews, admin>>
           /\ \E y : /\ Sound(y) \/ y = Finished
                     /\ worker' = [worker EXCEPT ![w] = y]
                     /\ y.step # "tripping" => failures'[s] < Threshold \/ mcp'[s] # "enabled"
<1> DEFINE x == worker[w]
<1>1. Sound(x) /\ x.step \in {"asking", "tripping"} /\ x \in WorkerRow
  BY InsideIsSound DEF record_success, record_failure, disable_for_failure, Sound
<1>2. PICK s \in Server : x.asked = {s}
  BY <1>1 DEF Sound, OneAsked
<1>3. /\ failures \in [Server -> 0..MaxFailure] /\ mcp \in [Server -> McpStatus]
      /\ Threshold \in Nat \ {0} /\ MaxFailure \in Nat /\ 0 \in 0..MaxFailure
  BY McpAssumption DEF RowsInv, DirectoryKinds
<1>4. CASE record_success(w, answer)
  <2> DEFINE y == After(Mount(x, s, answer))
  <2>1. /\ failures' = [failures EXCEPT ![s] = 0] /\ worker' = [worker EXCEPT ![w] = y]
        /\ UNCHANGED <<mcp, writes, reviews, admin>>
    BY <1>2, <1>4 DEF record_success
  <2>2. Sound(y) \/ y = Finished
    BY <1>1, <1>2, MountKind, AfterKind
  <2>3. failures' \in [Server -> 0..MaxFailure] /\ failures'[s] < Threshold
    BY <1>3, <2>1
  <2> HIDE DEF y
  <2>4. QED
    BY <1>2, <2>1, <2>2, <2>3
<1>5. CASE record_failure(w)
  <2> DEFINE y == IF Trips(failures[s] + 1) THEN [x EXCEPT !.step = "tripping"] ELSE After(x)
  <2>1. /\ failures[s] < MaxFailure /\ failures' = [failures EXCEPT ![s] = failures[s] + 1]
        /\ worker' = [worker EXCEPT ![w] = y]
        /\ UNCHANGED <<mcp, writes, reviews, admin>>
    BY <1>2, <1>3, <1>5 DEF record_failure
  <2>2. failures[s] \in 0..MaxFailure
    BY <1>3
  <2>3. failures' \in [Server -> 0..MaxFailure] /\ failures'[s] = failures[s] + 1
    BY <1>3, <2>1, <2>2
  <2>4. CASE Trips(failures[s] + 1)
    <3> DEFINE z == [x EXCEPT !.step = "tripping"]
    <3>1. z \in WorkerRow /\ z.tools = x.tools /\ z.frozen = x.frozen /\ z.step = "tripping"
          /\ z.asked = {s}
      BY <1>1, <1>2 DEF WorkerRow
    <3>2. Sound(z) /\ worker' = [worker EXCEPT ![w] = z]
      BY <1>1, <2>1, <2>4, <3>1, StepKind DEF OneAsked
    <3> HIDE DEF z
    <3>3. QED
      BY <1>2, <2>1, <2>3, <3>1, <3>2
  <2>5. CASE ~ Trips(failures[s] + 1)
    <3>1. worker' = [worker EXCEPT ![w] = After(x)]
      BY <2>1, <2>5
    <3>2. failures'[s] < Threshold
      BY <1>3, <2>2, <2>3, <2>5 DEF Trips
    <3>3. Sound(After(x)) \/ After(x) = Finished
      BY <1>1, AfterKind
    <3>4. QED
      BY <1>2, <2>1, <2>3, <3>1, <3>2, <3>3
  <2>6. QED
    BY <2>4, <2>5
<1>6. CASE disable_for_failure(w)
  <2>1. /\ mcp' = IF mcp[s] = "enabled" THEN [mcp EXCEPT ![s] = "disabled"] ELSE mcp
        /\ worker' = [worker EXCEPT ![w] = After(x)]
        /\ UNCHANGED <<writes, failures, reviews, admin>>
    BY <1>2, <1>6 DEF disable_for_failure
  <2>2. mcp'[s] # "enabled"
    BY <1>3, <2>1
  <2>3. Sound(After(x)) \/ After(x) = Finished
    BY <1>1, AfterKind
  <2>4. QED
    BY <1>2, <1>3, <2>1, <2>2, <2>3
<1>7. QED
  BY <1>4, <1>5, <1>6

\* A call keeps the directory and the processes in order.
LEMMA CallKeeps ==
  ASSUME RowsInv, WorkersInv, NEW w \in Worker, NEW answer \in SUBSET Tool,
         record_success(w, answer) \/ record_failure(w) \/ disable_for_failure(w)
  PROVE  RowsInv' /\ WorkersInv'
<1>1. PICK s \in Server :
        /\ mcp' = mcp \/ (mcp[s] = "enabled" /\ mcp' = [mcp EXCEPT ![s] = "disabled"])
        /\ failures' \in [Server -> 0..MaxFailure]
        /\ UNCHANGED <<writes, reviews, admin>>
        /\ \E y : (Sound(y) \/ y = Finished) /\ worker' = [worker EXCEPT ![w] = y]
  BY CallEffect
<1>2. Onward
  BY <1>1 DEF Onward, InUse, RowsInv, DirectoryKinds
<1>3. DirectoryKinds'
  BY <1>1 DEF RowsInv, DirectoryKinds, McpStatus
<1>4. WritersStayOut'
  BY <1>1 DEF RowsInv, WritersStayOut, DirectoryKinds
<1>5. WorkersInv'
  BY <1>1, MoveKeeps
<1>6. QED
  BY <1>1, <1>2, <1>3, <1>4, <1>5, OnwardKeeps DEF RowsInv

--------------------------------------------------------------------------------
(* The specification *)

McpIInv == RowsInv /\ WorkersInv

\* The first state: the listed servers are in use, and nothing else has happened.
LEMMA McpInitially == McpInit => McpIInv
<1> SUFFICES ASSUME McpInit PROVE McpIInv
  OBVIOUS
<1>1. DirectoryKinds
  BY McpAssumption DEF McpInit, ReviewInit, DirectoryKinds, McpStatus
<1>2. WritersStayOut /\ ClosingAgrees /\ Trail
  BY DEF McpInit, ReviewInit, WritersStayOut, ClosingAgrees, Trail, Unused
<1>3. WorkersInv
  BY DEF McpInit, WorkersInv, Unused, WorkerRow
<1>4. QED
  BY <1>1, <1>2, <1>3 DEF McpIInv, RowsInv

\* A step of the directory leaves the processes alone, and the other way round.
LEMMA McpInductive == McpIInv /\ [McpNext]_mcpVars => McpIInv'
<1> SUFFICES ASSUME McpIInv, [McpNext]_mcpVars PROVE McpIInv'
  OBVIOUS
<1>1. RowsInv /\ WorkersInv
  BY DEF McpIInv
<1>2. worker' = worker => WorkersInv'
  BY <1>1 DEF WorkersInv
<1>3. UNCHANGED <<mcp, writes, failures, reviews, admin>> => RowsInv'
  BY <1>1 DEF RowsInv, DirectoryKinds, WritersStayOut, ClosingAgrees, Trail, Told
<1>4. CASE DirectoryNext
  <2>1. worker' = worker
    BY <1>4 DEF DirectoryNext, apply, FileReview, decide_application, set_enabled, Toggle,
                close_review, reset
  <2>2. ASSUME NEW s \in Server, NEW hasWrite \in BOOLEAN, apply(s, hasWrite)
        PROVE  RowsInv'
    BY <1>1, <2>2, ApplyKeeps
  <2>3. ASSUME NEW s \in Server, NEW r \in Review, FileReview(s, r)
        PROVE  RowsInv'
    BY <1>1, <2>3, FileKeeps
  <2>4. ASSUME NEW d \in Admin, NEW s \in Server, NEW yes \in BOOLEAN,
               decide_application(d, s, yes) \/ set_enabled(d, s, yes)
        PROVE  RowsInv'
    BY <1>1, <2>4, VerdictKeeps
  <2>5. ASSUME NEW d \in Admin, close_review(d) \/ reset(d)
        PROVE  RowsInv'
    BY <1>1, <2>5, SecondHalfKeeps
  <2>6. RowsInv'
    BY <1>4, <2>2, <2>3, <2>4, <2>5 DEF DirectoryNext
  <2>7. QED
    BY <1>2, <2>1, <2>6 DEF McpIInv
<1>5. CASE WorkerNext
  <2>1. Run \subseteq Worker /\ Probe \subseteq Worker /\ {} \in SUBSET Tool
    BY DEF Worker
  <2>2. ASSUME NEW w \in Run, NEW picks \in Picks, Submit(w, picks)
        PROVE  McpIInv'
    <3>1. WorkersInv'
      BY <1>1, <2>1, <2>2, SubmitKeeps
    <3>2. QED
      BY <1>3, <2>2, <3>1 DEF Submit, Enter, McpIInv
  <2>3. ASSUME NEW w \in Run, NEW s \in Server, CallTool(w, s)
        PROVE  McpIInv'
    <3>1. WorkersInv'
      BY <1>1, <2>1, <2>3, CallToolKeeps
    <3>2. QED
      BY <1>3, <2>3, <3>1 DEF CallTool, Enter, McpIInv
  <2>4. ASSUME NEW w \in Probe, NEW s \in Server, probe(w, s)
        PROVE  McpIInv'
    <3>1. WorkersInv'
      BY <1>1, <2>1, <2>4, ProbeKeeps
    <3>2. QED
      BY <1>3, <2>4, <3>1 DEF probe, Enter, McpIInv
  <2>5. ASSUME NEW w \in Worker, LoadNext(w)
        PROVE  McpIInv'
    <3>1. WorkersInv'
      BY <1>1, <2>5, LoadKeeps
    <3>2. QED
      BY <1>3, <2>5, <3>1 DEF LoadNext, Enter, McpIInv
  <2>6. ASSUME NEW w \in Worker, NEW answer \in SUBSET Tool,
               record_success(w, answer) \/ record_failure(w) \/ disable_for_failure(w)
        PROVE  McpIInv'
    BY <1>1, <2>6, CallKeeps DEF McpIInv
  <2>7. QED
    BY <1>5, <2>1, <2>2, <2>3, <2>4, <2>5, <2>6 DEF WorkerNext
<1>6. CASE UNCHANGED mcpVars
  BY <1>2, <1>3, <1>6 DEF mcpVars, McpIInv
<1>7. QED
  BY <1>4, <1>5, <1>6 DEF McpNext

\* So it always holds.
LEMMA McpIInvHolds == McpSpec => []McpIInv
BY McpInitially, McpInductive, PTL DEF McpSpec

\* The directory is in order for every number of servers, administrators and runs at
\* once: no server that writes is in use, the reviewers' list never contradicts what
\* became of an application, and a run's tools have one meaning each (decide_application,
\* _close_review, set_enabled; _usable).
THEOREM DirectoryInOrder == McpSpec => []DirectoryInv
<1>1. McpIInv => DirectoryInv
  <2> SUFFICES ASSUME McpIInv PROVE DirectoryInv
    OBVIOUS
  <2>1. McpTypeOK
    BY DEF McpIInv, RowsInv, DirectoryKinds, WorkersInv, Sound, McpTypeOK
  <2>2. TrailAgrees
    BY DEF McpIInv, RowsInv, Trail, Told, InUse, TrailAgrees
  <2>3. NoShadowing
    BY DEF McpIInv, WorkersInv, Sound, Unshadowed, NoShadowing
  <2>4. QED
    BY <2>1, <2>2, <2>3 DEF McpIInv, RowsInv, DirectoryInv
<1>2. QED
  BY <1>1, McpIInvHolds, PTL

\* No caller leaves a server in use whose failures have reached the threshold, also when
\* an earlier caller died on the way to taking it out (record_failure).
THEOREM TrippedAreOut == McpSpec => TripsAreKept
<1> DEFINE Kept == \A w \in Worker : worker[w].step \in {"asking", "tripping"} /\ worker'[w] # worker[w] =>
             \A s \in worker[w].asked :
                 failures'[s] >= Threshold /\ worker'[w].step # "tripping" => mcp'[s] # "enabled"
<1>1. ASSUME McpIInv, [McpNext]_mcpVars, NEW w \in Worker,
             worker[w].step \in {"asking", "tripping"}, worker'[w] # worker[w],
             NEW s \in worker[w].asked, failures'[s] >= Threshold, worker'[w].step # "tripping"
      PROVE  mcp'[s] # "enabled"
  <2>1. RowsInv /\ WorkersInv /\ worker \in [Worker -> WorkerRow \cup {Unused, Finished}]
    BY <1>1 DEF McpIInv, WorkersInv
  <2>2. PICK answer \in SUBSET Tool :
          record_success(w, answer) \/ record_failure(w) \/ disable_for_failure(w)
    <3>1. ASSUME NEW v \in Worker, NEW y, worker' = [worker EXCEPT ![v] = y]
          PROVE  v = w
      BY <1>1, <2>1, <3>1
    <3>2. worker' # worker /\ McpNext /\ ~ DirectoryNext
      BY <1>1 DEF mcpVars, DirectoryNext, apply, FileReview, decide_application, set_enabled,
                  Toggle, close_review, reset
    <3>3. {} \in SUBSET Tool /\ Run \subseteq Worker /\ Probe \subseteq Worker
      BY DEF Worker
    <3>4. \A v \in Worker : ~ LoadNext(v)
      BY <1>1, <3>1 DEF LoadNext, Enter
    <3>5. \A v \in Worker, t \in Server : ~ CallTool(v, t) /\ ~ probe(v, t)
      BY <1>1, <3>1 DEF CallTool, probe, Enter, Unused
    <3>6. \A v \in Worker, picks \in Picks : ~ Submit(v, picks)
      BY <1>1, <3>1 DEF Submit, Enter, Unused
    <3>7. PICK v \in Worker :
            \/ \E answer \in SUBSET Tool : record_success(v, answer)
            \/ record_failure(v) \/ disable_for_failure(v)
      BY <3>2, <3>3, <3>4, <3>5, <3>6 DEF McpNext, WorkerNext
    <3>8. PICK answer \in SUBSET Tool :
            record_success(v, answer) \/ record_failure(v) \/ disable_for_failure(v)
      BY <3>3, <3>7
    <3>9. \E y : worker' = [worker EXCEPT ![v] = y]
      BY <2>1, <3>8, CallEffect
    <3>10. QED
      BY <3>1, <3>8, <3>9
  <2>3. PICK t \in Server :
          /\ worker[w].asked = {t} /\ failures' \in [Server -> 0..MaxFailure]
          /\ \E y : /\ worker' = [worker EXCEPT ![w] = y]
                    /\ y.step # "tripping" => failures'[t] < Threshold \/ mcp'[t] # "enabled"
    BY <2>1, <2>2, CallEffect
  <2>4. s = t /\ (failures'[t] < Threshold \/ mcp'[t] # "enabled")
    BY <1>1, <2>1, <2>3
  <2>5. ~ (failures'[s] < Threshold)
    BY <1>1, <2>3, <2>4, McpAssumption
  <2>6. QED
    BY <1>1, <2>3, <2>4, <2>5
<1>2. McpIInv /\ [McpNext]_mcpVars => [Kept]_mcpVars
  BY <1>1
<1>3. QED
  BY <1>2, McpIInvHolds, PTL DEF McpSpec, TripsAreKept

================================================================================
