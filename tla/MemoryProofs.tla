------------------------------- MODULE MemoryProofs -------------------------------
(***************************************************************************)
(* What the memory of a conversation keeps.                                *)
(*                                                                         *)
(* Its directory, for every set of files, contents and admissible sets:    *)
(* the invariant that ties the markers to the position in the transaction, *)
(* and that no step but the commit changes what the next reader will find. *)
(*                                                                         *)
(* Its jobs, for every set of jobs, workers and records, every limit and   *)
(* any number of sweeps and faults: verdicts and deletions of the user     *)
(* stand, attempts and holders beyond the limit are accounted for by       *)
(* sweeps, and the ledger counts no call twice.                            *)
(***************************************************************************)
EXTENDS MemoryFiles, MemoryJobs, FiniteSetTheorems, TLAPS

--------------------------------------------------------------------------------
(* The directory (MemoryFiles). *)

\* A file that was moved to .backup is gone from the directory, unless a new one took
\* its place under .promoting.
Apart == \A f \in File : active[f] = None \/ backup[f] = None

Marks ==
    /\ ~ kept => backup = Empty
    /\ committed => ~ promoting

Separate ==
    (kept /\ ~ promoting /\ ~ committed) \/ phase \in {"unbacking", "restoring"} => Apart

\* The markers at each position of the transaction.
Position ==
    /\ phase = "idle" => ~ kept /\ ~ promoting /\ ~ committed /\ stage = Empty
    /\ phase = "backing" => kept /\ ~ promoting /\ ~ committed
    /\ phase \in {"promoting", "wiping"} => kept /\ promoting /\ ~ committed
    /\ phase = "cleaning" => committed /\ stage = Empty
    /\ phase \in {"unpromoting", "unbacking", "restoring"} => kept /\ ~ committed
    /\ phase = "forward" => committed
    /\ phase = "dropping" => ~ kept /\ ~ committed

FilesInv == FilesTypeOK /\ Marks /\ Separate /\ Position

--------------------------------------------------------------------------------
\* The empty directory is a directory.
LEMMA EmptyIsDirectory == Empty \in Directory
BY DEF Empty, Directory

\* The files at their initial state satisfy the invariant.
LEMMA FilesInitially == FilesInit => FilesInv
BY EmptyIsDirectory
   DEF FilesInit, FilesInv, FilesTypeOK, Marks, Separate, Position, Phase, Apart, Empty

\* Moving files out of the way, and putting them back, keeps the invariant.
LEMMA MovesKeepInv ==
  ASSUME FilesInv, NEW f \in File, FileStep(f)
  PROVE  FilesInv'
<1> USE DEF Directory, Phase
<1>1. CASE BackUp(f)
  BY <1>1 DEF FilesInv, BackUp, FilesTypeOK, Marks, Separate, Position, Apart
<1>2. CASE Promote(f)
  BY <1>2 DEF FilesInv, Promote, FilesTypeOK, Marks, Separate, Position, Apart
<1>3. CASE Unpromote(f)
  BY <1>3 DEF FilesInv, Unpromote, FilesTypeOK, Marks, Separate, Position, Apart
<1>4. CASE Unback(f)
  BY <1>4 DEF FilesInv, Unback, FilesTypeOK, Marks, Separate, Position, Apart
<1>5. CASE Wipe(f)
  BY <1>5 DEF FilesInv, Wipe, FilesTypeOK, Marks, Separate, Position, Apart
<1>6. CASE Restore(f)
  BY <1>6 DEF FilesInv, Restore, FilesTypeOK, Marks, Separate, Position, Apart
<1>7. QED
  BY <1>1, <1>2, <1>3, <1>4, <1>5, <1>6 DEF FileStep

\* So does every other step.
LEMMA OthersKeepInv ==
  ASSUME FilesInv,
         \/ \E files \in Fits : StageFiles(files)
         \/ MarkPromoting \/ Commit \/ RemoveBackup \/ RemoveCommitted
         \/ GiveUp \/ Unpromoted \/ Unbacked \/ Die
         \/ Recover \/ Forward \/ Forwarded \/ Wiped \/ Restored \/ Drop
  PROVE  FilesInv'
<1> USE FilesAssumption, EmptyIsDirectory DEF Phase
<1>e. \A f \in File : Empty[f] = None
  BY DEF Empty
<1>1. CASE \E files \in Fits : StageFiles(files)
  <2>1. PICK files \in Fits : StageFiles(files)
    BY <1>1
  <2>2. files \in Directory
    BY DEF Directory
  <2>3. QED
    BY <1>e, <2>1, <2>2 DEF FilesInv, StageFiles, FilesTypeOK, Marks, Separate, Position, Apart
<1>2. CASE MarkPromoting
  BY <1>2 DEF FilesInv, MarkPromoting, FilesTypeOK, Marks, Separate, Position, Apart
<1>3. CASE Commit
  BY <1>3 DEF FilesInv, Commit, FilesTypeOK, Marks, Separate, Position, Apart
<1>4. CASE RemoveBackup
  BY <1>4 DEF FilesInv, RemoveBackup, FilesTypeOK, Marks, Separate, Position, Apart
<1>5. CASE RemoveCommitted
  BY <1>5 DEF FilesInv, RemoveCommitted, FilesTypeOK, Marks, Separate, Position, Apart
<1>6. CASE GiveUp
  BY <1>6 DEF FilesInv, GiveUp, FilesTypeOK, Marks, Separate, Position, Apart
<1>7. CASE Unpromoted
  BY <1>e, <1>7 DEF FilesInv, Unpromoted, FilesTypeOK, Marks, Separate, Position, Apart
<1>8. CASE Unbacked
  BY <1>8 DEF FilesInv, Unbacked, FilesTypeOK, Marks, Separate, Position, Apart
<1>9. CASE Die
  BY <1>9 DEF FilesInv, Die, FilesTypeOK, Marks, Separate, Position, Apart
<1>10. CASE Recover
  BY <1>10 DEF FilesInv, Recover, FilesTypeOK, Marks, Separate, Position, Apart
<1>11. CASE Forward
  BY <1>11 DEF FilesInv, Forward, FilesTypeOK, Marks, Separate, Position, Apart
<1>12. CASE Forwarded
  BY <1>12 DEF FilesInv, Forwarded, FilesTypeOK, Marks, Separate, Position, Apart
<1>13. CASE Wiped
  BY <1>e, <1>13 DEF FilesInv, Wiped, FilesTypeOK, Marks, Separate, Position, Apart
<1>14. CASE Restored
  BY <1>14 DEF FilesInv, Restored, FilesTypeOK, Marks, Separate, Position, Apart
<1>15. CASE Drop
  BY <1>15 DEF FilesInv, Drop, FilesTypeOK, Marks, Separate, Position, Apart
<1>16. QED
  BY <1>1, <1>2, <1>3, <1>4, <1>5, <1>6, <1>7, <1>8, <1>9, <1>10, <1>11, <1>12, <1>13,
     <1>14, <1>15

\* Every step keeps the invariant.
LEMMA FilesStepKeepsInv == FilesInv /\ [FilesNext]_fileVars => FilesInv'
<1> SUFFICES ASSUME FilesInv, [FilesNext]_fileVars PROVE FilesInv'
  OBVIOUS
<1>1. CASE UNCHANGED fileVars
  BY <1>1 DEF fileVars, FilesInv, FilesTypeOK, Marks, Separate, Position, Apart
<1>2. CASE FilesNext
  BY <1>2, MovesKeepInv, OthersKeepInv DEF FilesNext
<1>3. QED
  BY <1>1, <1>2

\* Markers, .backup and position agree in every reachable state (app/memory/store.py).
THEOREM FilesInvariant == FilesSpec => []FilesInv
BY FilesInitially, FilesStepKeepsInv, PTL DEF FilesSpec

\* Directories, markers and phase keep their types, and whatever failed or died, once the
\* directory is idle again nothing of the transaction is left, so that the next
\* replacement can start (_recover_transaction_artifacts).
THEOREM DirectoryIsSound == FilesSpec => []FilesSound
<1>1. FilesInv => FilesSound
  BY DEF FilesInv, Marks, Position, IdleIsClean, FilesSound
<1>2. QED
  BY <1>1, FilesInvariant, PTL

--------------------------------------------------------------------------------
(* What the next reader finds. *)

\* With nothing in .backup the merged set is the directory.
LEMMA MergedWithoutBackup ==
  ASSUME FilesTypeOK, backup = Empty
  PROVE  Merged = active
BY DEF FilesTypeOK, Directory, Merged, Empty

\* With an empty directory the merged set is .backup.
LEMMA MergedWithoutActive ==
  ASSUME FilesTypeOK, active = Empty
  PROVE  Merged = backup
BY DEF FilesTypeOK, Directory, Merged, Empty

\* A file that moves between the directory and .backup leaves the merged set as it is.
LEMMA MergedAcrossMove ==
  ASSUME FilesTypeOK, FilesTypeOK', Apart, Apart', NEW f \in File,
         \A g \in File \ {f} : active'[g] = active[g] /\ backup'[g] = backup[g],
         \/ active[f] # None /\ backup'[f] = active[f]
         \/ backup[f] # None /\ active'[f] = backup[f]
  PROVE  Merged' = Merged
<1>1. ASSUME NEW g \in File PROVE Merged'[g] = Merged[g]
  BY <1>1 DEF Apart, Merged
<1>2. QED
  BY <1>1 DEF Merged

\* Moving a file changes nothing for the next reader.
LEMMA MovesKeepReadable ==
  ASSUME FilesInv, FilesInv', NEW f \in File, FileStep(f)
  PROVE  Readable' = Readable
<1> USE DEF FilesInv
<1>t. active \in Directory /\ backup \in Directory /\ active' \in Directory /\ backup' \in Directory
  BY DEF FilesTypeOK
<1>1. CASE BackUp(f)
  <2>1. Apart /\ Apart'
    BY <1>1 DEF BackUp, Separate, Position
  <2>2. Merged' = Merged
    BY <1>1, <1>t, <2>1, MergedAcrossMove DEF BackUp, Directory
  <2>3. QED
    BY <1>1, <2>2 DEF BackUp, Position, Readable
<1>2. CASE Promote(f)
  BY <1>2 DEF Promote, Position, Readable
<1>3. CASE Unpromote(f)
  BY <1>3 DEF Unpromote, Position, Readable
<1>4. CASE Unback(f)
  <2>1. Apart /\ Apart'
    BY <1>4 DEF Unback, Separate, Position
  <2>2. Merged' = Merged
    BY <1>4, <1>t, <2>1, MergedAcrossMove DEF Unback, Directory
  <2>3. QED
    BY <1>4, <2>2 DEF Unback, Position, Readable
<1>5. CASE Wipe(f)
  BY <1>5 DEF Wipe, Position, Readable
<1>6. CASE Restore(f)
  <2>1. Apart /\ Apart'
    BY <1>6 DEF Restore, Separate, Position
  <2>2. Merged' = Merged
    BY <1>6, <1>t, <2>1, MergedAcrossMove DEF Restore, Directory
  <2>3. QED
    BY <1>6, <2>2 DEF Restore, Position, Readable
<1>7. QED
  BY <1>1, <1>2, <1>3, <1>4, <1>5, <1>6 DEF FileStep

\* Steps that leave the directory and .backup alone leave the merged set alone.
LEMMA MergedUnchanged ==
  ASSUME active' = active, backup' = backup
  PROVE  Merged' = Merged
BY DEF Merged

\* The steps before the commit and after it.
LEMMA ForwardStepsKeepReadable ==
  ASSUME FilesInv, FilesInv',
         \/ \E files \in Fits : StageFiles(files)
         \/ MarkPromoting \/ RemoveBackup \/ RemoveCommitted \/ Forward \/ Forwarded
  PROVE  Readable' = Readable
<1> USE DEF FilesInv
<1>1. CASE \E files \in Fits : StageFiles(files)
  <2>1. PICK files \in Fits : StageFiles(files)
    BY <1>1
  <2>2. Merged' = active
    BY <2>1, MergedUnchanged, MergedWithoutBackup DEF StageFiles, Marks, Position
  <2>3. QED
    BY <2>1, <2>2 DEF StageFiles, Position, Readable
<1>2. CASE MarkPromoting
  <2>1. Merged = backup
    BY <1>2, MergedWithoutActive DEF MarkPromoting
  <2>2. QED
    BY <1>2, <2>1 DEF MarkPromoting, Position, Readable
<1>3. CASE RemoveBackup
  BY <1>3 DEF RemoveBackup, Position, Readable
<1>4. CASE RemoveCommitted
  BY <1>4 DEF RemoveCommitted, Position, Readable
<1>5. CASE Forward
  BY <1>5 DEF Forward, Position, Readable
<1>6. CASE Forwarded
  BY <1>6 DEF Forwarded, Position, Readable
<1>7. QED
  BY <1>1, <1>2, <1>3, <1>4, <1>5, <1>6

\* The steps of the way back.
LEMMA BackwardStepsKeepReadable ==
  ASSUME FilesInv, FilesInv',
         GiveUp \/ Unpromoted \/ Unbacked \/ Recover \/ Wiped \/ Restored \/ Drop
  PROVE  Readable' = Readable
<1> USE DEF FilesInv
<1>1. CASE GiveUp
  <2>1. Merged' = Merged
    BY <1>1, MergedUnchanged DEF GiveUp
  <2>2. QED
    BY <1>1, <2>1 DEF GiveUp, Position, Readable
<1>2. CASE Unpromoted
  <2>1. Merged' = Merged /\ (promoting => Merged = backup)
    BY <1>2, MergedUnchanged, MergedWithoutActive DEF Unpromoted
  <2>2. QED
    BY <1>2, <2>1 DEF Unpromoted, Position, Readable
<1>3. CASE Unbacked
  <2>1. Merged = active
    BY <1>3, MergedWithoutBackup DEF Unbacked
  <2>2. QED
    BY <1>3, <2>1 DEF Unbacked, Position, Readable
<1>4. CASE Recover
  <2>1. Merged' = Merged
    BY <1>4, MergedUnchanged DEF Recover
  <2>2. QED
    BY <1>4, <2>1 DEF Recover, Readable
<1>5. CASE Wiped
  <2>1. Merged' = Merged /\ Merged = backup
    BY <1>5, MergedUnchanged, MergedWithoutActive DEF Wiped
  <2>2. QED
    BY <1>5, <2>1 DEF Wiped, Position, Readable
<1>6. CASE Restored
  <2>1. Merged = active
    BY <1>6, MergedWithoutBackup DEF Restored
  <2>2. QED
    BY <1>6, <2>1 DEF Restored, Position, Readable
<1>7. CASE Drop
  BY <1>7 DEF Drop, Position, Readable
<1>8. QED
  BY <1>1, <1>2, <1>3, <1>4, <1>5, <1>6, <1>7

\* A crash changes what the next reader finds only while files are put back under .promoting.
LEMMA CrashKeepsReadable ==
  ASSUME FilesInv, Die, ~ HalfRestored
  PROVE  Readable' = Readable
<1>1. Merged' = Merged
  BY MergedUnchanged DEF Die
<1>2. CASE promoting /\ phase \in {"unbacking", "restoring"}
  <2>1. Merged = backup
    BY <1>2, MergedWithoutActive DEF FilesInv, HalfRestored
  <2>2. QED
    BY <1>1, <1>2, <2>1 DEF Die, Readable
<1>3. CASE ~ (promoting /\ phase \in {"unbacking", "restoring"})
  BY <1>1, <1>3 DEF Die, Readable
<1>4. QED
  BY <1>2, <1>3

\* Only a commit changes what the next reader finds, whatever fails and wherever the
\* process dies, except for a death while files are put back under .promoting
\* (_replace_files, _recover_transaction_artifacts).
THEOREM ReplacementIsAtomic == FilesSpec => AtomicUnlessRestoreCut
<1>1. ASSUME FilesInv, FilesInv', [FilesNext]_fileVars
      PROVE  [Readable' = Readable \/ Commit \/ (HalfRestored /\ Die)]_fileVars
  <2>1. CASE UNCHANGED fileVars
    BY <2>1
  <2>2. CASE \E f \in File : FileStep(f)
    BY <1>1, <2>2, MovesKeepReadable
  <2>3. CASE \/ \E files \in Fits : StageFiles(files)
             \/ MarkPromoting \/ RemoveBackup \/ RemoveCommitted \/ Forward \/ Forwarded
    BY <1>1, <2>3, ForwardStepsKeepReadable
  <2>4. CASE GiveUp \/ Unpromoted \/ Unbacked \/ Recover \/ Wiped \/ Restored \/ Drop
    BY <1>1, <2>4, BackwardStepsKeepReadable
  <2>5. CASE Die
    BY <1>1, <2>5, CrashKeepsReadable
  <2>6. CASE Commit
    BY <2>6
  <2>7. QED
    BY <1>1, <2>1, <2>2, <2>3, <2>4, <2>5, <2>6 DEF FilesNext
<1>2. QED
  BY <1>1, FilesInvariant, PTL DEF FilesSpec, AtomicUnlessRestoreCut

--------------------------------------------------------------------------------
(* The jobs (MemoryJobs). *)

\* A worker that will queue the job again is allowed to.
WellMeant == \A w \in Worker : at[w] \in Task /\ at[w].end = "queued" => at[w].turn < MaxAttempt

\* Zero rows are booked for what they are; a stage is skipped by the consolidator only.
Fit(x) ==
    /\ x.step = "zero" => x.purpose = "zero"
    /\ x.step \in {"look", "book"} /\ x.purpose = "skip" => x.stage = "consolidator"

\* A task for which stage g has been accounted for.
Relies(x, g) ==
    \/ x.step \in {"replace", "rollback", "finish"}
    \/ x.step \in {"write", "review", "merge"} /\ g = "extractor"
    \/ x.step \in {"look", "book"} /\ x.purpose = "zero" /\ g \notin x.missing /\ g # x.stage
    \/ x.step \in {"look", "book"} /\ x.purpose # "zero" /\ x.stage = "consolidator" /\ g = "extractor"

\* The stage has a row, or the booking of one failed.
Accounted(j, g) == ledger[j][g] # Absent \/ g \in unbooked[j]

\* Which rows of the ledger are there when a worker is past a stage.
RowsThere == \A w \in Worker : at[w] \in Task =>
    Fit(at[w]) /\ \A g \in Stage : Relies(at[w], g) => Accounted(at[w].job, g)

\* A call that is still to be booked.
Owes(x) == x.step \in {"look", "book"} /\ x.purpose = "call"

Holders(j)    == {w \in Worker : Holds(w, j)}
Hopeful(j)    == {w \in Worker : Holds(w, j) /\ at[w].turn < MaxAttempt}
Due(j, g)     == {w \in Worker : Holds(w, j) /\ at[w].stage = g /\ Owes(at[w])}
Bookers(j, g) == {w \in Worker : Holds(w, j) /\ at[w].stage = g /\ at[w].step = "book"}

One(p) == IF p THEN 1 ELSE 0

\* Every holder but one, and that one only while the job is running, was swept.
HoldersSwept == \A j \in Job :
    Cardinality(Holders(j)) <= swept[j] + One(job[j].status = "running")

\* Claims beyond the limit, made or still possible, were each paid for by a sweep.
ClaimsPaid == \A j \in Job :
    /\ job[j].status = "none" => job[j].attempts = 0
    /\ job[j].attempts >= MaxAttempt =>
        job[j].attempts + One(job[j].status = "queued") + Cardinality(Hopeful(j)) <= MaxAttempt + swept[j]

Entry(j, g) == IF ledger[j][g] = Absent THEN 0 ELSE ledger[j][g]

\* What is booked, and what a worker is about to write, with the calls still due, is at most
\* what was called.
NotTwice(j, g) ==
    /\ Entry(j, g) + Cardinality(Due(j, g)) <= called[j][g]
    /\ \A w \in Bookers(j, g) : at[w].seen + Cardinality(Due(j, g)) <= called[j][g]

\* As long as no sweep interferes and no booking fails nothing is lost either.
NoneLost(j, g) == swept[j] = 0 /\ g \notin unbooked[j] =>
    /\ Holders(j) # {} \/ job[j].status # "running" => Entry(j, g) + Cardinality(Due(j, g)) = called[j][g]
    /\ \A w \in Bookers(j, g) : at[w].seen = Entry(j, g)

Ledgers == \A j \in Job, g \in Stage : NotTwice(j, g) /\ NoneLost(j, g)

--------------------------------------------------------------------------------
(* What a step of a worker does to the worker. *)

\* y is what is left to do of task x.
Follows(x, y) ==
    /\ y \in Task /\ y.job = x.job /\ y.turn = x.turn /\ Fit(y)
    /\ y.end = "queued" => x.end = "queued" \/ x.turn < MaxAttempt

\* The worker goes on with its job, past no stage that is not accounted for.
Onward(w) ==
    /\ at[w] \in Task /\ Follows(at[w], at'[w]) /\ at' \in [Worker -> Task \cup {Free}]
    /\ \A v \in Worker : v # w => at'[v] = at[v]
    /\ unbooked' \in [Job -> SUBSET Stage] /\ \A j \in Job : unbooked[j] \subseteq unbooked'[j]
    /\ \A g \in Stage : Relies(at'[w], g) => Relies(at[w], g) \/ Accounted(at[w].job, g)'

\* No call is made or booked; one that was due is given up only by a booking that failed.
Quiet(w) ==
    /\ Onward(w) /\ UNCHANGED <<job, ledger, called, swept>>
    /\ at'[w].step # "book" /\ ~ Owes(at'[w])
    /\ Owes(at[w]) => at[w].stage \in unbooked'[at[w].job]

\* A merge is not written over what the worker has not seen.
Kept(w) ==
    /\ store' \subseteq Slug
    /\ at[w].step \in {"replace", "rollback"} => store' = store \/ store = at[w].snap

\* A worker is free or has a task.
LEMMA FreeIsNoTask ==
  /\ Free \notin Task
  /\ \A x \in Task \cup {Free} : /\ x.step # "free" => x \in Task
                                 /\ x # Free => x \in Task
BY DEF Free, Task

\* What is left of a task that ends.
LEMMA EndingShape ==
  ASSUME NEW x \in Task
  PROVE  /\ Ending(x, TRUE) \in Task /\ Ending(x, TRUE).step = "finish"
         /\ Ending(x, TRUE).job = x.job /\ Ending(x, TRUE).turn = x.turn /\ Ending(x, TRUE).end = x.end
         /\ Ending(x, FALSE) \in Task /\ Ending(x, FALSE).step = "zero" /\ Ending(x, FALSE).purpose = "zero"
         /\ Ending(x, FALSE).job = x.job /\ Ending(x, FALSE).turn = x.turn /\ Ending(x, FALSE).end = x.end
BY DEF Ending, Task, Stage

\* What the except branch makes of a task.
LEMMA ExceptedShape ==
  ASSUME NEW x \in Task
  PROVE  /\ Excepted(x) \in Task /\ Excepted(x).step = x.step /\ Excepted(x).purpose = x.purpose
         /\ Excepted(x).job = x.job /\ Excepted(x).turn = x.turn
         /\ Excepted(x).end = "queued" => x.turn < MaxAttempt
BY DEF Excepted, MayRetry, Task, Settled

\* A task that ends or fails: the verdict comes after all rows, the zero rows after none.
LEMMA EndsFollow ==
  ASSUME NEW x \in Task
  PROVE  /\ Follows(x, Ending(x, TRUE)) /\ Ending(x, TRUE).step = "finish"
         /\ Follows(x, Failing(x, TRUE)) /\ Failing(x, TRUE).step = "finish"
         /\ Follows(x, Ending(x, FALSE)) /\ Ending(x, FALSE).step = "zero"
         /\ Follows(x, Failing(x, FALSE)) /\ Failing(x, FALSE).step = "zero"
<1>1. /\ Failing(x, TRUE) \in Task /\ Failing(x, TRUE).step = "finish"
      /\ Failing(x, TRUE).job = x.job /\ Failing(x, TRUE).turn = x.turn
      /\ Failing(x, TRUE).end = "queued" => x.turn < MaxAttempt
  <2>1. PICK y \in Task : y = Ending(x, TRUE)
    BY EndingShape
  <2>2. Failing(x, TRUE) = Excepted(y) /\ y.step = "finish" /\ y.job = x.job /\ y.turn = x.turn
    BY <2>1, EndingShape DEF Failing
  <2>. QED BY <2>2, ExceptedShape
<1>4. /\ Failing(x, FALSE) \in Task /\ Failing(x, FALSE).step = "zero"
      /\ Failing(x, FALSE).purpose = "zero"
      /\ Failing(x, FALSE).job = x.job /\ Failing(x, FALSE).turn = x.turn
      /\ Failing(x, FALSE).end = "queued" => x.turn < MaxAttempt
  <2>1. PICK y \in Task : y = Ending(x, FALSE)
    BY EndingShape
  <2>2. Failing(x, FALSE) = Excepted(y) /\ y.step = "zero" /\ y.job = x.job /\ y.turn = x.turn /\ y.purpose = "zero"
    BY <2>1, EndingShape DEF Failing
  <2>. QED BY <2>2, ExceptedShape
<1>2. ASSUME NEW y \in Task, y.job = x.job, y.turn = x.turn, y.step \in {"finish", "zero"},
             y.step = "zero" => y.purpose = "zero",
             y.end = "queued" => x.end = "queued" \/ x.turn < MaxAttempt
      PROVE  Follows(x, y)
  BY <1>2 DEF Follows, Fit
<1>6. /\ Ending(x, TRUE) \in Task /\ Ending(x, TRUE).step = "finish"
      /\ Ending(x, TRUE).job = x.job /\ Ending(x, TRUE).turn = x.turn /\ Ending(x, TRUE).end = x.end
      /\ Ending(x, FALSE) \in Task /\ Ending(x, FALSE).step = "zero" /\ Ending(x, FALSE).purpose = "zero"
      /\ Ending(x, FALSE).job = x.job /\ Ending(x, FALSE).turn = x.turn /\ Ending(x, FALSE).end = x.end
  BY EndingShape
<1>3. Follows(x, Ending(x, TRUE)) /\ Follows(x, Ending(x, FALSE))
  BY <1>2, <1>6
<1>5. Follows(x, Failing(x, TRUE)) /\ Follows(x, Failing(x, FALSE))
  BY <1>1, <1>2, <1>4
<1>. QED BY <1>1, <1>3, <1>4, <1>5, <1>6

\* The loop over the stages without a row, as it goes on.
LEMMA NextZeroShape ==
  ASSUME NEW x \in Task, x.purpose = "zero"
  PROVE  /\ Follows(x, NextZero(x)) /\ NextZero(x).purpose = "zero"
         /\ NextZero(x).step \in {"look", "finish"}
         /\ \A g \in Stage : Relies(NextZero(x), g) => g \notin x.missing
<1>0. x.missing \subseteq Stage /\ x.end \in Settled \cup {"queued"}
  BY DEF Task
<1>1. CASE "extractor" \in x.missing
  <2> DEFINE y == [x EXCEPT !.step = "look", !.stage = "extractor", !.missing = @ \ {"extractor"}]
  <2>1. NextZero(x) = y
    BY <1>1 DEF NextZero
  <2>2. /\ y \in Task /\ y.job = x.job /\ y.turn = x.turn /\ y.end = x.end /\ y.purpose = "zero"
        /\ y.step = "look" /\ y.stage = "extractor" /\ y.missing = x.missing \ {"extractor"}
    BY <1>0 DEF Task, Stage
  <2> HIDE DEF y
  <2>. QED BY <2>1, <2>2 DEF Follows, Fit, Relies
<1>2. CASE x.missing = {"consolidator"}
  <2> DEFINE y == [x EXCEPT !.step = "look", !.stage = "consolidator", !.missing = {}]
  <2>1. NextZero(x) = y
    BY <1>2 DEF NextZero
  <2>2. /\ y \in Task /\ y.job = x.job /\ y.turn = x.turn /\ y.end = x.end /\ y.purpose = "zero"
        /\ y.step = "look" /\ y.stage = "consolidator" /\ y.missing = {}
    BY <1>0 DEF Task, Stage
  <2> HIDE DEF y
  <2>. QED BY <1>2, <2>1, <2>2 DEF Follows, Fit, Relies
<1>3. CASE x.missing = {}
  <2> DEFINE y == [x EXCEPT !.step = "finish", !.stage = "extractor"]
  <2>1. NextZero(x) = y
    BY <1>3 DEF NextZero
  <2>2. /\ y \in Task /\ y.job = x.job /\ y.turn = x.turn /\ y.end = x.end /\ y.purpose = "zero"
        /\ y.step = "finish"
    BY <1>0 DEF Task, Stage
  <2> HIDE DEF y
  <2>. QED BY <1>3, <2>1, <2>2 DEF Follows, Fit, Relies
<1>. QED BY <1>0, <1>1, <1>2, <1>3 DEF Stage

\* The new task of one worker is a task; the others keep theirs.
LEMMA GoShape ==
  ASSUME JobsTypeOK, NEW w \in Worker, at[w] \in Task, NEW y, Go(w, y), Follows(at[w], y)
  PROVE  /\ at'[w] = y /\ at' \in [Worker -> Task \cup {Free}]
         /\ \A v \in Worker : v # w => at'[v] = at[v]
<1>1. y \in Task /\ at' = [at EXCEPT ![w] = y] /\ at \in [Worker -> Task \cup {Free}]
  BY DEF JobsTypeOK, Go, Follows
<1>. QED BY <1>1

\* A worker that goes on from one task to the next, and relies on no more than before or
\* on what is accounted for by now.
LEMMA GoesOnward ==
  ASSUME JobsTypeOK, NEW w \in Worker, at[w] \in Task, NEW y, Go(w, y), Follows(at[w], y),
         unbooked' \in [Job -> SUBSET Stage], \A j \in Job : unbooked[j] \subseteq unbooked'[j],
         \A g \in Stage : Relies(y, g) => Relies(at[w], g) \/ Accounted(at[w].job, g)'
  PROVE  Onward(w) /\ at'[w] = y
BY GoShape DEF Onward

\* A worker that ends or fails, with all rows accounted for if it does not book zero rows.
LEMMA GoEnds ==
  ASSUME JobsTypeOK, NEW w \in Worker, at[w] \in Task, NEW e \in {TRUE, FALSE},
         Go(w, Ending(at[w], e)) \/ Go(w, Failing(at[w], e)),
         unbooked' \in [Job -> SUBSET Stage], \A j \in Job : unbooked[j] \subseteq unbooked'[j],
         e = TRUE => \A g \in Stage : Relies(at[w], g) \/ Accounted(at[w].job, g)'
  PROVE  Onward(w) /\ at'[w].step = IF e THEN "finish" ELSE "zero"
<1>1. PICK y : /\ Go(w, y) /\ Follows(at[w], y) /\ y.step = IF e THEN "finish" ELSE "zero"
  BY EndsFollow
<1>2. \A g \in Stage : Relies(y, g) => Relies(at[w], g) \/ Accounted(at[w].job, g)'
  BY <1>1 DEF Relies
<1>. QED BY <1>1, <1>2, GoesOnward

\* Nothing is booked and no booking fails.
LEMMA SameBookings ==
  ASSUME JobsTypeOK, UNCHANGED unbooked
  PROVE  unbooked' \in [Job -> SUBSET Stage] /\ \A j \in Job : unbooked[j] \subseteq unbooked'[j]
BY DEF JobsTypeOK

\* Looking after the conversation and reading its records.
LEMMA ReadingShape ==
  ASSUME JobsTypeOK, NEW w \in Worker, guard(w) \/ export(w)
  PROVE  Quiet(w) /\ Kept(w)
<1>0. /\ UNCHANGED <<job, ledger, called, swept, unbooked, store>>
      /\ at[w].step \in {"guard", "export", "review"}
  BY DEF guard, export
<1>1. at[w] \in Task /\ store \subseteq Slug
  BY <1>0, FreeIsNoTask DEF JobsTypeOK
<1>2. unbooked' \in [Job -> SUBSET Stage] /\ \A j \in Job : unbooked[j] \subseteq unbooked'[j]
  BY <1>0, SameBookings
<1>3. Kept(w) /\ ~ Owes(at[w])
  BY <1>0, <1>1 DEF Kept, Owes
<1>4. ASSUME NEW y, Go(w, y), Follows(at[w], y), y.step # "book", ~ Owes(y),
             \A g \in Stage : Relies(y, g) => Relies(at[w], g)
      PROVE  Quiet(w)
  BY <1>0, <1>1, <1>2, <1>3, <1>4, GoesOnward DEF Quiet
<1>5. ASSUME NEW y, Go(w, y), Follows(at[w], y), y.step = "zero" PROVE Quiet(w)
  BY <1>4, <1>5 DEF Owes, Relies
<1>6. ASSUME NEW y \in Task, Go(w, y), y.job = at[w].job, y.turn = at[w].turn,
             y.end \in {at[w].end, "discarded"},
             \/ y.step \in {"export", "extract"}
             \/ at[w].step = "review" /\ y.step = "merge"
             \/ at[w].step = "review" /\ y.step = "look" /\ y.stage = "consolidator" /\ y.purpose = "skip"
      PROVE  Quiet(w)
  <2>1. Follows(at[w], y)
    BY <1>6 DEF Follows, Fit
  <2>2. y.step # "book" /\ ~ Owes(y)
    BY <1>6 DEF Owes
  <2>3. \A g \in Stage : Relies(y, g) => Relies(at[w], g)
    BY <1>6 DEF Relies
  <2>. QED BY <1>4, <1>6, <2>1, <2>2, <2>3
<1>7. ASSUME guard(w) PROVE Quiet(w)
  <2>1. CASE Go(w, [at[w] EXCEPT !.step = "export"])
    <3>1. [at[w] EXCEPT !.step = "export"] \in Task
      BY <1>1 DEF Task
    <3>2. PICK y : y = [at[w] EXCEPT !.step = "export"]
      OBVIOUS
    <3>3. /\ y \in Task /\ y.step = "export" /\ y.job = at[w].job /\ y.turn = at[w].turn
          /\ y.end = at[w].end /\ Go(w, y)
      BY <1>1, <2>1, <3>1, <3>2 DEF Task
    <3>. QED BY <1>6, <3>3
  <2>2. CASE Go(w, [Ending(at[w], FALSE) EXCEPT !.end = "discarded"])
    <3>1. PICK x : x = Ending(at[w], FALSE)
      OBVIOUS
    <3>2. /\ x \in Task /\ x.step = "zero" /\ x.purpose = "zero" /\ x.job = at[w].job /\ x.turn = at[w].turn
      BY <1>1, <3>1, EndingShape
    <3>3. PICK y : y = [x EXCEPT !.end = "discarded"]
      OBVIOUS
    <3>4. /\ y \in Task /\ y.step = "zero" /\ y.purpose = "zero" /\ y.job = at[w].job /\ y.turn = at[w].turn
          /\ y.end = "discarded" /\ Go(w, y)
      BY <2>2, <3>1, <3>2, <3>3 DEF Task, Settled
    <3>5. Follows(at[w], y)
      BY <3>4 DEF Follows, Fit
    <3>. QED BY <1>5, <3>4, <3>5
  <2>. QED BY <1>7, <2>1, <2>2 DEF guard
<1>8. ASSUME export(w) PROVE Quiet(w)
  <2>1. CASE Go(w, Failing(at[w], FALSE))
    <3>1. PICK y : y = Failing(at[w], FALSE)
      OBVIOUS
    <3>2. Go(w, y) /\ Follows(at[w], y) /\ y.step = "zero"
      BY <1>1, <2>1, <3>1, EndsFollow
    <3>. QED BY <1>5, <3>2
  <2>2. CASE Go(w, [at[w] EXCEPT !.step = "extract", !.snap = store])
    <3>1. PICK y : y = [at[w] EXCEPT !.step = "extract", !.snap = store]
      OBVIOUS
    <3>2. /\ y \in Task /\ y.step = "extract" /\ y.job = at[w].job /\ y.turn = at[w].turn
          /\ y.end = at[w].end /\ Go(w, y)
      BY <1>1, <2>2, <3>1 DEF Task
    <3>. QED BY <1>6, <3>2
  <2>3. CASE at[w].step = "review" /\ Go(w, Reviewed(at[w]))
    <3>1. PICK y : y = Reviewed(at[w])
      OBVIOUS
    <3>2. /\ y \in Task /\ y.job = at[w].job /\ y.turn = at[w].turn /\ y.end = at[w].end
          /\ y.step = "merge" \/ (y.step = "look" /\ y.stage = "consolidator" /\ y.purpose = "skip")
      <4>1. CASE Cardinality(store) >= MergeAt
        BY <1>1, <3>1, <4>1 DEF Reviewed, Task
      <4>2. CASE ~ (Cardinality(store) >= MergeAt)
        BY <1>1, <3>1, <4>2 DEF Reviewed, Task, Stage
      <4>. QED BY <4>1, <4>2
    <3>. QED BY <1>6, <2>3, <3>1, <3>2
  <2>. QED BY <1>8, <2>1, <2>2, <2>3 DEF export
<1>. QED BY <1>3, <1>7, <1>8

\* A model call: one call more, not booked yet.
LEMMA CallShape ==
  ASSUME JobsTypeOK, NEW w \in Worker, NEW found \in SUBSET Slug,
         extract(w, found) \/ consolidate(w, found)
  PROVE  /\ Onward(w) /\ UNCHANGED <<job, ledger, swept, store, unbooked>>
         /\ at[w].step \in {"extract", "merge"}
         /\ at'[w].step = "look" /\ at'[w].purpose = "call"
         /\ called' = [called EXCEPT ![at[w].job][at'[w].stage] = @ + 1]
<1>1. at[w].step \in {"extract", "merge"} /\ at[w] \in Task
  BY FreeIsNoTask DEF JobsTypeOK, extract, consolidate
<1>2. PICK h \in Stage, todo \in SUBSET Slug :
        CallModel(w, h, todo) /\ (h = "consolidator" => at[w].step = "merge")
  <2>1. found \ at[w].snap \in SUBSET Slug /\ "extractor" \in Stage /\ "consolidator" \in Stage
    BY DEF Stage
  <2>. QED BY <2>1 DEF extract, consolidate, Admitted
<1>3. PICK y : y = [at[w] EXCEPT !.step = "look", !.stage = h, !.purpose = "call", !.todo = todo]
  OBVIOUS
<1>4. /\ y \in Task /\ y.job = at[w].job /\ y.turn = at[w].turn /\ y.end = at[w].end
      /\ y.step = "look" /\ y.stage = h /\ y.purpose = "call"
  BY <1>1, <1>2, <1>3 DEF Task
<1>5. Go(w, y) /\ UNCHANGED <<job, ledger, swept, store, unbooked>>
      /\ called' = [called EXCEPT ![at[w].job][h] = @ + 1]
  BY <1>2, <1>3 DEF CallModel
<1>6. Follows(at[w], y)
  BY <1>4 DEF Follows, Fit
<1>7. \A g \in Stage : Relies(y, g) => Relies(at[w], g)
  BY <1>2, <1>4 DEF Relies
<1>8. Onward(w) /\ at'[w] = y
  BY <1>1, <1>5, <1>6, <1>7, SameBookings, GoesOnward
<1>. QED BY <1>1, <1>4, <1>5, <1>8

\* Reading the row of the ledger.
LEMMA LookShape ==
  ASSUME JobsTypeOK, NEW w \in Worker, Fit(at[w]), usage_for_run(w)
  PROVE  /\ Onward(w) /\ UNCHANGED <<job, ledger, called, swept, store, unbooked>>
         /\ at[w].step = "look" /\ at'[w].step = "book" /\ at'[w].stage = at[w].stage
         /\ at'[w].purpose = at[w].purpose
         /\ at'[w].seen = Entry(at[w].job, at[w].stage)
<1>1. at[w] \in Task /\ at[w].step = "look"
  BY FreeIsNoTask DEF JobsTypeOK, usage_for_run
<1>2. Entry(at[w].job, at[w].stage) \in Nat
  BY <1>1 DEF Entry, JobsTypeOK, Task
<1>3. PICK y : y = [at[w] EXCEPT !.step = "book", !.seen = Entry(at[w].job, at[w].stage)]
  OBVIOUS
<1>4. /\ y \in Task /\ y.job = at[w].job /\ y.turn = at[w].turn /\ y.end = at[w].end /\ y.step = "book"
      /\ y.stage = at[w].stage /\ y.seen = Entry(at[w].job, at[w].stage)
      /\ y.purpose = at[w].purpose /\ y.missing = at[w].missing
  BY <1>1, <1>2, <1>3 DEF Task
<1>5. Go(w, y) /\ UNCHANGED <<job, ledger, called, swept, store, unbooked>>
  BY <1>3 DEF usage_for_run, Entry
<1>6. Follows(at[w], y)
  BY <1>1, <1>4 DEF Follows, Fit
<1>7. \A g \in Stage : Relies(y, g) => Relies(at[w], g)
  BY <1>1, <1>4 DEF Relies
<1>8. Onward(w) /\ at'[w] = y
  BY <1>1, <1>5, <1>6, <1>7, SameBookings, GoesOnward
<1>. QED BY <1>1, <1>4, <1>5, <1>8

\* Writing it.
LEMMA BookShape ==
  ASSUME JobsTypeOK, NEW w \in Worker, Fit(at[w]), NEW failed \in BOOLEAN, record_usage(w, failed)
  PROVE  /\ Onward(w) /\ UNCHANGED <<job, called, swept, store, unbooked>>
         /\ at[w].step = "book" /\ at'[w].step # "book" /\ ~ Owes(at'[w])
         /\ ledger' = [ledger EXCEPT ![at[w].job][at[w].stage] = at[w].seen + One(at[w].purpose = "call")]
<1>1. at[w] \in Task /\ at[w].step = "book"
  BY FreeIsNoTask DEF JobsTypeOK, record_usage
<1>2. PICK x : x = [at[w] EXCEPT !.seen = 0]
  OBVIOUS
<1>3. /\ x \in Task /\ x.job = at[w].job /\ x.turn = at[w].turn /\ x.end = at[w].end
      /\ x.step = "book" /\ x.stage = at[w].stage /\ x.purpose = at[w].purpose
      /\ x.missing = at[w].missing /\ x.stage \in Stage /\ x.job \in Job /\ at[w].seen \in Nat
  BY <1>1, <1>2 DEF Task
<1>4. /\ ledger' = [ledger EXCEPT ![x.job][x.stage] = Booked(at[w])]
      /\ \/ x.purpose = "call" /\ failed /\ Go(w, Failing(x, x.stage = "consolidator"))
         \/ x.purpose = "call" /\ ~ failed /\ Go(w, Continue(x))
         \/ x.purpose = "skip" /\ Go(w, Ending(x, TRUE))
         \/ x.purpose = "zero" /\ Go(w, NextZero(x))
      /\ UNCHANGED <<job, called, swept, store, unbooked>>
  BY <1>2 DEF record_usage
<1>5. Booked(at[w]) = at[w].seen + One(at[w].purpose = "call") /\ Booked(at[w]) \in Nat
  BY <1>3 DEF Booked, One
<1>6. Accounted(x.job, x.stage)'
  BY <1>3, <1>4, <1>5 DEF JobsTypeOK, Absent, Accounted
<1>7. ASSUME NEW y, Go(w, y), Follows(x, y), y.step # "book", ~ Owes(y),
             \A g \in Stage : Relies(y, g) => Relies(x, g) \/ g = x.stage
      PROVE  Onward(w) /\ at'[w].step # "book" /\ ~ Owes(at'[w])
  <2>1. Follows(at[w], y)
    BY <1>3, <1>7 DEF Follows
  <2>2. \A g : Relies(x, g) => Relies(at[w], g)
    BY <1>1, <1>3 DEF Relies
  <2>5. at'[w].job = x.job
    BY <1>1, <1>3, <1>7, <2>1, GoShape DEF Follows
  <2>3. \A g \in Stage : Relies(y, g) => Relies(at[w], g) \/ Accounted(at[w].job, g)'
    <3>1. SUFFICES ASSUME NEW g \in Stage, Relies(y, g), ~ Relies(at[w], g)
                   PROVE  Accounted(at[w].job, g)'
      OBVIOUS
    <3>2. g = x.stage
      BY <1>7, <2>2, <3>1
    <3>. QED BY <1>6, <2>5, <3>2 DEF Accounted
  <2>4. Onward(w) /\ at'[w] = y
    BY <1>1, <1>4, <1>7, <2>1, <2>3, SameBookings, GoesOnward
  <2>. QED BY <1>7, <2>4
<1>8. ASSUME NEW y, Go(w, y), Follows(x, y), y.step = "finish", x.stage = "consolidator", x.purpose # "zero"
      PROVE  Onward(w) /\ at'[w].step # "book" /\ ~ Owes(at'[w])
  <2>1. \A g \in Stage : Relies(x, g) \/ g = x.stage
    BY <1>3, <1>8 DEF Relies, Stage
  <2>2. y.step # "book" /\ ~ Owes(y)
    BY <1>8 DEF Owes
  <2>. QED BY <1>7, <1>8, <2>1, <2>2
<1>9. ASSUME NEW y, Go(w, y), Follows(x, y), y.step = "zero"
      PROVE  Onward(w) /\ at'[w].step # "book" /\ ~ Owes(at'[w])
  BY <1>7, <1>9 DEF Owes, Relies
<1>10. ASSUME x.purpose = "call" /\ Go(w, Failing(x, x.stage = "consolidator"))
       PROVE Onward(w) /\ at'[w].step # "book" /\ ~ Owes(at'[w])
  <2>1. CASE x.stage = "consolidator"
    <3>1. Failing(x, x.stage = "consolidator") = Failing(x, TRUE)
      BY <2>1 DEF Failing, Ending
    <3>2. PICK y : y = Failing(x, TRUE)
      OBVIOUS
    <3>3. Go(w, y) /\ Follows(x, y) /\ y.step = "finish"
      BY <1>3, <1>10, <3>1, <3>2, EndsFollow
    <3>. QED BY <1>8, <1>10, <2>1, <3>3
  <2>2. CASE x.stage # "consolidator"
    <3>1. Failing(x, x.stage = "consolidator") = Failing(x, FALSE)
      BY <2>2 DEF Failing, Ending
    <3>2. PICK y : y = Failing(x, FALSE)
      OBVIOUS
    <3>3. Go(w, y) /\ Follows(x, y) /\ y.step = "zero"
      BY <1>3, <1>10, <3>1, <3>2, EndsFollow
    <3>. QED BY <1>9, <3>3
  <2>. QED BY <2>1, <2>2
<1>11. ASSUME x.purpose = "call" /\ Go(w, Continue(x))
       PROVE Onward(w) /\ at'[w].step # "book" /\ ~ Owes(at'[w])
  <2>1. CASE x.stage = "extractor"
    <3>1. PICK y : y = Continue(x)
      OBVIOUS
    <3>2. y = [x EXCEPT !.step = "write", !.snap = {}]
      BY <2>1, <3>1 DEF Continue
    <3>3. y \in Task /\ y.job = x.job /\ y.turn = x.turn /\ y.end = x.end /\ y.step = "write"
      BY <1>3, <3>2 DEF Task
    <3>4. Follows(x, y) /\ ~ Owes(y) /\ \A g \in Stage : Relies(y, g) => g = x.stage
      BY <2>1, <3>3 DEF Follows, Fit, Owes, Relies
    <3>5. Go(w, y)
      BY <1>11, <3>1
    <3>. QED BY <1>7, <3>3, <3>4, <3>5
  <2>2. CASE x.stage = "consolidator" /\ x.todo = x.snap
    <3>1. Continue(x) = Ending(x, TRUE)
      BY <2>2 DEF Continue
    <3>2. PICK y : y = Ending(x, TRUE)
      OBVIOUS
    <3>3. Go(w, y) /\ Follows(x, y) /\ y.step = "finish"
      BY <1>3, <1>11, <3>1, <3>2, EndsFollow
    <3>. QED BY <1>8, <1>11, <2>2, <3>3
  <2>3. CASE x.stage = "consolidator" /\ x.todo # x.snap
    <3>1. PICK y : y = Continue(x)
      OBVIOUS
    <3>2. y = [x EXCEPT !.step = "replace"]
      BY <2>3, <3>1 DEF Continue
    <3>3. y \in Task /\ y.job = x.job /\ y.turn = x.turn /\ y.end = x.end /\ y.step = "replace"
      BY <1>3, <3>2 DEF Task
    <3>4. Follows(x, y) /\ ~ Owes(y)
      BY <3>3 DEF Follows, Fit, Owes
    <3>5. \A g \in Stage : Relies(x, g) \/ g = x.stage
      BY <1>3, <1>11, <2>3 DEF Relies, Stage
    <3>6. Go(w, y)
      BY <1>11, <3>1
    <3>. QED BY <1>7, <3>3, <3>4, <3>5, <3>6
  <2>. QED BY <1>3, <2>1, <2>2, <2>3 DEF Stage
<1>12. ASSUME x.purpose = "skip" /\ Go(w, Ending(x, TRUE))
       PROVE Onward(w) /\ at'[w].step # "book" /\ ~ Owes(at'[w])
  <2>1. x.stage = "consolidator"
    BY <1>1, <1>3, <1>12 DEF Fit
  <2>2. PICK y : y = Ending(x, TRUE)
    OBVIOUS
  <2>3. Go(w, y) /\ Follows(x, y) /\ y.step = "finish"
    BY <1>3, <1>12, <2>2, EndsFollow
  <2>. QED BY <1>8, <1>12, <2>1, <2>3
<1>13. ASSUME x.purpose = "zero" /\ Go(w, NextZero(x))
       PROVE Onward(w) /\ at'[w].step # "book" /\ ~ Owes(at'[w])
  <2>1. PICK y : y = NextZero(x)
    OBVIOUS
  <2>2. /\ Follows(x, y) /\ y.purpose = "zero" /\ y.step \in {"look", "finish"}
        /\ \A g \in Stage : Relies(y, g) => g \notin x.missing
    BY <1>3, <1>13, <2>1, NextZeroShape
  <2>3. y.step # "book" /\ ~ Owes(y)
    BY <2>2 DEF Owes
  <2>4. \A g \in Stage : Relies(y, g) => Relies(x, g) \/ g = x.stage
    BY <1>3, <1>13, <2>2 DEF Relies
  <2>5. Go(w, y)
    BY <1>13, <2>1
  <2>. QED BY <1>7, <2>2, <2>3, <2>4, <2>5
<1>. QED BY <1>1, <1>4, <1>5, <1>3, <1>10, <1>11, <1>12, <1>13

\* A worker that goes on without a call, relying on no more than before.
LEMMA GoesQuietly ==
  ASSUME JobsTypeOK, NEW w \in Worker, at[w] \in Task, NEW y, Go(w, y), Follows(at[w], y),
         y.step # "book", ~ Owes(y), ~ Owes(at[w]),
         UNCHANGED <<job, ledger, called, swept, unbooked>>,
         \A g \in Stage : Relies(y, g) => Relies(at[w], g)
  PROVE  Quiet(w)
BY SameBookings, GoesOnward DEF Quiet

\* Looking which rows there are.
LEMMA ZeroShape ==
  ASSUME JobsTypeOK, NEW w \in Worker, Fit(at[w]), _ensure_zero_usage(w)
  PROVE  Quiet(w) /\ Kept(w)
<1>1. at[w] \in Task /\ at[w].step = "zero" /\ at[w].purpose = "zero" /\ store \subseteq Slug
  BY FreeIsNoTask DEF JobsTypeOK, _ensure_zero_usage, Fit
<1>2. PICK i \in Job : i = at[w].job
  BY <1>1 DEF Task
<1>3. PICK x : x = [at[w] EXCEPT !.missing = {g \in Stage : ledger[i][g] = Absent}]
  OBVIOUS
<1>4. /\ x \in Task /\ x.job = i /\ x.turn = at[w].turn /\ x.end = at[w].end
      /\ x.purpose = "zero" /\ x.missing = {g \in Stage : ledger[i][g] = Absent}
  BY <1>1, <1>2, <1>3 DEF Task
<1>5. PICK y : y = NextZero(x)
  OBVIOUS
<1>6. /\ Follows(x, y) /\ y.purpose = "zero" /\ y.step \in {"look", "finish"}
      /\ \A g \in Stage : Relies(y, g) => g \notin x.missing
  BY <1>4, <1>5, NextZeroShape
<1>7. Go(w, y) /\ UNCHANGED <<job, ledger, called, swept, unbooked, store>>
  BY <1>2, <1>3, <1>5 DEF _ensure_zero_usage
<1>8. Follows(at[w], y) /\ y.job = i
  BY <1>2, <1>4, <1>6 DEF Follows
<1>9. at'[w] = y
  BY <1>1, <1>7, <1>8, GoShape
<1>10. \A g \in Stage : Relies(y, g) => Accounted(at[w].job, g)'
  BY <1>4, <1>6, <1>7, <1>8, <1>9 DEF Accounted
<1>11. Onward(w)
  BY <1>1, <1>7, <1>8, <1>10, SameBookings, GoesOnward
<1>12. y.step # "book" /\ ~ Owes(y) /\ ~ Owes(at[w])
  BY <1>1, <1>6 DEF Owes
<1>13. Kept(w)
  BY <1>1, <1>7 DEF Kept
<1>. QED BY <1>7, <1>9, <1>11, <1>12, <1>13 DEF Quiet

\* A call of the store, or one that fails.
LEMMA StoreShape ==
  ASSUME JobsTypeOK, NEW w \in Worker, write(w) \/ replace(w) \/ rollback(w) \/ CallFails(w)
  PROVE  Quiet(w) /\ Kept(w)
<1>0. /\ UNCHANGED <<job, ledger, called, swept, unbooked>>
      /\ at[w].step \in {"guard", "export", "review", "write", "replace", "rollback"}
  BY DEF write, replace, rollback, CallFails
<1>1. at[w] \in Task /\ store \subseteq Slug /\ ~ Owes(at[w])
  BY <1>0, FreeIsNoTask DEF JobsTypeOK, Owes
<1>n. at[w].todo \subseteq Slug /\ at[w].snap \subseteq Slug
  BY <1>1 DEF Task
<1>2. ASSUME NEW y, Go(w, y), Follows(at[w], y), y.step = "zero" PROVE Quiet(w)
  <2>1. y.step # "book" /\ ~ Owes(y) /\ \A g \in Stage : Relies(y, g) => Relies(at[w], g)
    BY <1>2 DEF Owes, Relies
  <2>. QED BY <1>0, <1>1, <1>2, <2>1, GoesQuietly
<1>3. ASSUME NEW y, Go(w, y), Follows(at[w], y), y.step \in {"finish", "rollback"},
             at[w].step \in {"replace", "rollback"}
      PROVE  Quiet(w)
  <2>1. y.step # "book" /\ ~ Owes(y) /\ \A g \in Stage : Relies(y, g) => Relies(at[w], g)
    BY <1>3 DEF Owes, Relies
  <2>. QED BY <1>0, <1>1, <1>3, <2>1, GoesQuietly
<1>4. ASSUME NEW y \in Task, Go(w, y), y.job = at[w].job, y.turn = at[w].turn, y.end = at[w].end,
             at[w].step = "write", y.step \in {"write", "review"}
      PROVE  Quiet(w)
  <2>1. y.step # "book" /\ ~ Owes(y) /\ \A g \in Stage : Relies(y, g) => Relies(at[w], g)
    BY <1>4 DEF Owes, Relies
  <2>2. Follows(at[w], y)
    BY <1>4 DEF Follows, Fit
  <2>. QED BY <1>0, <1>1, <1>4, <2>1, <2>2, GoesQuietly
<1>5. ASSUME Go(w, Ending(at[w], FALSE)) \/ Go(w, Failing(at[w], FALSE)) PROVE Quiet(w)
  BY <1>1, <1>2, <1>5, EndsFollow
<1>6. ASSUME Go(w, Ending(at[w], TRUE)) \/ Go(w, Failing(at[w], TRUE)), at[w].step \in {"replace", "rollback"}
      PROVE  Quiet(w)
  BY <1>1, <1>3, <1>6, EndsFollow
<1>7. ASSUME \/ Go(w, [at[w] EXCEPT !.step = "rollback"])
             \/ Go(w, Excepted([at[w] EXCEPT !.step = "rollback"])),
             at[w].step = "replace"
      PROVE  Quiet(w)
  <2>1. PICK x : x = [at[w] EXCEPT !.step = "rollback"]
    OBVIOUS
  <2>2. x \in Task /\ x.job = at[w].job /\ x.turn = at[w].turn /\ x.end = at[w].end /\ x.step = "rollback"
    BY <1>1, <2>1 DEF Task
  <2>3. PICK y : Go(w, y) /\ (y = x \/ y = Excepted(x))
    BY <1>7, <2>1
  <2>4. /\ y \in Task /\ y.job = at[w].job /\ y.turn = at[w].turn /\ y.step = "rollback"
        /\ y.end = "queued" => at[w].end = "queued" \/ at[w].turn < MaxAttempt
    BY <2>2, <2>3, ExceptedShape
  <2>5. Follows(at[w], y)
    BY <2>4 DEF Follows, Fit
  <2>. QED BY <1>3, <1>7, <2>3, <2>4, <2>5
<1>8. ASSUME write(w) PROVE Quiet(w) /\ store' \subseteq Slug
  <2>1. CASE Go(w, [at[w] EXCEPT !.step = "review"])
    <3>1. PICK y : y = [at[w] EXCEPT !.step = "review"]
      OBVIOUS
    <3>2. /\ y \in Task /\ y.job = at[w].job /\ y.turn = at[w].turn /\ y.end = at[w].end /\ y.step = "review"
          /\ Go(w, y) /\ at[w].step = "write"
      BY <1>1, <1>8, <2>1, <3>1 DEF Task, write
    <3>3. store' \subseteq Slug
      BY <1>1, <1>8, <1>n DEF write
    <3>. QED BY <1>4, <3>2, <3>3
  <2>2. ASSUME NEW s \in at[w].todo, Go(w, [at[w] EXCEPT !.todo = @ \ {s}]), store' = store \cup {s}
        PROVE  Quiet(w) /\ store' \subseteq Slug
    <3>1. PICK y : y = [at[w] EXCEPT !.todo = @ \ {s}]
      OBVIOUS
    <3>2. /\ y \in Task /\ y.job = at[w].job /\ y.turn = at[w].turn /\ y.end = at[w].end /\ y.step = "write"
          /\ Go(w, y) /\ at[w].step = "write"
      BY <1>1, <1>8, <2>2, <3>1 DEF Task, write
    <3>3. store' \subseteq Slug
      BY <1>1, <1>n, <2>2
    <3>. QED BY <1>4, <3>2, <3>3
  <2>3. CASE (Go(w, Failing(at[w], FALSE)) \/ Go(w, Ending(at[w], FALSE))) /\ UNCHANGED store
    BY <1>1, <1>5, <2>3
  <2>. QED BY <1>8, <2>1, <2>2, <2>3 DEF write
<1>9. ASSUME replace(w) PROVE Quiet(w) /\ store' \subseteq Slug /\ (store' = store \/ store = at[w].snap)
  <2>1. at[w].step = "replace"
    BY <1>9 DEF replace
  <2>2. \/ Go(w, Ending(at[w], TRUE)) \/ Go(w, Failing(at[w], TRUE))
        \/ Go(w, [at[w] EXCEPT !.step = "rollback"])
        \/ Go(w, Excepted([at[w] EXCEPT !.step = "rollback"]))
    BY <1>9 DEF replace
  <2>3. store' \subseteq Slug /\ (store' = store \/ store = at[w].snap)
    BY <1>1, <1>n, <1>9 DEF replace, _version
  <2>. QED BY <1>6, <1>7, <2>1, <2>2, <2>3
<1>10. ASSUME rollback(w) PROVE Quiet(w) /\ store' \subseteq Slug /\ (store' = store \/ store = at[w].snap)
  <2>1. at[w].step = "rollback"
    BY <1>10 DEF rollback
  <2>2. \/ Go(w, Ending(at[w], TRUE)) \/ Go(w, Ending(at[w], FALSE)) \/ Go(w, Failing(at[w], TRUE))
    <3>1. CASE at[w].end = "succeeded"
      <4>1. Ending(at[w], at[w].end # "succeeded") = Ending(at[w], FALSE)
        BY <3>1 DEF Ending
      <4>. QED BY <1>10, <4>1 DEF rollback
    <3>2. CASE at[w].end # "succeeded"
      <4>1. Ending(at[w], at[w].end # "succeeded") = Ending(at[w], TRUE)
        BY <3>2 DEF Ending
      <4>. QED BY <1>10, <4>1 DEF rollback
    <3>. QED BY <3>1, <3>2
  <2>3. store' \subseteq Slug /\ (store' = store \/ store = at[w].snap)
    BY <1>1, <1>n, <1>10 DEF rollback, RolledBack, _version
  <2>. QED BY <1>5, <1>6, <2>1, <2>2, <2>3
<1>11. ASSUME CallFails(w)
       PROVE  /\ Quiet(w) /\ store' \subseteq Slug
              /\ at[w].step \in {"replace", "rollback"} => store' = store \/ store = at[w].snap
  <2>1. /\ at[w].step = "replace" => Go(w, Excepted([at[w] EXCEPT !.step = "rollback"]))
        /\ at[w].step # "replace" => Go(w, Failing(at[w], at[w].step = "rollback"))
        /\ store' \in {store} \cup Changes(at[w])
    BY <1>11 DEF CallFails
  <2>2. CASE at[w].step = "replace"
    <3>1. store' = store \/ (_version(at[w]) /\ store' = at[w].todo)
      BY <2>1, <2>2 DEF Changes
    <3>. QED BY <1>1, <1>n, <1>7, <2>1, <2>2, <3>1 DEF _version
  <2>3. CASE at[w].step = "rollback"
    <3>1. Failing(at[w], at[w].step = "rollback") = Failing(at[w], TRUE)
      BY <2>3 DEF Failing, Ending
    <3>2. store' = store
      BY <2>1, <2>3 DEF Changes
    <3>. QED BY <1>1, <1>6, <2>1, <2>3, <3>1, <3>2
  <2>4. CASE at[w].step \notin {"replace", "rollback"}
    <3>1. Failing(at[w], at[w].step = "rollback") = Failing(at[w], FALSE)
      BY <2>4 DEF Failing, Ending
    <3>2. store' = store \/ \E s \in at[w].todo : store' = store \cup {s}
      BY <2>1, <2>4 DEF Changes
    <3>. QED BY <1>1, <1>n, <1>5, <2>1, <2>4, <3>1, <3>2
  <2>. QED BY <2>2, <2>3, <2>4
<1>12. ASSUME write(w) PROVE Kept(w)
  BY <1>8, <1>12 DEF Kept, write
<1>. QED BY <1>8, <1>9, <1>10, <1>11, <1>12 DEF Kept

\* A booking that fails: what has got no row is known to have none.
LEMMA BookingFailsShape ==
  ASSUME JobsTypeOK, NEW w \in Worker, Fit(at[w]), BookingFails(w)
  PROVE  Quiet(w) /\ Kept(w)
<1>1. /\ at[w] \in Task /\ at[w].step \in {"zero", "look", "book"} /\ store \subseteq Slug
      /\ UNCHANGED <<job, ledger, called, swept, store>>
  BY FreeIsNoTask DEF JobsTypeOK, BookingFails
<1>2. PICK i \in Job : i = at[w].job
  BY <1>1 DEF Task
<1>3. /\ at[w].missing \subseteq Stage /\ at[w].stage \in Stage /\ Unbooked(at[w]) \subseteq Stage
  <2>1. at[w].missing \subseteq Stage /\ at[w].stage \in Stage
    BY <1>1 DEF Task
  <2>. QED BY <2>1 DEF Unbooked
<1>4. /\ unbooked' = [unbooked EXCEPT ![i] = @ \cup Unbooked(at[w])]
      /\ unbooked' \in [Job -> SUBSET Stage] /\ \A j \in Job : unbooked[j] \subseteq unbooked'[j]
      /\ Unbooked(at[w]) \subseteq unbooked'[i]
  <2>1. unbooked' = [unbooked EXCEPT ![i] = @ \cup Unbooked(at[w])]
    BY <1>2 DEF BookingFails
  <2>. QED BY <1>3, <2>1 DEF JobsTypeOK
<1>5. /\ at[w].step = "zero" => at[w].purpose = "zero"
      /\ at[w].step \in {"look", "book"} /\ at[w].purpose = "skip" => at[w].stage = "consolidator"
  BY DEF Fit
<1>6. Kept(w)
  BY <1>1 DEF Kept
<1>7. Owes(at[w]) => at[w].stage \in unbooked'[i]
  BY <1>4 DEF Owes, Unbooked
<1>8. ASSUME NEW y, Go(w, y), Follows(at[w], y), y.step \in {"zero", "finish"},
             y.step = "finish" => \A g \in Stage : Relies(at[w], g) \/ ledger[i][g] # Absent \/ g \in Unbooked(at[w])
      PROVE  Quiet(w)
  <2>1. at'[w] = y /\ y.job = i /\ at'[w].job = i
    BY <1>1, <1>2, <1>8, GoShape DEF Follows
  <2>2. y.step # "book" /\ ~ Owes(y)
    BY <1>8 DEF Owes
  <2>3. \A g \in Stage : Relies(y, g) => Relies(at[w], g) \/ Accounted(at[w].job, g)'
    <3>1. CASE y.step = "zero"
      BY <3>1 DEF Relies
    <3>2. CASE y.step = "finish"
      BY <1>1, <1>4, <1>8, <2>1, <3>2 DEF Accounted
    <3>. QED BY <1>8, <3>1, <3>2
  <2>4. Onward(w)
    BY <1>1, <1>4, <1>8, <2>3, GoesOnward
  <2>. QED BY <1>1, <1>2, <1>7, <2>1, <2>2, <2>4 DEF Quiet
<1>9. ASSUME at[w].purpose = "zero" /\ at[w].end # "discarded" PROVE Quiet(w)
  <2>1. PICK x : x = [at[w] EXCEPT !.missing = {}]
    OBVIOUS
  <2>2. /\ x \in Task /\ x.job = at[w].job /\ x.turn = at[w].turn /\ x.end = at[w].end
        /\ x.purpose = "zero" /\ x.missing = {}
    BY <1>1, <1>9, <2>1 DEF Task
  <2>3. PICK y : y = NextZero(x)
    OBVIOUS
  <2>4. Follows(x, y) /\ y.step = "finish"
    <3>1. y = [x EXCEPT !.step = "finish", !.stage = "extractor"]
      BY <2>2, <2>3 DEF NextZero
    <3>2. y.step = "finish"
      BY <2>2, <3>1 DEF Task
    <3>. QED BY <2>2, <2>3, <3>2, NextZeroShape
  <2>5. Follows(at[w], y)
    BY <2>2, <2>4 DEF Follows
  <2>6. Go(w, y)
    BY <1>9, <2>1, <2>3 DEF BookingFails
  <2>7. \A g \in Stage : Relies(at[w], g) \/ ledger[i][g] # Absent \/ g \in Unbooked(at[w])
    BY <1>1, <1>2, <1>9 DEF Relies, Unbooked
  <2>. QED BY <1>8, <2>4, <2>5, <2>6, <2>7
<1>10. ASSUME ~ (at[w].purpose = "zero" /\ at[w].end # "discarded") PROVE Quiet(w)
  <2>0. Go(w, Failing(at[w], at[w].purpose # "zero" /\ at[w].stage = "consolidator"))
    BY <1>10 DEF BookingFails
  <2>1. CASE at[w].purpose # "zero" /\ at[w].stage = "consolidator"
    <3>1. Failing(at[w], at[w].purpose # "zero" /\ at[w].stage = "consolidator") = Failing(at[w], TRUE)
      BY <2>1 DEF Failing, Ending
    <3>2. PICK y : y = Failing(at[w], TRUE)
      OBVIOUS
    <3>3. Go(w, y) /\ Follows(at[w], y) /\ y.step = "finish"
      BY <1>1, <2>0, <3>1, <3>2, EndsFollow
    <3>4. \A g \in Stage : Relies(at[w], g) \/ g \in Unbooked(at[w])
      BY <1>1, <1>5, <2>1 DEF Relies, Unbooked, Stage
    <3>. QED BY <1>8, <3>3, <3>4
  <2>2. CASE ~ (at[w].purpose # "zero" /\ at[w].stage = "consolidator")
    <3>1. Failing(at[w], at[w].purpose # "zero" /\ at[w].stage = "consolidator") = Failing(at[w], FALSE)
      BY <2>2 DEF Failing, Ending
    <3>2. PICK y : y = Failing(at[w], FALSE)
      OBVIOUS
    <3>3. Go(w, y) /\ Follows(at[w], y) /\ y.step = "zero"
      BY <1>1, <2>0, <3>1, <3>2, EndsFollow
    <3>. QED BY <1>8, <3>3
  <2>. QED BY <2>1, <2>2
<1>. QED BY <1>6, <1>9, <1>10

\* A verdict that fails within the try.
LEMMA VerdictFailsShape ==
  ASSUME JobsTypeOK, NEW w \in Worker, VerdictFails(w)
  PROVE  Quiet(w) /\ Kept(w)
<1>1. /\ at[w] \in Task /\ at[w].step = "finish" /\ store \subseteq Slug
      /\ UNCHANGED <<job, ledger, called, swept, unbooked, store>>
  BY FreeIsNoTask DEF JobsTypeOK, VerdictFails
<1>2. Go(w, Failing(at[w], TRUE)) \/ Go(w, Failing(at[w], FALSE))
  <2>1. Go(w, Failing(at[w], at[w].end = "succeeded"))
    BY DEF VerdictFails
  <2>2. CASE at[w].end = "succeeded"
    <3>1. Failing(at[w], at[w].end = "succeeded") = Failing(at[w], TRUE)
      BY <2>2 DEF Failing, Ending
    <3>. QED BY <2>1, <3>1
  <2>3. CASE at[w].end # "succeeded"
    <3>1. Failing(at[w], at[w].end = "succeeded") = Failing(at[w], FALSE)
      BY <2>3 DEF Failing, Ending
    <3>. QED BY <2>1, <3>1
  <2>. QED BY <2>2, <2>3
<1>3. PICK y : Go(w, y) /\ Follows(at[w], y) /\ y.step \in {"finish", "zero"}
  BY <1>1, <1>2, EndsFollow
<1>4. y.step # "book" /\ ~ Owes(y) /\ ~ Owes(at[w]) /\ \A g \in Stage : Relies(y, g) => Relies(at[w], g)
  BY <1>1, <1>3 DEF Owes, Relies
<1>5. Quiet(w)
  BY <1>1, <1>3, <1>4, GoesQuietly
<1>. QED BY <1>1, <1>5 DEF Kept

\* The verdict, or a crash: the worker is free, and a crash leaves the row alone.
LEMMA LeavingShape ==
  ASSUME JobsTypeOK, NEW w \in Worker, finish(w) \/ Crash(w)
  PROVE  /\ at[w] \in Task /\ at'[w] = Free /\ at' \in [Worker -> Task \cup {Free}]
         /\ \A v \in Worker : v # w => at'[v] = at[v]
         /\ UNCHANGED <<ledger, called, swept, unbooked, store, alive, space>>
         /\ job' = job \/ /\ at[w].step = "finish" /\ job[at[w].job].status = "running"
                          /\ job' = [job EXCEPT ![at[w].job].status = at[w].end]
         /\ finish(w) /\ job[at[w].job].status = "running" => job'[at[w].job].status # "running"
<1>1. at[w] \in Task
  BY FreeIsNoTask DEF JobsTypeOK, finish, Crash
<1>2. at'[w] = Free /\ at' \in [Worker -> Task \cup {Free}] /\ \A v \in Worker : v # w => at'[v] = at[v]
  BY DEF finish, Crash, Go, JobsTypeOK
<1>3. UNCHANGED <<ledger, called, swept, unbooked, store, alive, space>>
  BY DEF finish, Crash
<1>4. job' = job \/ /\ at[w].step = "finish" /\ job[at[w].job].status = "running"
                    /\ job' = [job EXCEPT ![at[w].job].status = at[w].end]
  BY DEF finish, Crash, _finish
<1>5. ASSUME finish(w), job[at[w].job].status = "running"
      PROVE  job'[at[w].job].status # "running"
  BY <1>1, <1>5 DEF finish, _finish, JobsTypeOK, Task, Settled
<1>. QED BY <1>1, <1>2, <1>3, <1>4, <1>5

\* Taking a job.
LEMMA ClaimShape ==
  ASSUME JobsTypeOK, NEW w \in Worker, NEW j \in Job, claim(w, j)
  PROVE  /\ at[w] = Free /\ at'[w] \in Task /\ at' \in [Worker -> Task \cup {Free}]
         /\ at'[w].job = j /\ at'[w].turn = job[j].attempts + 1 /\ at'[w].end = "succeeded"
         /\ at'[w].step = "guard"
         /\ \A v \in Worker : v # w => at'[v] = at[v]
         /\ UNCHANGED <<ledger, called, swept, unbooked, faults, store, alive, space>>
         /\ job[j].status = "queued"
         /\ job' = [job EXCEPT ![j] = [status |-> "running", attempts |-> @.attempts + 1]]
<1> DEFINE y == [step |-> "guard", job |-> j, turn |-> job[j].attempts + 1, snap |-> {}, todo |-> {},
                 stage |-> "extractor", purpose |-> "call", seen |-> 0, missing |-> {},
                 end |-> "succeeded"]
<1>1. y \in Task
  BY DEF Task, Stage, Settled, JobsTypeOK
<1>2. at' = [at EXCEPT ![w] = y]
  BY DEF claim
<1>3. /\ y.job = j /\ y.turn = job[j].attempts + 1 /\ y.end = "succeeded" /\ y.step = "guard"
  OBVIOUS
<1> HIDE DEF y
<1>4. at' \in [Worker -> Task \cup {Free}] /\ at'[w] = y /\ \A v \in Worker : v # w => at'[v] = at[v]
  BY <1>1, <1>2 DEF JobsTypeOK
<1>. QED BY <1>1, <1>3, <1>4 DEF claim

\* Steps of a worker other than the verdict and the crash, by what they do to the ledger.
Quietly(w) == \/ guard(w) \/ export(w) \/ _ensure_zero_usage(w) \/ write(w) \/ replace(w)
              \/ rollback(w) \/ CallFails(w) \/ BookingFails(w) \/ VerdictFails(w)
Calls(w)   == \E found \in SUBSET Slug : extract(w, found) \/ consolidate(w, found)
Books(w)   == \E failed \in BOOLEAN : record_usage(w, failed)
Works(w)   == Quietly(w) \/ Calls(w) \/ usage_for_run(w) \/ Books(w)

\* A step of a worker is one of these.
LEMMA StepCases ==
  ASSUME NEW w \in Worker, Step(w) \/ Fault(w)
  PROVE  Works(w) \/ finish(w) \/ Crash(w)
<1>1. Reply["extractor"] \subseteq SUBSET Slug /\ Reply["consolidator"] \subseteq SUBSET Slug
  BY JobsAssumption DEF Stage
<1>2. ASSUME Step(w) PROVE Works(w) \/ finish(w)
  BY <1>1, <1>2 DEF Step, Works, Quietly, Calls, Books
<1>3. ASSUME Fault(w) PROVE Works(w) \/ Crash(w)
  BY <1>3 DEF Fault, Works, Quietly
<1>. QED BY <1>2, <1>3

\* What works quietly is quiet.
LEMMA QuietlyShape ==
  ASSUME JobsTypeOK, RowsThere, NEW w \in Worker, Quietly(w)
  PROVE  Quiet(w) /\ Kept(w)
<1>1. CASE _ensure_zero_usage(w) \/ BookingFails(w)
  <2>1. at[w] \in Task
    BY <1>1, FreeIsNoTask DEF JobsTypeOK, _ensure_zero_usage, BookingFails
  <2>2. Fit(at[w])
    BY <2>1 DEF RowsThere
  <2>. QED BY <1>1, <2>2, ZeroShape, BookingFailsShape
<1>2. CASE ~ (_ensure_zero_usage(w) \/ BookingFails(w))
  BY <1>2, ReadingShape, StoreShape, VerdictFailsShape DEF Quietly
<1>. QED BY <1>1, <1>2

\* A worker that is at work has a fitting task.
LEMMA WorksTask ==
  ASSUME JobsTypeOK, RowsThere, NEW w \in Worker, usage_for_run(w) \/ Books(w)
  PROVE  Fit(at[w])
<1>1. at[w] \in Task
  BY FreeIsNoTask DEF JobsTypeOK, usage_for_run, Books, record_usage
<1>. QED BY <1>1 DEF RowsThere

\* A worker goes on, and nothing but the ledger, the calls and the store may change.
LEMMA WorksShape ==
  ASSUME JobsTypeOK, RowsThere, NEW w \in Worker, Works(w)
  PROVE  /\ Onward(w) /\ Kept(w) /\ UNCHANGED <<job, swept, alive, space>>
         /\ faults' \in 0..MaxFault
<1>1. Onward(w) /\ Kept(w) /\ UNCHANGED <<job, swept>>
  <2>1. CASE Quietly(w)
    BY <2>1, QuietlyShape DEF Quiet
  <2>2. CASE Calls(w)
    <3>1. PICK found \in SUBSET Slug : extract(w, found) \/ consolidate(w, found)
      BY <2>2 DEF Calls
    <3>2. Onward(w) /\ UNCHANGED <<job, swept, store>> /\ at[w].step \in {"extract", "merge"}
      BY <3>1, CallShape
    <3>. QED BY <3>2 DEF Kept, JobsTypeOK
  <2>3. CASE usage_for_run(w)
    <3>1. Onward(w) /\ UNCHANGED <<job, swept, store>> /\ at[w].step = "look"
      BY <2>3, WorksTask, LookShape
    <3>. QED BY <3>1 DEF Kept, JobsTypeOK
  <2>4. CASE Books(w)
    <3>1. PICK failed \in BOOLEAN : record_usage(w, failed)
      BY <2>4 DEF Books
    <3>2. Onward(w) /\ UNCHANGED <<job, swept, store>> /\ at[w].step = "book"
      BY <2>4, <3>1, WorksTask, BookShape
    <3>. QED BY <3>2 DEF Kept, JobsTypeOK
  <2>. QED BY <2>1, <2>2, <2>3, <2>4 DEF Works
<1>2. UNCHANGED <<alive, space>>
  BY DEF Works, Quietly, Calls, Books, guard, export, extract, consolidate, CallModel, usage_for_run,
         record_usage, _ensure_zero_usage, write, rollback, replace, CallFails, BookingFails, VerdictFails
<1>3. faults' \in 0..MaxFault
  <2>1. faults' = faults \/ (faults < MaxFault /\ faults' = faults + 1)
    BY DEF Works, Quietly, Calls, Books, guard, export, extract, consolidate, CallModel, usage_for_run,
           record_usage, _ensure_zero_usage, write, rollback, replace, CallFails, BookingFails, VerdictFails
  <2>2. faults \in 0..MaxFault /\ MaxFault \in Nat
    BY JobsAssumption DEF JobsTypeOK
  <2>. QED BY <2>1, <2>2
<1>. QED BY <1>1, <1>2, <1>3

\* Rows of the ledger and counts of calls, as a worker leaves them: a row stays.
LEMMA WorksLedger ==
  ASSUME JobsTypeOK, RowsThere, NEW w \in Worker, Works(w)
  PROVE  /\ ledger' \in [Job -> [Stage -> Nat \cup {Absent}]] /\ called' \in [Job -> [Stage -> Nat]]
         /\ \A j \in Job, g \in Stage : Accounted(j, g) => Accounted(j, g)'
<1>0. \A j \in Job : unbooked[j] \subseteq unbooked'[j]
  BY WorksShape DEF Onward
<1>1. CASE Quietly(w)
  <2>1. UNCHANGED <<ledger, called>>
    BY <1>1, QuietlyShape DEF Quiet
  <2>. QED BY <1>0, <2>1 DEF JobsTypeOK, Accounted
<1>2. CASE Calls(w)
  <2>0. PICK found \in SUBSET Slug : extract(w, found) \/ consolidate(w, found)
    BY <1>2 DEF Calls
  <2>1. at'[w].stage \in Stage /\ at[w].job \in Job
    BY <2>0, CallShape DEF Onward, Follows, Task
  <2>2. /\ called' = [called EXCEPT ![at[w].job][at'[w].stage] = @ + 1] /\ UNCHANGED ledger
    BY <2>0, CallShape
  <2>. QED BY <1>0, <2>1, <2>2 DEF JobsTypeOK, Accounted
<1>3. CASE usage_for_run(w)
  <2>1. UNCHANGED <<ledger, called>>
    BY <1>3, WorksTask, LookShape
  <2>. QED BY <1>0, <2>1 DEF JobsTypeOK, Accounted
<1>4. CASE Books(w)
  <2>0. PICK failed \in BOOLEAN : record_usage(w, failed)
    BY <1>4 DEF Books
  <2>1. at[w].stage \in Stage /\ at[w].job \in Job /\ at[w].seen \in Nat
    BY <1>4, <2>0, WorksTask, BookShape DEF Onward, Task
  <2>2. /\ UNCHANGED called
        /\ ledger' = [ledger EXCEPT ![at[w].job][at[w].stage] = at[w].seen + One(at[w].purpose = "call")]
    BY <1>4, <2>0, WorksTask, BookShape
  <2>3. at[w].seen + One(at[w].purpose = "call") \in Nat
    BY <2>1 DEF One
  <2>4. PICK n \in Nat, i \in Job, h \in Stage : ledger' = [ledger EXCEPT ![i][h] = n]
    BY <2>1, <2>2, <2>3
  <2>5. ledger' \in [Job -> [Stage -> Nat \cup {Absent}]]
    BY <2>4 DEF JobsTypeOK
  <2>6. \A j \in Job, g \in Stage : ledger'[j][g] \in {ledger[j][g], n} /\ n # Absent
    BY <2>4 DEF JobsTypeOK, Absent
  <2>. QED BY <1>0, <2>2, <2>5, <2>6 DEF JobsTypeOK, Accounted
<1>. QED BY <1>1, <1>2, <1>3, <1>4 DEF Works

--------------------------------------------------------------------------------
(* Kinds, and the rows of the ledger. *)

Basic == JobsTypeOK /\ WellMeant /\ RowsThere /\ SettledIsAccounted

\* They hold at the start.
LEMMA BasicInitially == JobsInit => Basic
<1> SUFFICES ASSUME JobsInit PROVE Basic
  OBVIOUS
<1>1. JobsTypeOK
  BY JobsAssumption DEF JobsInit, JobsTypeOK, JobStatus, Settled, Stage, Free, Absent
<1>2. WellMeant /\ RowsThere
  BY FreeIsNoTask DEF JobsInit, WellMeant, RowsThere
<1>3. SettledIsAccounted
  BY DEF JobsInit, SettledIsAccounted, Settled
<1>. QED BY <1>1, <1>2, <1>3 DEF Basic

\* Rows of the ledger that stay are enough for who stays where it is, and for who leaves.
LEMMA RowsStayThere ==
  ASSUME JobsTypeOK, RowsThere, NEW v \in Worker, at'[v] = at[v], at'[v] \in Task,
         \A j \in Job, g \in Stage : Accounted(j, g) => Accounted(j, g)'
  PROVE  Fit(at'[v]) /\ \A g \in Stage : Relies(at'[v], g) => Accounted(at[v].job, g)'
<1>1. at[v].job \in Job
  BY DEF Task
<1>2. Fit(at[v]) /\ \A g \in Stage : Relies(at[v], g) => Accounted(at[v].job, g)
  BY DEF RowsThere
<1>3. PICK x : x = at[v] /\ x = at'[v]
  OBVIOUS
<1>4. \A g \in Stage : Relies(x, g) => Accounted(x.job, g)'
  BY <1>1, <1>2, <1>3
<1>. QED BY <1>2, <1>3, <1>4

\* The steps of the outbox and of the user keep them.
LEMMA OutboxKeepsBasic ==
  ASSUME Basic,
         \/ \E j \in Job : enqueue(j) \/ requeue_stale(j)
         \/ \E s \in Deletable : delete_memory(s)
         \/ delete_thread \/ destroy
  PROVE  Basic'
<1> USE DEF Basic
<1>1. UNCHANGED <<at, ledger, called, unbooked, faults>>
  BY DEF enqueue, requeue_stale, delete_memory, delete_thread, destroy
<1>2. WellMeant' /\ RowsThere'
  BY <1>1 DEF WellMeant, RowsThere, Accounted
<1>3. /\ job' \in [Job -> [status : JobStatus, attempts : Nat]] /\ swept' \in [Job -> Nat]
      /\ \A j \in Job : job'[j].status \in Settled => job[j].status \in Settled
  <2>1. ASSUME NEW j \in Job, enqueue(j) \/ requeue_stale(j)
        PROVE  job' = [job EXCEPT ![j].status = "queued"] /\ swept' \in [Job -> Nat]
    <3>1. job' = [job EXCEPT ![j].status = "queued"]
      BY <2>1 DEF enqueue, requeue_stale
    <3>2. swept' = swept \/ swept' = [swept EXCEPT ![j] = @ + 1]
      BY <2>1 DEF enqueue, requeue_stale
    <3>. QED BY <3>1, <3>2 DEF JobsTypeOK
  <2>2. ASSUME NEW j \in Job, job' = [job EXCEPT ![j].status = "queued"]
        PROVE  /\ job' \in [Job -> [status : JobStatus, attempts : Nat]]
               /\ \A k \in Job : job'[k].status \in Settled => job[k].status \in Settled
    BY <2>2 DEF JobsTypeOK, JobStatus, Settled
  <2>3. CASE \/ \E s \in Deletable : delete_memory(s)
             \/ delete_thread \/ destroy
    BY <2>3 DEF delete_memory, delete_thread, destroy, JobsTypeOK
  <2>. QED BY <2>1, <2>2, <2>3
<1>4. store' \subseteq Slug
  BY DEF enqueue, requeue_stale, delete_memory, delete_thread, destroy, JobsTypeOK
<1>5. alive' \in BOOLEAN /\ space' \in BOOLEAN
  BY Zenon DEF enqueue, requeue_stale, delete_memory, delete_thread, destroy, JobsTypeOK
<1>6. SettledIsAccounted'
  BY <1>1, <1>3 DEF SettledIsAccounted
<1>. QED BY <1>1, <1>2, <1>3, <1>4, <1>5, <1>6 DEF JobsTypeOK

\* Taking a job keeps them.
LEMMA ClaimKeepsBasic ==
  ASSUME Basic, NEW w \in Worker, NEW j \in Job, claim(w, j)
  PROVE  Basic'
<1>1. JobsTypeOK /\ RowsThere
  BY DEF Basic
<1>s. /\ job[j].status = "queued"
      /\ job' = [job EXCEPT ![j] = [status |-> "running", attempts |-> job[j].attempts + 1]]
      /\ UNCHANGED <<ledger, called, swept, unbooked, faults, store, alive, space>>
  BY <1>1, ClaimShape
<1>j. job' \in [Job -> [status : JobStatus, attempts : Nat]]
  BY <1>1, <1>s DEF JobsTypeOK, JobStatus
<1>b. alive' \in BOOLEAN /\ space' \in BOOLEAN
  BY <1>1, <1>s, Zenon DEF JobsTypeOK
<1>2. JobsTypeOK'
  BY <1>1, <1>s, <1>j, <1>b, ClaimShape DEF JobsTypeOK
<1>3. WellMeant'
  BY <1>1, ClaimShape DEF Basic, WellMeant
<1>5. RowsThere'
  <2>1. ASSUME NEW v \in Worker, v # w, at'[v] \in Task
        PROVE  Fit(at'[v]) /\ \A g \in Stage : Relies(at'[v], g) => Accounted(at[v].job, g)'
    <3>1. at'[v] = at[v]
      BY <1>1, <2>1, ClaimShape
    <3>2. \A i \in Job, g \in Stage : Accounted(i, g) => Accounted(i, g)'
      BY <1>s DEF Accounted
    <3>. QED BY <1>1, <2>1, <3>1, <3>2, RowsStayThere
  <2>2. Fit(at'[w]) /\ \A g \in Stage : ~ Relies(at'[w], g)
    BY <1>1, ClaimShape DEF Fit, Relies
  <2>. QED BY <2>1, <2>2 DEF RowsThere
<1>4. SettledIsAccounted'
  BY <1>1, <1>s DEF Basic, SettledIsAccounted, JobsTypeOK, Settled
<1>. QED BY <1>2, <1>3, <1>4, <1>5 DEF Basic

\* Leaving a job keeps them.
LEMMA LeavingKeepsBasic ==
  ASSUME Basic, NEW w \in Worker, finish(w) \/ Crash(w)
  PROVE  Basic'
<1>1. JobsTypeOK /\ RowsThere
  BY DEF Basic
<1>2. at[w].job \in Job /\ at[w].end \in Settled \cup {"queued"}
  BY <1>1, LeavingShape DEF Task
<1>c. faults' \in 0..MaxFault
  <2>1. CASE finish(w)
    BY <1>1, <2>1 DEF finish, JobsTypeOK
  <2>2. CASE Crash(w)
    <3>1. faults < MaxFault /\ faults' = faults + 1
      BY <2>2 DEF Crash
    <3>. QED BY <1>1, <3>1, JobsAssumption DEF JobsTypeOK
  <2>. QED BY <2>1, <2>2
<1>s. /\ at[w] \in Task /\ at'[w] = Free /\ at' \in [Worker -> Task \cup {Free}]
      /\ \A v \in Worker : v # w => at'[v] = at[v]
      /\ UNCHANGED <<ledger, called, swept, unbooked, store, alive, space>>
      /\ job' = job \/ /\ at[w].step = "finish" /\ job[at[w].job].status = "running"
                       /\ job' = [job EXCEPT ![at[w].job].status = at[w].end]
  BY <1>1, LeavingShape
<1>j. job' \in [Job -> [status : JobStatus, attempts : Nat]]
  <2>1. job \in [Job -> [status : JobStatus, attempts : Nat]] /\ at[w].end \in JobStatus
    BY <1>1, <1>2 DEF JobsTypeOK, JobStatus
  <2>2. job' = job \/ job' = [job EXCEPT ![at[w].job].status = at[w].end]
    BY <1>s
  <2>. HIDE DEF JobStatus
  <2>. QED BY <1>2, <2>1, <2>2
<1>b. alive' \in BOOLEAN /\ space' \in BOOLEAN
  BY <1>1, <1>s, Zenon DEF JobsTypeOK
<1>3. JobsTypeOK'
  BY <1>1, <1>c, <1>s, <1>j, <1>b DEF JobsTypeOK
<1>4. WellMeant'
  BY <1>s, FreeIsNoTask DEF Basic, WellMeant
<1>7. RowsThere'
  <2>1. ASSUME NEW v \in Worker, at'[v] \in Task
        PROVE  at'[v] = at[v] /\ Fit(at'[v]) /\ \A g \in Stage : Relies(at'[v], g) => Accounted(at[v].job, g)'
    <3>1. at'[v] = at[v]
      BY <1>s, <2>1, FreeIsNoTask
    <3>2. \A i \in Job, g \in Stage : Accounted(i, g) => Accounted(i, g)'
      BY <1>s DEF Accounted
    <3>. QED BY <1>1, <2>1, <3>1, <3>2, RowsStayThere
  <2>. QED BY <2>1 DEF RowsThere
<1>5. SettledIsAccounted'
  <2>1. CASE job' = job
    BY <1>s, <2>1 DEF Basic, SettledIsAccounted
  <2>2. CASE at[w].step = "finish" /\ job' = [job EXCEPT ![at[w].job].status = at[w].end]
    <3>1. \A g \in Stage : Accounted(at[w].job, g)
      BY <1>1, <1>s, <2>2 DEF RowsThere, Relies
    <3>2. \A j \in Job : j # at[w].job => job'[j] = job[j]
      BY <1>1, <2>2 DEF JobsTypeOK
    <3>. QED BY <1>s, <3>1, <3>2 DEF Basic, SettledIsAccounted, Accounted
  <2>. QED BY <1>s, <2>1, <2>2
<1>. QED BY <1>3, <1>4, <1>5, <1>7 DEF Basic

\* Working keeps them.
LEMMA WorksKeepsBasic ==
  ASSUME Basic, NEW w \in Worker, Works(w)
  PROVE  Basic'
<1>1. JobsTypeOK /\ RowsThere
  BY DEF Basic
<1>2. Onward(w) /\ Kept(w) /\ UNCHANGED <<job, swept, alive, space>> /\ faults' \in 0..MaxFault
  BY <1>1, WorksShape
<1>r. \A j \in Job, g \in Stage : Accounted(j, g) => Accounted(j, g)'
  BY <1>1, WorksLedger
<1>3. JobsTypeOK'
  BY <1>1, <1>2, WorksLedger DEF JobsTypeOK, Onward, Kept
<1>4. WellMeant'
  BY <1>2 DEF Basic, WellMeant, Onward, Follows
<1>5. SettledIsAccounted'
  BY <1>2, <1>r DEF Basic, SettledIsAccounted, Accounted
<1>6. RowsThere'
  <2>1. ASSUME NEW v \in Worker, v # w, at'[v] \in Task
        PROVE  at'[v] = at[v] /\ Fit(at'[v]) /\ \A g \in Stage : Relies(at'[v], g) => Accounted(at[v].job, g)'
    <3>1. at'[v] = at[v]
      BY <1>2, <2>1 DEF Onward
    <3>. QED BY <1>1, <1>r, <2>1, <3>1, RowsStayThere
  <2>2. at[w] \in Task /\ at[w].job \in Job /\ at'[w].job = at[w].job /\ Fit(at'[w])
    BY <1>2 DEF Onward, Follows, Task
  <2>3. \A g \in Stage : Relies(at[w], g) => Accounted(at[w].job, g)
    BY <1>1, <2>2 DEF RowsThere
  <2>4. PICK i \in Job : i = at[w].job /\ i = at'[w].job
    BY <2>2
  <2>5. \A g \in Stage : Relies(at'[w], g) => Relies(at[w], g) \/ Accounted(i, g)'
    BY <1>2, <2>4 DEF Onward
  <2>6. \A g \in Stage : Relies(at'[w], g) => Accounted(i, g)'
    BY <1>r, <2>3, <2>4, <2>5
  <2>7. \A g \in Stage : Relies(at'[w], g) => Accounted(at[w].job, g)'
    BY <2>4, <2>6
  <2>. QED BY <2>1, <2>2, <2>7 DEF RowsThere
<1>. QED BY <1>3, <1>4, <1>5, <1>6 DEF Basic

\* Every step keeps them.
LEMMA StepBasic == Basic /\ [JobsNext]_jobVars => Basic'
<1> SUFFICES ASSUME Basic, [JobsNext]_jobVars PROVE Basic'
  OBVIOUS
<1>1. CASE UNCHANGED jobVars
  BY <1>1 DEF jobVars, Basic, JobsTypeOK, WellMeant, RowsThere, Accounted, SettledIsAccounted
<1>2. ASSUME NEW w \in Worker, Step(w) \/ Fault(w) PROVE Basic'
  BY <1>2, StepCases, WorksKeepsBasic, LeavingKeepsBasic
<1>. QED BY <1>1, <1>2, ClaimKeepsBasic, OutboxKeepsBasic DEF JobsNext

--------------------------------------------------------------------------------
(* Counting workers. *)

\* Sets of workers are finite.
LEMMA WorkersFinite ==
  ASSUME NEW S \in SUBSET Worker
  PROVE  IsFiniteSet(S) /\ Cardinality(S) \in Nat
BY JobsAssumption, FS_Subset, FS_CardinalityType

\* A smaller set of workers has no more members.
LEMMA FewerWorkers ==
  ASSUME NEW S \in SUBSET Worker, NEW T \in SUBSET S
  PROVE  Cardinality(T) <= Cardinality(S)
BY WorkersFinite, FS_Subset

\* One worker comes or goes.
LEMMA OneWorker ==
  ASSUME NEW S \in SUBSET Worker, NEW w \in Worker
  PROVE  /\ w \notin S => Cardinality(S \cup {w}) = Cardinality(S) + 1
         /\ w \in S => Cardinality(S \ {w}) = Cardinality(S) - 1
BY WorkersFinite, FS_AddElement, FS_RemoveElement

\* A set with at most one member has no two, and one with none is empty.
LEMMA AtMostOne ==
  ASSUME NEW S \in SUBSET Worker, NEW w \in S
  PROVE  Cardinality(S) >= 1 /\ (Cardinality(S) <= 1 => \A v \in S : v = w)
<1>1. Cardinality(S \ {w}) = Cardinality(S) - 1 /\ Cardinality(S \ {w}) \in Nat /\ Cardinality(S) \in Nat
  BY OneWorker, WorkersFinite
<1>2. IsFiniteSet(S \ {w})
  BY WorkersFinite
<1>3. ASSUME Cardinality(S) <= 1 PROVE S \ {w} = {}
  BY <1>1, <1>2, <1>3, FS_EmptySet
<1>4. QED
  BY <1>1, <1>3

\* Who goes on with a job is counted as before.
LEMMA OnwardCounts ==
  ASSUME NEW w \in Worker, Onward(w), NEW j \in Job
  PROVE  Holders(j)' = Holders(j) /\ Hopeful(j)' = Hopeful(j)
BY FreeIsNoTask DEF Onward, Follows, Holders, Hopeful, Holds

\* Who takes a job is counted with it.
LEMMA ClaimCounts ==
  ASSUME JobsTypeOK, NEW w \in Worker, NEW j \in Job, claim(w, j), NEW k \in Job
  PROVE  /\ w \notin Holders(j) /\ Holders(j)' = Holders(j) \cup {w}
         /\ k # j => Holders(k)' = Holders(k) /\ Hopeful(k)' = Hopeful(k)
         /\ job[j].attempts + 1 >= MaxAttempt => Hopeful(j)' = Hopeful(j)
<1>1. /\ at[w] = Free /\ at'[w] # Free
      /\ at'[w].job = j /\ at'[w].turn = job[j].attempts + 1
      /\ \A v \in Worker : v # w => at'[v] = at[v]
  BY ClaimShape, FreeIsNoTask
<1>2. w \notin Holders(j) /\ Holders(j)' = Holders(j) \cup {w}
  BY <1>1 DEF Holders, Holds
<1>3. k # j => Holders(k)' = Holders(k) /\ Hopeful(k)' = Hopeful(k)
  BY <1>1 DEF Holders, Hopeful, Holds
<1>4. job[j].attempts + 1 >= MaxAttempt => Hopeful(j)' = Hopeful(j)
  <2>1. job[j].attempts + 1 >= MaxAttempt => ~ (at'[w].turn < MaxAttempt)
    BY <1>1, JobsAssumption DEF JobsTypeOK
  <2>2. QED
    BY <1>1, <2>1 DEF Hopeful, Holds
<1>5. QED
  BY <1>2, <1>3, <1>4

\* Who leaves a job is no longer counted.
LEMMA LeavingCounts ==
  ASSUME JobsTypeOK, NEW w \in Worker, finish(w) \/ Crash(w), NEW j \in Job
  PROVE  /\ Holders(j)' = Holders(j) \ {w} /\ Hopeful(j)' = Hopeful(j) \ {w}
         /\ w \in Holders(j) <=> at[w].job = j
         /\ w \in Hopeful(j) <=> at[w].job = j /\ at[w].turn < MaxAttempt
<1>1. at[w] \in Task /\ at[w] # Free /\ at'[w] = Free /\ \A v \in Worker : v # w => at'[v] = at[v]
  BY LeavingShape, FreeIsNoTask
<1>2. QED
  BY <1>1 DEF Holders, Hopeful, Holds

--------------------------------------------------------------------------------
(* Attempts and holders. *)

Limits == HoldersSwept /\ ClaimsPaid

\* Nobody holds a job at the start.
LEMMA LimitsInitially == JobsInit => Limits
<1> SUFFICES ASSUME JobsInit PROVE Limits
  OBVIOUS
<1>1. \A j \in Job : Holders(j) = {} /\ Hopeful(j) = {} /\ job[j].status = "none"
                 /\ job[j].attempts = 0 /\ swept[j] = 0
  BY DEF JobsInit, Holders, Hopeful, Holds
<1>2. Cardinality({}) = 0
  BY FS_EmptySet
<1>4. MaxAttempt \in Nat \ {0}
  BY JobsAssumption
<1>5. ASSUME NEW j \in Job
      PROVE  Cardinality(Holders(j)) = 0 /\ One(job[j].status = "running") = 0
  BY <1>1, <1>2 DEF One
<1>6. HoldersSwept
  BY <1>1, <1>5 DEF HoldersSwept
<1>7. ClaimsPaid
  BY <1>1, <1>4 DEF ClaimsPaid
<1>3. QED
  BY <1>6, <1>7 DEF Limits

\* Working and the user leave attempts and holders alone.
LEMMA OthersKeepLimits ==
  ASSUME JobsTypeOK, Limits, UNCHANGED <<job, swept>>,
         \A j \in Job : Holders(j)' = Holders(j) /\ Hopeful(j)' = Hopeful(j)
  PROVE  Limits'
BY DEF Limits, HoldersSwept, ClaimsPaid, One

\* Putting a job into the queue, or back, keeps the limits.
LEMMA QueueKeepsLimits ==
  ASSUME JobsTypeOK, Limits, NEW j \in Job, enqueue(j) \/ requeue_stale(j)
  PROVE  Limits'
<1>0. \A k \in Job : Holders(k)' = Holders(k) /\ Hopeful(k)' = Hopeful(k)
  BY DEF enqueue, requeue_stale, Holders, Hopeful, Holds
<1>n. \A k \in Job : /\ Cardinality(Holders(k)) \in Nat /\ Cardinality(Hopeful(k)) \in Nat
                     /\ swept[k] \in Nat /\ job[k].attempts \in Nat
  BY WorkersFinite DEF JobsTypeOK, Holders, Hopeful
<1>1. /\ job' = [job EXCEPT ![j].status = "queued"]
      /\ \/ job[j].status = "none" /\ swept' = swept
         \/ job[j].status = "running" /\ swept' = [swept EXCEPT ![j] = @ + 1]
  BY DEF enqueue, requeue_stale
<1>2. ASSUME NEW k \in Job
      PROVE  /\ job'[k].attempts = job[k].attempts /\ (k # j => job'[k] = job[k] /\ swept'[k] = swept[k])
             /\ k = j => job'[k].status = "queued"
             /\ k = j => \/ job[j].status = "none" /\ swept'[k] = swept[k]
                         \/ job[j].status = "running" /\ swept'[k] = swept[k] + 1
  BY <1>1 DEF JobsTypeOK
<1>3. HoldersSwept'
  BY <1>0, <1>n, <1>2 DEF Limits, HoldersSwept, One
<1>4. ClaimsPaid'
  BY <1>0, <1>n, <1>2, JobsAssumption DEF Limits, ClaimsPaid, One
<1>5. QED
  BY <1>3, <1>4 DEF Limits

\* Taking a job keeps them: beyond the limit a sweep has paid.
LEMMA ClaimKeepsLimits ==
  ASSUME JobsTypeOK, Limits, NEW w \in Worker, NEW j \in Job, claim(w, j)
  PROVE  Limits'
<1>n. \A k \in Job : /\ Cardinality(Holders(k)) \in Nat /\ Cardinality(Hopeful(k)) \in Nat
                     /\ swept[k] \in Nat /\ job[k].attempts \in Nat
                     /\ Holders(k) \subseteq Worker
                     /\ Cardinality(Hopeful(k)) <= Cardinality(Holders(k))
  BY WorkersFinite, FewerWorkers DEF JobsTypeOK, Holders, Hopeful
<1>s. /\ job[j].status = "queued" /\ swept' = swept
      /\ job' = [job EXCEPT ![j] = [status |-> "running", attempts |-> job[j].attempts + 1]]
  BY ClaimShape
<1>j. /\ job'[j].status = "running" /\ job'[j].attempts = job[j].attempts + 1
      /\ \A k \in Job : k # j => job'[k] = job[k]
  BY <1>s DEF JobsTypeOK
<1>c. Cardinality(Holders(j)') = Cardinality(Holders(j)) + 1
  BY <1>n, ClaimCounts, OneWorker
<1>d. \A k \in Job : k # j => Holders(k)' = Holders(k) /\ Hopeful(k)' = Hopeful(k)
  BY ClaimCounts
<1>1. HoldersSwept'
  BY <1>n, <1>s, <1>j, <1>c, <1>d DEF Limits, HoldersSwept, One
<1>2. ASSUME job[j].attempts + 1 >= MaxAttempt
      PROVE  job[j].attempts + 1 + Cardinality(Hopeful(j)') <= MaxAttempt + swept[j]
  <2>1. Hopeful(j)' = Hopeful(j)
    BY <1>2, ClaimCounts
  <2>2. Cardinality(Hopeful(j)) <= swept[j]
    BY <1>n, <1>s DEF Limits, HoldersSwept, One
  <2>3. job[j].attempts >= MaxAttempt =>
          job[j].attempts + 1 + Cardinality(Hopeful(j)) <= MaxAttempt + swept[j]
    BY <1>s DEF Limits, ClaimsPaid, One
  <2>4. QED
    BY <1>2, <1>n, <2>1, <2>2, <2>3, JobsAssumption
<1>3. ClaimsPaid'
  <2>1. ASSUME NEW k \in Job, k # j
        PROVE  /\ job'[k].status = "none" => job'[k].attempts = 0
               /\ job'[k].attempts >= MaxAttempt =>
                    job'[k].attempts + One(job'[k].status = "queued") + Cardinality(Hopeful(k)')
                      <= MaxAttempt + swept'[k]
    BY <1>s, <1>j, <1>d, <2>1 DEF Limits, ClaimsPaid, One
  <2>2. /\ job'[j].status # "none"
        /\ job'[j].attempts >= MaxAttempt =>
             job'[j].attempts + One(job'[j].status = "queued") + Cardinality(Hopeful(j)')
               <= MaxAttempt + swept'[j]
    <3>1. Cardinality(Hopeful(j)') \in Nat
      BY WorkersFinite DEF Hopeful
    <3>2. QED
      BY <1>n, <1>s, <1>j, <1>2, <3>1 DEF One
  <2>3. QED
    BY <2>1, <2>2 DEF ClaimsPaid
<1>4. QED
  BY <1>1, <1>3 DEF Limits

\* Leaving a job keeps them: who puts it back was one of the hopeful.
LEMMA LeavingKeepsLimits ==
  ASSUME JobsTypeOK, WellMeant, Limits, NEW w \in Worker, finish(w) \/ Crash(w)
  PROVE  Limits'
<1>i. PICK j \in Job : j = at[w].job
  BY LeavingShape DEF Task
<1>s. /\ at[w] \in Task /\ swept' = swept
      /\ job' = job \/ /\ job[j].status = "running"
                       /\ job' = [job EXCEPT ![j].status = at[w].end]
      /\ at[w].end \in Settled \cup {"queued"}
  BY <1>i, LeavingShape DEF Task
<1>t. at[w].end = "queued" => at[w].turn < MaxAttempt
  BY <1>s DEF WellMeant
<1>n. \A k \in Job : /\ Cardinality(Holders(k)) \in Nat /\ Cardinality(Hopeful(k)) \in Nat
                     /\ swept[k] \in Nat /\ job[k].attempts \in Nat
                     /\ Holders(k) \subseteq Worker /\ Hopeful(k) \subseteq Worker
                     /\ Cardinality(Holders(k)') \in Nat /\ Cardinality(Hopeful(k)') \in Nat
  BY WorkersFinite DEF JobsTypeOK, Holders, Hopeful
<1>j. /\ \A k \in Job : job'[k].attempts = job[k].attempts /\ (k # j => job'[k] = job[k])
      /\ job'[j].status = job[j].status \/ (job[j].status = "running" /\ job'[j].status = at[w].end)
  <2>1. CASE job' = job
    BY <2>1
  <2>2. CASE job[j].status = "running" /\ job' = [job EXCEPT ![j].status = at[w].end]
    BY <1>s, <2>2 DEF JobsTypeOK
  <2>3. QED
    BY <1>s, <2>1, <2>2
<1>1. \A k \in Job : k # j => Holders(k)' = Holders(k) /\ Hopeful(k)' = Hopeful(k)
  <2>1. ASSUME NEW k \in Job, k # j
        PROVE  w \notin Holders(k) /\ w \notin Hopeful(k)
               /\ Holders(k)' = Holders(k) \ {w} /\ Hopeful(k)' = Hopeful(k) \ {w}
    BY <1>i, <2>1, LeavingCounts
  <2>2. QED
    BY <2>1
<1>2. Cardinality(Holders(j)') = Cardinality(Holders(j)) - 1
  BY <1>i, <1>s, <1>n, LeavingCounts, OneWorker
<1>3. /\ Cardinality(Hopeful(j)') <= Cardinality(Hopeful(j))
      /\ at[w].turn < MaxAttempt => Cardinality(Hopeful(j)') = Cardinality(Hopeful(j)) - 1
  <2>1. /\ Hopeful(j)' = Hopeful(j) \ {w}
        /\ w \in Hopeful(j) <=> at[w].turn < MaxAttempt
    BY <1>i, <1>s, LeavingCounts
  <2>2. Cardinality(Hopeful(j) \ {w}) <= Cardinality(Hopeful(j))
    BY <1>s, <1>n, FewerWorkers
  <2>3. QED
    BY <1>s, <1>n, <2>1, <2>2, OneWorker
<1>4. HoldersSwept'
  BY <1>n, <1>s, <1>j, <1>1, <1>2 DEF Limits, HoldersSwept, One, Settled
<1>5. ClaimsPaid'
  <2>1. ASSUME NEW k \in Job, k # j
        PROVE  /\ job'[k].status = "none" => job'[k].attempts = 0
               /\ job'[k].attempts >= MaxAttempt =>
                    job'[k].attempts + One(job'[k].status = "queued") + Cardinality(Hopeful(k)')
                      <= MaxAttempt + swept'[k]
    BY <1>s, <1>j, <1>1, <2>1 DEF Limits, ClaimsPaid, One
  <2>2. /\ job'[j].status = "none" => job'[j].attempts = 0
        /\ job'[j].attempts >= MaxAttempt =>
             job'[j].attempts + One(job'[j].status = "queued") + Cardinality(Hopeful(j)')
               <= MaxAttempt + swept'[j]
    BY <1>n, <1>s, <1>t, <1>j, <1>3, JobsAssumption DEF Limits, ClaimsPaid, One, Settled
  <2>3. QED
    BY <2>1, <2>2 DEF ClaimsPaid
<1>6. QED
  BY <1>4, <1>5 DEF Limits

\* Every step keeps the limits.
LEMMA StepLimits == Basic /\ Limits /\ [JobsNext]_jobVars => Limits'
<1> SUFFICES ASSUME Basic, Limits, [JobsNext]_jobVars PROVE Limits'
  OBVIOUS
<1>0. JobsTypeOK /\ WellMeant /\ RowsThere
  BY DEF Basic
<1>1. ASSUME UNCHANGED <<job, swept, at>> PROVE Limits'
  BY <1>0, <1>1, OthersKeepLimits DEF Holders, Hopeful, Holds
<1>2. CASE UNCHANGED jobVars \/ (\E s \in Deletable : delete_memory(s)) \/ delete_thread \/ destroy
  BY <1>1, <1>2 DEF jobVars, delete_memory, delete_thread, destroy
<1>3. ASSUME NEW w \in Worker, Works(w) PROVE Limits'
  BY <1>0, <1>3, WorksShape, OnwardCounts, OthersKeepLimits
<1>4. ASSUME NEW w \in Worker, Step(w) \/ Fault(w) PROVE Limits'
  BY <1>0, <1>3, <1>4, StepCases, LeavingKeepsLimits
<1>5. QED
  BY <1>0, <1>2, <1>4, ClaimKeepsLimits, QueueKeepsLimits DEF JobsNext

--------------------------------------------------------------------------------
(* The ledger. *)

\* The ledger is right at the start.
LEMMA LedgersInitially == JobsInit => Ledgers
<1> SUFFICES ASSUME JobsInit, NEW j \in Job, NEW g \in Stage PROVE NotTwice(j, g) /\ NoneLost(j, g)
  BY DEF Ledgers
<1>1. Due(j, g) = {} /\ Bookers(j, g) = {} /\ Entry(j, g) = 0 /\ called[j][g] = 0
  BY DEF JobsInit, Due, Bookers, Holds, Entry
<1>2. Cardinality({}) = 0
  BY FS_EmptySet
<1>. QED BY <1>1, <1>2 DEF NotTwice, NoneLost

\* The counts are numbers.
LEMMA LedgerNumbers ==
  ASSUME JobsTypeOK, NEW j \in Job, NEW g \in Stage
  PROVE  /\ Entry(j, g) \in Nat /\ called[j][g] \in Nat /\ swept[j] \in Nat
         /\ Due(j, g) \subseteq Worker /\ Bookers(j, g) \subseteq Worker
         /\ Cardinality(Due(j, g)) \in Nat
         /\ \A w \in Due(j, g) \cup Bookers(j, g) : at[w].job = j /\ w \in Holders(j)
         /\ \A w \in Bookers(j, g) : at[w].seen \in Nat
<1>1. Due(j, g) \subseteq Worker /\ Bookers(j, g) \subseteq Worker
  BY DEF Due, Bookers
<1>2. Entry(j, g) \in Nat /\ called[j][g] \in Nat /\ swept[j] \in Nat
  BY DEF JobsTypeOK, Entry
<1>3. \A w \in Due(j, g) \cup Bookers(j, g) : at[w] \in Task /\ at[w].job = j /\ w \in Holders(j)
  BY FreeIsNoTask DEF JobsTypeOK, Due, Bookers, Holds, Holders
<1>4. \A w \in Bookers(j, g) : at[w].seen \in Nat
  BY <1>3 DEF Task
<1>. QED BY <1>1, <1>2, <1>3, <1>4, WorkersFinite

\* A worker, and whom it counts among.
LEMMA DueCounts ==
  ASSUME NEW w \in Worker, \A v \in Worker : v # w => at'[v] = at[v], NEW j \in Job, NEW g \in Stage
  PROVE  /\ w \in Due(j, g) <=> Holds(w, j) /\ at[w].stage = g /\ Owes(at[w])
         /\ w \in Due(j, g)' <=> (Holds(w, j)' /\ at'[w].stage = g /\ Owes(at'[w]))
         /\ w \in Bookers(j, g) <=> Holds(w, j) /\ at[w].stage = g /\ at[w].step = "book"
         /\ w \in Bookers(j, g)' <=> (Holds(w, j)' /\ at'[w].stage = g /\ at'[w].step = "book")
         /\ \A v \in Worker : v # w => /\ v \in Due(j, g)' <=> v \in Due(j, g)
                                       /\ v \in Bookers(j, g)' <=> v \in Bookers(j, g)
         /\ Due(j, g)' \subseteq Worker /\ Bookers(j, g)' \subseteq Worker
BY DEF Due, Bookers, Holds

\* A step that neither calls nor books; whoever stops to owe a call did not do so unnoticed.
LEMMA FewerKeepLedgers ==
  ASSUME JobsTypeOK, Ledgers, UNCHANGED called, \A j \in Job : unbooked[j] \subseteq unbooked'[j],
         \A j \in Job, g \in Stage :
            /\ Entry(j, g)' = Entry(j, g)
            /\ Due(j, g)' \subseteq Due(j, g) /\ Bookers(j, g)' \subseteq Bookers(j, g),
         \A w \in Worker : at'[w].step = "book" => at'[w] = at[w],
         \A j \in Job : swept'[j] = 0 => swept[j] = 0,
         \A j \in Job, g \in Stage :
            swept'[j] = 0 /\ g \notin unbooked'[j] /\ (Holders(j)' # {} \/ job'[j].status # "running") =>
                Due(j, g)' = Due(j, g) /\ (Holders(j) # {} \/ job[j].status # "running")
  PROVE  Ledgers'
<1> SUFFICES ASSUME NEW j \in Job, NEW g \in Stage PROVE NotTwice(j, g)' /\ NoneLost(j, g)'
  BY DEF Ledgers
<1>1. /\ NotTwice(j, g) /\ NoneLost(j, g)
      /\ Entry(j, g) \in Nat /\ called[j][g] \in Nat
      /\ Due(j, g) \subseteq Worker /\ Bookers(j, g) \subseteq Worker /\ Cardinality(Due(j, g)) \in Nat
      /\ \A w \in Bookers(j, g) : at[w].seen \in Nat
  BY LedgerNumbers DEF Ledgers
<1>2. Entry(j, g)' = Entry(j, g) /\ called' = called
  OBVIOUS
<1>3. Cardinality(Due(j, g)') <= Cardinality(Due(j, g)) /\ Cardinality(Due(j, g)') \in Nat
  BY <1>1, FewerWorkers, WorkersFinite
<1>4. \A w \in Bookers(j, g)' : w \in Bookers(j, g) /\ at'[w] = at[w]
  BY <1>1 DEF Bookers
<1>5. NotTwice(j, g)'
  <2>1. Entry(j, g)' + Cardinality(Due(j, g)') <= called'[j][g]
    BY <1>1, <1>2, <1>3 DEF NotTwice
  <2>2. ASSUME NEW w \in Bookers(j, g)' PROVE at'[w].seen + Cardinality(Due(j, g)') <= called'[j][g]
    BY <1>1, <1>2, <1>3, <1>4, <2>2 DEF NotTwice
  <2>. QED BY <2>1, <2>2 DEF NotTwice
<1>6. NoneLost(j, g)'
  <2> SUFFICES ASSUME swept'[j] = 0, g \notin unbooked'[j]
               PROVE  /\ Holders(j)' # {} \/ job'[j].status # "running"
                            => Entry(j, g)' + Cardinality(Due(j, g)') = called'[j][g]
                      /\ \A w \in Bookers(j, g)' : at'[w].seen = Entry(j, g)'
    BY DEF NoneLost
  <2>1. swept[j] = 0 /\ g \notin unbooked[j]
    OBVIOUS
  <2>. QED BY <1>1, <1>2, <1>4, <2>1 DEF NoneLost
<1>. QED BY <1>5, <1>6

\* Working without a call keeps the ledger.
LEMMA QuietWorkKeepsLedgers ==
  ASSUME JobsTypeOK, Ledgers, NEW w \in Worker, Quiet(w)
  PROVE  Ledgers'
<1>1. /\ UNCHANGED <<job, ledger, called, swept>> /\ \A j \in Job : unbooked[j] \subseteq unbooked'[j]
      /\ at'[w].step # "book" /\ ~ Owes(at'[w])
      /\ \A v \in Worker : v # w => at'[v] = at[v]
      /\ Owes(at[w]) => at[w].stage \in unbooked'[at[w].job]
  BY DEF Quiet, Onward
<1>2. ASSUME NEW j \in Job, NEW g \in Stage
      PROVE  /\ Due(j, g)' \subseteq Due(j, g) /\ Bookers(j, g)' \subseteq Bookers(j, g)
             /\ g \notin unbooked'[j] => Due(j, g)' = Due(j, g)
  <2>1. w \notin Due(j, g)' /\ w \notin Bookers(j, g)'
    BY <1>1, DueCounts
  <2>2. Due(j, g) \subseteq Worker
    BY DEF Due
  <2>3. g \notin unbooked'[j] => w \notin Due(j, g)
    BY <1>1, DueCounts DEF Holds
  <2>. QED BY <1>1, <2>1, <2>2, <2>3, DueCounts
<1>3. \A j \in Job, g \in Stage : Entry(j, g)' = Entry(j, g)
  BY <1>1 DEF Entry
<1>4. \A v \in Worker : at'[v].step = "book" => at'[v] = at[v]
  BY <1>1
<1>5. \A j \in Job : Holders(j)' = Holders(j)
  BY OnwardCounts DEF Quiet
<1>. QED BY <1>1, <1>2, <1>3, <1>4, <1>5, FewerKeepLedgers

\* A model call: one call more, and one more worker that has to book it.
LEMMA CallKeepsLedgers ==
  ASSUME JobsTypeOK, Ledgers, NEW w \in Worker, Calls(w)
  PROVE  Ledgers'
<1>1. /\ Onward(w) /\ UNCHANGED <<job, ledger, swept, unbooked>>
      /\ at[w].step \in {"extract", "merge"} /\ at'[w].step = "look" /\ at'[w].purpose = "call"
      /\ called' = [called EXCEPT ![at[w].job][at'[w].stage] = @ + 1]
  BY CallShape DEF Calls
<1>2. PICK i \in Job : i = at[w].job /\ i = at'[w].job
  BY <1>1 DEF Onward, Follows, Task
<1>3. PICK h \in Stage : h = at'[w].stage
  BY <1>1 DEF Onward, Follows, Task
<1> SUFFICES ASSUME NEW j \in Job, NEW g \in Stage PROVE NotTwice(j, g)' /\ NoneLost(j, g)'
  BY DEF Ledgers
<1>4. /\ NotTwice(j, g) /\ NoneLost(j, g)
      /\ Entry(j, g) \in Nat /\ called[j][g] \in Nat /\ swept[j] \in Nat
      /\ Due(j, g) \subseteq Worker /\ Bookers(j, g) \subseteq Worker /\ Cardinality(Due(j, g)) \in Nat
      /\ \A v \in Bookers(j, g) : at[v].seen \in Nat
  BY LedgerNumbers DEF Ledgers
<1>5. /\ Entry(j, g)' = Entry(j, g) /\ Holders(j)' = Holders(j)
      /\ \A v \in Worker : v # w => at'[v] = at[v]
      /\ Holds(w, i)' /\ (j # i => ~ Holds(w, j)')
  BY <1>1, <1>2, OnwardCounts, FreeIsNoTask DEF Onward, Follows, Entry, Holds
<1>6. /\ w \notin Due(j, g)
      /\ Due(j, g)' = IF j = i /\ g = h THEN Due(j, g) \cup {w} ELSE Due(j, g)
      /\ \A v \in Bookers(j, g)' : v \in Bookers(j, g) /\ at'[v] = at[v]
  <2>1. w \notin Due(j, g) /\ w \notin Bookers(j, g)'
    BY <1>1, <1>5, DueCounts DEF Owes
  <2>2. w \in Due(j, g)' <=> (j = i /\ g = h)
    BY <1>1, <1>3, <1>5, DueCounts DEF Owes
  <2>3. /\ \A v \in Worker : v # w => /\ v \in Due(j, g)' <=> v \in Due(j, g)
                                      /\ v \in Bookers(j, g)' <=> v \in Bookers(j, g)
        /\ Due(j, g)' \subseteq Worker /\ Bookers(j, g)' \subseteq Worker
    BY <1>5, DueCounts
  <2>4. w \notin Due(j, g)
    BY <2>1
  <2>5. Due(j, g)' = IF j = i /\ g = h THEN Due(j, g) \cup {w} ELSE Due(j, g)
    <3>1. CASE j = i /\ g = h
      BY <1>4, <2>2, <2>3, <3>1
    <3>2. CASE ~ (j = i /\ g = h)
      <4>1. \A v \in Worker : v \in Due(j, g)' <=> v \in Due(j, g)
        BY <2>2, <2>3, <2>4, <3>2
      <4>2. Due(j, g)' = Due(j, g)
        BY <1>4, <2>3, <4>1
      <4>. QED BY <3>2, <4>2
    <3>. QED BY <3>1, <3>2
  <2>6. \A v \in Bookers(j, g)' : v \in Bookers(j, g) /\ at'[v] = at[v]
    BY <1>5, <2>1, <2>3
  <2>. QED BY <2>4, <2>5, <2>6
<1>7. CASE j = i /\ g = h
  <2>1. called'[j][g] = called[j][g] + 1
    BY <1>1, <1>2, <1>3, <1>7 DEF JobsTypeOK
  <2>2. Cardinality(Due(j, g)') = Cardinality(Due(j, g)) + 1
    BY <1>4, <1>6, <1>7, OneWorker
  <2>3. NotTwice(j, g)'
    <3>1. Entry(j, g)' + Cardinality(Due(j, g)') <= called'[j][g]
      BY <1>4, <1>5, <2>1, <2>2 DEF NotTwice
    <3>2. ASSUME NEW v \in Bookers(j, g)'
          PROVE  at'[v].seen + Cardinality(Due(j, g)') <= called'[j][g]
      BY <1>4, <1>6, <2>1, <2>2 DEF NotTwice
    <3>. QED BY <3>1, <3>2 DEF NotTwice
  <2>4. NoneLost(j, g)'
    BY <1>1, <1>4, <1>5, <1>6, <2>1, <2>2 DEF NoneLost
  <2>. QED BY <2>3, <2>4
<1>8. CASE ~ (j = i /\ g = h)
  <2>1. called'[j][g] = called[j][g] /\ Due(j, g)' = Due(j, g)
    BY <1>1, <1>2, <1>3, <1>6, <1>8 DEF JobsTypeOK
  <2>2. NotTwice(j, g)'
    BY <1>4, <1>5, <1>6, <2>1 DEF NotTwice
  <2>3. NoneLost(j, g)'
    BY <1>1, <1>4, <1>5, <1>6, <2>1 DEF NoneLost
  <2>. QED BY <2>2, <2>3
<1>. QED BY <1>7, <1>8

\* Reading the row: what the worker has seen is what is booked.
LEMMA LookKeepsLedgers ==
  ASSUME JobsTypeOK, RowsThere, Ledgers, NEW w \in Worker, usage_for_run(w)
  PROVE  Ledgers'
<1>1. /\ Onward(w) /\ UNCHANGED <<job, ledger, called, swept, unbooked>>
      /\ at[w].step = "look" /\ at'[w].step = "book" /\ at'[w].stage = at[w].stage
      /\ at'[w].purpose = at[w].purpose
      /\ at'[w].seen = Entry(at[w].job, at[w].stage)
  BY WorksTask, LookShape
<1> SUFFICES ASSUME NEW j \in Job, NEW g \in Stage PROVE NotTwice(j, g)' /\ NoneLost(j, g)'
  BY DEF Ledgers
<1>2. /\ NotTwice(j, g) /\ NoneLost(j, g)
      /\ Due(j, g) \subseteq Worker /\ Bookers(j, g) \subseteq Worker
  BY LedgerNumbers DEF Ledgers
<1>3. /\ Entry(j, g)' = Entry(j, g) /\ Holders(j)' = Holders(j)
      /\ \A v \in Worker : v # w => at'[v] = at[v]
      /\ Holds(w, j)' <=> Holds(w, j)
  BY <1>1, OnwardCounts, FreeIsNoTask DEF Onward, Follows, Entry, Holds
<1>4. Due(j, g)' = Due(j, g)
  <2>1. w \in Due(j, g)' <=> w \in Due(j, g)
    BY <1>1, <1>3, DueCounts DEF Owes
  <2>2. Due(j, g)' \subseteq Worker /\ \A v \in Worker : v # w => (v \in Due(j, g)' <=> v \in Due(j, g))
    BY <1>3, DueCounts
  <2>. QED BY <1>2, <2>1, <2>2
<1>5. \A v \in Bookers(j, g)' : \/ v \in Bookers(j, g) /\ at'[v] = at[v]
                                \/ at'[v].seen = Entry(j, g)
  <2>1. w \in Bookers(j, g)' => at'[w].seen = Entry(j, g)
    BY <1>1, <1>3, DueCounts DEF Holds
  <2>2. \A v \in Worker : v # w => (v \in Bookers(j, g)' <=> v \in Bookers(j, g))
    BY <1>3, DueCounts
  <2>3. Bookers(j, g)' \subseteq Worker
    BY DEF Bookers
  <2>. QED BY <1>3, <2>1, <2>2, <2>3
<1>6. NotTwice(j, g)'
  BY <1>1, <1>2, <1>3, <1>4, <1>5 DEF NotTwice
<1>7. NoneLost(j, g)'
  BY <1>1, <1>2, <1>3, <1>4, <1>5 DEF NoneLost
<1>. QED BY <1>6, <1>7

\* Writing it: one call less to book, if there was one.
LEMMA BookKeepsLedgers ==
  ASSUME JobsTypeOK, RowsThere, HoldersSwept, Ledgers, NEW w \in Worker, Books(w)
  PROVE  Ledgers'
<1>1. /\ Onward(w) /\ UNCHANGED <<job, called, swept, unbooked>>
      /\ at[w].step = "book" /\ at'[w].step # "book" /\ ~ Owes(at'[w])
      /\ ledger' = [ledger EXCEPT ![at[w].job][at[w].stage] = at[w].seen + One(at[w].purpose = "call")]
  BY WorksTask, BookShape DEF Books
<1>2. PICK i \in Job, h \in Stage : i = at[w].job /\ h = at[w].stage /\ at[w].seen \in Nat
  BY <1>1 DEF Onward, Task
<1> SUFFICES ASSUME NEW j \in Job, NEW g \in Stage PROVE NotTwice(j, g)' /\ NoneLost(j, g)'
  BY DEF Ledgers
<1>4. /\ NotTwice(j, g) /\ NoneLost(j, g)
      /\ Entry(j, g) \in Nat /\ called[j][g] \in Nat /\ swept[j] \in Nat
      /\ Due(j, g) \subseteq Worker /\ Bookers(j, g) \subseteq Worker /\ Cardinality(Due(j, g)) \in Nat
      /\ \A v \in Due(j, g) \cup Bookers(j, g) : at[v].job = j /\ v \in Holders(j)
      /\ \A v \in Bookers(j, g) : at[v].seen \in Nat
  BY LedgerNumbers DEF Ledgers
<1>5. /\ Holders(j)' = Holders(j)
      /\ \A v \in Worker : v # w => at'[v] = at[v]
      /\ Holds(w, i) /\ (j # i => ~ Holds(w, j))
  BY <1>1, <1>2, OnwardCounts, FreeIsNoTask DEF Onward, Holds
<1>6. /\ Due(j, g)' = Due(j, g) \ {w} /\ (w \in Due(j, g) <=> j = i /\ g = h /\ at[w].purpose = "call")
      /\ Bookers(j, g)' = Bookers(j, g) \ {w} /\ (w \in Bookers(j, g) <=> j = i /\ g = h)
      /\ \A v \in Bookers(j, g)' : v \in Bookers(j, g) /\ at'[v] = at[v]
  <2>1. w \notin Due(j, g)' /\ w \notin Bookers(j, g)'
    BY <1>1, <1>5, DueCounts
  <2>2. /\ w \in Due(j, g) <=> j = i /\ g = h /\ at[w].purpose = "call"
        /\ w \in Bookers(j, g) <=> j = i /\ g = h
    BY <1>1, <1>2, <1>5, DueCounts DEF Owes
  <2>3. /\ \A v \in Worker : v # w => /\ v \in Due(j, g)' <=> v \in Due(j, g)
                                      /\ v \in Bookers(j, g)' <=> v \in Bookers(j, g)
        /\ Due(j, g)' \subseteq Worker /\ Bookers(j, g)' \subseteq Worker
    BY <1>5, DueCounts
  <2>. QED BY <1>4, <1>5, <2>1, <2>2, <2>3
<1>7. CASE j = i /\ g = h
  <2>0. w \in Bookers(j, g) /\ w \in Holders(j)
    BY <1>4, <1>6, <1>7
  <2>1. Entry(j, g)' = at[w].seen + One(at[w].purpose = "call")
    <3>1. at[w].seen + One(at[w].purpose = "call") \in Nat
      BY <1>2 DEF One
    <3>2. PICK n \in Nat : n = at[w].seen + One(at[w].purpose = "call")
      BY <3>1
    <3>3. ledger'[j][g] = n
      BY <1>1, <1>2, <1>7, <3>2 DEF JobsTypeOK
    <3>. QED BY <3>2, <3>3 DEF Entry, Absent
  <2>2. Cardinality(Due(j, g)') + One(at[w].purpose = "call") = Cardinality(Due(j, g))
    <3>1. CASE at[w].purpose = "call"
      BY <1>4, <1>6, <1>7, <3>1, OneWorker DEF One
    <3>2. CASE at[w].purpose # "call"
      <4>1. Due(j, g)' = Due(j, g)
        BY <1>6, <3>2
      <4>. QED BY <1>4, <3>2, <4>1 DEF One
    <3>. QED BY <3>1, <3>2
  <2>n. PICK d \in Nat, e \in Nat, a \in 0..1 :
          /\ d = Cardinality(Due(j, g)) /\ e = Cardinality(Due(j, g)') /\ a = One(at[w].purpose = "call")
    <3>1. Cardinality(Due(j, g)') \in Nat
      BY <1>4, <1>6, WorkersFinite
    <3>. QED BY <1>4, <3>1 DEF One
  <2>3. NotTwice(j, g)'
    <3>1. at[w].seen + d <= called[j][g]
      BY <1>4, <2>0, <2>n DEF NotTwice
    <3>2. Entry(j, g)' + Cardinality(Due(j, g)') <= called'[j][g]
      BY <1>1, <1>2, <1>4, <2>1, <2>2, <2>n, <3>1
    <3>3. ASSUME NEW v \in Bookers(j, g)'
          PROVE  at'[v].seen + Cardinality(Due(j, g)') <= called'[j][g]
      <4>1. v \in Bookers(j, g) /\ at'[v].seen = at[v].seen /\ at[v].seen \in Nat
        BY <1>4, <1>6
      <4>2. at[v].seen + d <= called[j][g]
        BY <1>4, <2>n, <4>1 DEF NotTwice
      <4>. QED BY <1>1, <1>4, <2>2, <2>n, <4>1, <4>2
    <3>. QED BY <3>2, <3>3 DEF NotTwice
  <2>4. NoneLost(j, g)'
    <3> SUFFICES ASSUME swept[j] = 0, g \notin unbooked[j]
                 PROVE  /\ Entry(j, g)' + Cardinality(Due(j, g)') = called'[j][g]
                        /\ Bookers(j, g)' = {}
      BY <1>1 DEF NoneLost
    <3>1. Holders(j) \subseteq Worker
      BY DEF Holders
    <3>2. Entry(j, g) + d = called[j][g] /\ at[w].seen = Entry(j, g)
      BY <1>4, <2>0, <2>n DEF NoneLost
    <3>3. Cardinality(Holders(j)) <= 1
      <4>1. Cardinality(Holders(j)) \in Nat
        BY <3>1, WorkersFinite
      <4>. QED BY <4>1 DEF HoldersSwept, One
    <3>4. \A v \in Holders(j) : v = w
      BY <2>0, <3>1, <3>3, AtMostOne
    <3>5. Bookers(j, g)' = {}
      BY <1>4, <1>6, <3>4
    <3>6. Entry(j, g)' + Cardinality(Due(j, g)') = called'[j][g]
      BY <1>1, <1>4, <2>1, <2>2, <2>n, <3>2
    <3>. QED BY <3>5, <3>6
  <2>. QED BY <2>3, <2>4
<1>8. CASE ~ (j = i /\ g = h)
  <2>1. Entry(j, g)' = Entry(j, g) /\ Due(j, g)' = Due(j, g)
    BY <1>1, <1>2, <1>6, <1>8 DEF JobsTypeOK, Entry
  <2>2. NotTwice(j, g)'
    BY <1>1, <1>4, <1>5, <1>6, <1>8, <2>1 DEF NotTwice
  <2>3. NoneLost(j, g)'
    BY <1>1, <1>4, <1>5, <1>6, <1>8, <2>1 DEF NoneLost
  <2>. QED BY <2>2, <2>3
<1>. QED BY <1>7, <1>8

\* Leaving a job: a crash leaves it running with nobody, a verdict owes nothing.
LEMMA LeavingKeepsLedgers ==
  ASSUME JobsTypeOK, HoldersSwept, Ledgers, NEW w \in Worker, finish(w) \/ Crash(w)
  PROVE  Ledgers'
<1>1. /\ at[w] \in Task /\ at[w] # Free /\ at'[w] = Free
      /\ \A v \in Worker : v # w => at'[v] = at[v]
      /\ UNCHANGED <<ledger, called, swept, unbooked>>
  BY LeavingShape, FreeIsNoTask
<1>2. PICK i \in Job : i = at[w].job
  BY <1>1 DEF Task
<1>3. ASSUME NEW j \in Job, NEW g \in Stage
      PROVE  /\ Entry(j, g)' = Entry(j, g)
             /\ Due(j, g)' = Due(j, g) \ {w} /\ Bookers(j, g)' = Bookers(j, g) \ {w}
  <2>1. w \notin Due(j, g)' /\ w \notin Bookers(j, g)' /\ Due(j, g) \subseteq Worker /\ Bookers(j, g) \subseteq Worker
    BY <1>1 DEF Due, Bookers, Holds
  <2>. QED BY <1>1, <2>1, DueCounts DEF Entry
<1>4. \A v \in Worker : at'[v].step = "book" => at'[v] = at[v]
  BY <1>1 DEF Free
<1>5. ASSUME NEW j \in Job, NEW g \in Stage, swept'[j] = 0,
             Holders(j)' # {} \/ job'[j].status # "running"
      PROVE  Due(j, g)' = Due(j, g) /\ (Holders(j) # {} \/ job[j].status # "running")
  <2>1. Holders(j)' = Holders(j) \ {w} /\ (w \in Holders(j) <=> j = i)
    BY <1>2, LeavingCounts
  <2>2. CASE j # i
    <3>1. w \notin Due(j, g)
      BY <1>2, <2>2 DEF Due, Holds
    <3>2. job'[j].status = job[j].status
      BY <1>2, <2>2, LeavingShape DEF JobsTypeOK
    <3>3. Due(j, g)' = Due(j, g)
      BY <1>3, <3>1
    <3>4. Holders(j)' = Holders(j)
      BY <2>1, <2>2
    <3>. QED BY <1>5, <3>2, <3>3, <3>4
  <2>3. CASE j = i
    <3>1. w \in Holders(j) /\ Holders(j) \subseteq Worker
      BY <2>1, <2>3 DEF Holders
    <3>2. Cardinality(Holders(j)) \in Nat /\ Cardinality(Holders(j)) >= 1 /\ swept[j] = 0
      BY <1>1, <1>5, <3>1, WorkersFinite, AtMostOne
    <3>3. Cardinality(Holders(j)) <= 1 /\ job[j].status = "running"
      BY <3>2 DEF HoldersSwept, One
    <3>4. Holders(j)' = {}
      BY <2>1, <3>1, <3>3, AtMostOne
    <3>5. CASE finish(w)
      BY <1>3, <3>1, <3>5 DEF finish, Due, Owes
    <3>6. CASE Crash(w)
      BY <1>5, <3>3, <3>4, <3>6 DEF Crash
    <3>. QED BY <3>5, <3>6
  <2>. QED BY <2>2, <2>3
<1>6. /\ UNCHANGED called /\ (\A j \in Job : unbooked[j] \subseteq unbooked'[j])
      /\ \A j \in Job : swept'[j] = 0 => swept[j] = 0
  BY <1>1
<1>7. \A j \in Job, g \in Stage :
        /\ Entry(j, g)' = Entry(j, g)
        /\ Due(j, g)' \subseteq Due(j, g) /\ Bookers(j, g)' \subseteq Bookers(j, g)
  BY <1>3
<1>. QED BY <1>4, <1>5, <1>6, <1>7, FewerKeepLedgers

\* Taking a job, and putting one into the queue, neither calls nor books.
LEMMA OutboxKeepsLedgers ==
  ASSUME JobsTypeOK, Ledgers,
         \/ \E w \in Worker, j \in Job : claim(w, j)
         \/ \E j \in Job : enqueue(j) \/ requeue_stale(j)
  PROVE  Ledgers'
<1>1. ASSUME NEW w \in Worker, NEW i \in Job, claim(w, i) PROVE Ledgers'
  <2>1. /\ at[w] = Free /\ at'[w].step = "guard" /\ at'[w] # Free
        /\ \A v \in Worker : v # w => at'[v] = at[v]
        /\ UNCHANGED <<ledger, called, swept, unbooked>>
    BY <1>1, ClaimShape, FreeIsNoTask
  <2>2. ASSUME NEW j \in Job, NEW g \in Stage
        PROVE  Entry(j, g)' = Entry(j, g) /\ Due(j, g)' = Due(j, g) /\ Bookers(j, g)' = Bookers(j, g)
    BY <2>1 DEF Entry, Due, Bookers, Holds, Owes
  <2>3. \A v \in Worker : at'[v].step = "book" => at'[v] = at[v]
    BY <2>1
  <2>4. \A j \in Job : Holders(j)' # {} \/ job'[j].status # "running" =>
                         Holders(j) # {} \/ job[j].status # "running"
    <3>1. ASSUME NEW j \in Job, j # i PROVE Holders(j)' = Holders(j) /\ job'[j] = job[j]
      BY <1>1, <3>1, ClaimCounts, ClaimShape DEF JobsTypeOK
    <3>2. job[i].status = "queued"
      BY <1>1, ClaimShape
    <3>. QED BY <3>1, <3>2
  <2>. QED BY <2>1, <2>2, <2>3, <2>4, FewerKeepLedgers
<1>2. ASSUME NEW i \in Job, enqueue(i) \/ requeue_stale(i) PROVE Ledgers'
  <2>1. UNCHANGED <<at, ledger, called, unbooked>>
    BY <1>2 DEF enqueue, requeue_stale
  <2>2. ASSUME NEW j \in Job
        PROVE  /\ \A g \in Stage : /\ Entry(j, g)' = Entry(j, g) /\ Due(j, g)' = Due(j, g)
                                   /\ Bookers(j, g)' = Bookers(j, g)
               /\ Holders(j)' = Holders(j)
    BY <2>1 DEF Entry, Due, Bookers, Holders, Holds
  <2>3. ASSUME NEW j \in Job
        PROVE  /\ swept'[j] = 0 => swept[j] = 0
               /\ swept'[j] = 0 /\ (Holders(j)' # {} \/ job'[j].status # "running")
                    => Holders(j) # {} \/ job[j].status # "running"
    <3>1. CASE enqueue(i)
      BY <2>2, <3>1 DEF enqueue, JobsTypeOK
    <3>2. CASE requeue_stale(i)
      BY <2>2, <3>2 DEF requeue_stale, JobsTypeOK
    <3>. QED BY <1>2, <3>1, <3>2
  <2>. QED BY <2>1, <2>2, <2>3, FewerKeepLedgers
<1>. QED BY <1>1, <1>2

\* Every step keeps the ledger.
LEMMA StepLedgers == Basic /\ Limits /\ Ledgers /\ [JobsNext]_jobVars => Ledgers'
<1> SUFFICES ASSUME Basic, Limits, Ledgers, [JobsNext]_jobVars PROVE Ledgers'
  OBVIOUS
<1>0. JobsTypeOK /\ RowsThere /\ HoldersSwept
  BY DEF Basic, Limits
<1>1. CASE UNCHANGED jobVars \/ (\E s \in Deletable : delete_memory(s)) \/ delete_thread \/ destroy
  <2>1. UNCHANGED <<job, ledger, called, swept, unbooked, at>>
    BY <1>1 DEF jobVars, delete_memory, delete_thread, destroy
  <2>. QED BY <2>1 DEF Ledgers, NotTwice, NoneLost, Entry, Due, Bookers, Holders, Holds
<1>2. ASSUME NEW w \in Worker, Works(w) PROVE Ledgers'
  BY <1>0, <1>2, QuietlyShape, QuietWorkKeepsLedgers, CallKeepsLedgers, LookKeepsLedgers, BookKeepsLedgers DEF Works
<1>3. ASSUME NEW w \in Worker, Step(w) \/ Fault(w) PROVE Ledgers'
  BY <1>0, <1>2, <1>3, StepCases, LeavingKeepsLedgers
<1>. QED BY <1>0, <1>1, <1>3, OutboxKeepsLedgers DEF JobsNext

--------------------------------------------------------------------------------
(* The results. *)

\* The inductive invariant of the memory jobs.
JobsIInv == Basic /\ Limits /\ Ledgers

\* It holds always.
LEMMA JobsInductive == JobsSpec => []JobsIInv
<1>1. JobsInit => JobsIInv
  BY BasicInitially, LimitsInitially, LedgersInitially DEF JobsIInv
<1>2. JobsIInv /\ [JobsNext]_jobVars => JobsIInv'
  BY StepBasic, StepLimits, StepLedgers DEF JobsIInv
<1>3. QED
  BY <1>1, <1>2, PTL DEF JobsSpec

\* The table of jobs is well formed; attempts and holders beyond the limit were swept, and
\* a settled job has its usage rows, but for those whose booking failed (app/memory/job.py,
\* _ensure_zero_usage in app/memory/worker.py).
THEOREM JobsAccounted == JobsSpec => []JobsInv
<1>1. ASSUME JobsIInv PROVE AttemptsAccounted
  <2> SUFFICES ASSUME NEW j \in Job
               PROVE  /\ job[j].attempts <= MaxAttempt + swept[j]
                      /\ Cardinality(Holders(j)) <= 1 + swept[j]
    BY DEF AttemptsAccounted, Holders
  <2>1. /\ Cardinality(Holders(j)) \in Nat /\ Cardinality(Hopeful(j)) \in Nat
        /\ swept[j] \in Nat /\ job[j].attempts \in Nat
    BY <1>1, WorkersFinite DEF JobsIInv, Basic, JobsTypeOK, Holders, Hopeful
  <2>2. /\ Cardinality(Holders(j)) <= swept[j] + One(job[j].status = "running")
        /\ job[j].attempts >= MaxAttempt =>
             job[j].attempts + One(job[j].status = "queued") + Cardinality(Hopeful(j)) <= MaxAttempt + swept[j]
    BY <1>1 DEF JobsIInv, Limits, HoldersSwept, ClaimsPaid
  <2>3. QED
    BY <2>1, <2>2, JobsAssumption DEF One
<1>2. JobsIInv => JobsInv
  BY <1>1 DEF JobsIInv, Basic, JobsInv
<1>3. QED
  BY <1>2, JobsInductive, PTL

\* The ledger counts no model call twice, and loses none of a job that was never swept,
\* unless a booking failed (_record_usage in app/memory/worker.py).
THEOREM LedgerIsExact == JobsSpec => []LedgerExact
<1>1. JobsIInv => LedgerExact
  <2> SUFFICES ASSUME JobsIInv, NEW j \in Job, NEW g \in Stage
               PROVE  /\ Entry(j, g) + Cardinality(Due(j, g)) <= called[j][g]
                      /\ swept[j] = 0 /\ g \notin unbooked[j] /\ (\E w \in Worker : Holds(w, j)) =>
                           Entry(j, g) + Cardinality(Due(j, g)) = called[j][g]
    BY DEF LedgerExact, Entry, Due, Owes
  <2>1. NotTwice(j, g) /\ NoneLost(j, g)
    BY DEF JobsIInv, Ledgers
  <2>2. QED
    BY <2>1 DEF NotTwice, NoneLost, Holders
<1>2. QED
  BY <1>1, JobsInductive, PTL

\* A settled job is never touched again (_finish in app/memory/job.py).
LEMMA StepVerdict ==
  ASSUME JobsTypeOK, RowsThere, [JobsNext]_jobVars, NEW j \in Job, job[j].status \in Settled
  PROVE  job'[j] = job[j]
<1>1. ASSUME NEW i \in Job, enqueue(i) \/ requeue_stale(i) PROVE job'[j] = job[j]
  BY <1>1 DEF enqueue, requeue_stale, JobsTypeOK, Settled
<1>2. ASSUME NEW w \in Worker, NEW i \in Job, claim(w, i) PROVE job'[j] = job[j]
  BY <1>2 DEF claim, JobsTypeOK, Settled
<1>3. ASSUME NEW w \in Worker, finish(w) PROVE job'[j] = job[j]
  BY <1>3 DEF finish, _finish, JobsTypeOK, Settled
<1>4. ASSUME NEW w \in Worker, Step(w) \/ Fault(w) PROVE job'[j] = job[j]
  BY <1>3, <1>4, StepCases, WorksShape DEF Crash
<1>5. QED
  BY <1>1, <1>2, <1>4 DEF JobsNext, jobVars, delete_memory, delete_thread, destroy

\* A merge replaces what it has read, and nothing else.
LEMMA StepMerge ==
  ASSUME JobsTypeOK, RowsThere, [JobsNext]_jobVars, NEW w \in Worker,
         at[w] # Free, at[w].step \in {"replace", "rollback"}, at'[w] # at[w]
  PROVE  store' = store \/ store = at[w].snap
<1>1. ASSUME NEW v \in Worker, Works(v) PROVE store' = store \/ store = at[w].snap
  <2>1. v = w
    BY <1>1, WorksShape DEF Onward
  <2>. QED BY <1>1, <2>1, WorksShape DEF Kept
<1>2. ASSUME NEW v \in Worker, finish(v) \/ Crash(v) PROVE store' = store
  BY <1>2, LeavingShape
<1>3. ASSUME NEW v \in Worker, Step(v) \/ Fault(v) PROVE store' = store \/ store = at[w].snap
  BY <1>1, <1>2, <1>3, StepCases
<1>4. QED
  BY <1>3 DEF JobsNext, jobVars, claim, enqueue, requeue_stale, delete_memory, delete_thread, destroy

\* A worker that was overtaken, by another worker or by the user, undoes neither a verdict
\* nor a deletion (_finish, _replace_with_rollback in app/memory).
THEOREM OvertakenAreHarmless == JobsSpec => OvertakenUndoNothing
<1> DEFINE Verdict == \A j \in Job : job[j].status \in Settled => job'[j] = job[j]
           Merge   == \A w \in Worker :
                        at[w] # Free /\ at[w].step \in {"replace", "rollback"} /\ at'[w] # at[w] =>
                          store' = store \/ store = at[w].snap
<1>1. JobsIInv /\ [JobsNext]_jobVars => [Verdict]_jobVars
  BY StepVerdict DEF JobsIInv, Basic
<1>2. JobsIInv /\ [JobsNext]_jobVars => [Merge]_jobVars
  BY StepMerge DEF JobsIInv, Basic
<1>3. QED
  BY <1>1, <1>2, JobsInductive, PTL DEF JobsSpec, OvertakenUndoNothing, VerdictIsFinal, MergeRespectsUser

================================================================================
