------------------------------- MODULE MemoryFiles -------------------------------
(***************************************************************************)
(* How one conversation's memory directory is replaced                     *)
(* (app/memory/store.py).  The thread lock admits one operation at a time; *)
(* what the model explores is the order of the file operations, an error   *)
(* or the death of the process between any two of them, and the recovery   *)
(* that the next operation starts with.                                    *)
(*                                                                         *)
(* A directory is a function from file names to contents.  The index       *)
(* MEMORY.md is one of the files; schemas, symbolic links, times and fsync *)
(* are left out, and so is the loss of the machine itself: a file          *)
(* operation that returned is on the disk.                                 *)
(***************************************************************************)
EXTENDS Naturals, FiniteSets

CONSTANTS
    File, Content, None,         \* None: no such file
    Fits                         \* the sets of files that pass the capacity check of _prepare

ASSUME FilesAssumption == None \notin Content /\ Fits \subseteq [File -> Content \cup {None}]

VARIABLES
    active, stage, backup,       \* the directory, .stage and .backup
    kept,                        \* .backup exists
    promoting, committed,        \* the two markers
    phase                        \* what the holder of the lock is doing

fileVars == <<active, stage, backup, kept, promoting, committed, phase>>

Directory == [File -> Content \cup {None}]
Empty     == [f \in File |-> None]

\* "idle": nobody is at work and nothing is left over.  "left": the last operation
\* died or gave up, and the next one has to recover first.
Phase == {"idle", "left", "backing", "promoting", "cleaning",
          "unpromoting", "unbacking", "forward", "wiping", "restoring", "dropping"}

\* Directories, markers and the position in the transaction (app/memory/store.py).
FilesTypeOK ==
    /\ active \in Directory /\ stage \in Directory /\ backup \in Directory
    /\ kept \in BOOLEAN /\ promoting \in BOOLEAN /\ committed \in BOOLEAN
    /\ phase \in Phase

FilesInit ==
    /\ active = Empty /\ stage = Empty /\ backup = Empty
    /\ kept = FALSE /\ promoting = FALSE /\ committed = FALSE
    /\ phase = "idle"

--------------------------------------------------------------------------------
(* _replace_files *)

\* The directories are made and the new files written into .stage.
StageFiles(files) ==
    /\ phase = "idle"
    /\ files \in Fits
    /\ stage' = files /\ kept' = TRUE
    /\ phase' = "backing"
    /\ UNCHANGED <<active, backup, promoting, committed>>

BackUp(f) ==
    /\ phase = "backing" /\ active[f] # None
    /\ backup' = [backup EXCEPT ![f] = active[f]]
    /\ active' = [active EXCEPT ![f] = None]
    /\ UNCHANGED <<stage, kept, promoting, committed, phase>>

MarkPromoting ==
    /\ phase = "backing" /\ active = Empty
    /\ promoting' = TRUE /\ phase' = "promoting"
    /\ UNCHANGED <<active, stage, backup, kept, committed>>

Promote(f) ==
    /\ phase = "promoting" /\ stage[f] # None
    /\ active' = [active EXCEPT ![f] = stage[f]]
    /\ stage' = [stage EXCEPT ![f] = None]
    /\ UNCHANGED <<backup, kept, promoting, committed, phase>>

\* One rename turns .promoting into .committed.
Commit ==
    /\ phase = "promoting" /\ stage = Empty
    /\ promoting' = FALSE /\ committed' = TRUE
    /\ phase' = "cleaning"
    /\ UNCHANGED <<active, stage, backup, kept>>

RemoveBackup ==
    /\ phase = "cleaning" /\ kept
    /\ backup' = Empty /\ kept' = FALSE
    /\ UNCHANGED <<active, stage, promoting, committed, phase>>

RemoveCommitted ==
    /\ phase = "cleaning" /\ ~ kept
    /\ committed' = FALSE /\ phase' = "idle"
    /\ UNCHANGED <<active, stage, backup, kept, promoting>>

--------------------------------------------------------------------------------
(* The except branch: what was promoted goes, what was moved comes back. *)

GiveUp ==
    /\ phase \in {"backing", "promoting"}
    /\ phase' = "unpromoting"
    /\ UNCHANGED <<active, stage, backup, kept, promoting, committed>>

\* Before .promoting exists nothing was promoted, and what is active was never moved.
Unpromote(f) ==
    /\ phase = "unpromoting" /\ promoting /\ active[f] # None
    /\ active' = [active EXCEPT ![f] = None]
    /\ UNCHANGED <<stage, backup, kept, promoting, committed, phase>>

Unpromoted ==
    /\ phase = "unpromoting" /\ (promoting => active = Empty)
    /\ phase' = "unbacking"
    /\ UNCHANGED <<active, stage, backup, kept, promoting, committed>>

Unback(f) ==
    /\ phase = "unbacking" /\ backup[f] # None
    /\ active' = [active EXCEPT ![f] = backup[f]]
    /\ backup' = [backup EXCEPT ![f] = None]
    /\ UNCHANGED <<stage, kept, promoting, committed, phase>>

Unbacked ==
    /\ phase = "unbacking" /\ backup = Empty
    /\ kept' = FALSE
    /\ phase' = "dropping"
    /\ UNCHANGED <<active, stage, backup, promoting, committed>>

\* The process dies; or the rollback or the cleaning fails and leaves it to the next one.
Die ==
    /\ phase \notin {"idle", "left"}
    /\ phase' = "left"
    /\ UNCHANGED <<active, stage, backup, kept, promoting, committed>>

--------------------------------------------------------------------------------
(* _recover_transaction_artifacts, first thing in every operation *)

\* Mutant: the old files are put back without removing the promoted ones.
RestoreAtOnce ==
    /\ phase = "left"
    /\ phase' = IF committed THEN "forward" ELSE IF kept THEN "restoring" ELSE "dropping"
    /\ UNCHANGED <<active, stage, backup, kept, promoting, committed>>

Recover ==
    /\ phase = "left"
    /\ phase' = IF committed THEN "forward"
                ELSE IF ~ kept THEN "dropping"
                ELSE IF promoting THEN "wiping" ELSE "restoring"
    /\ UNCHANGED <<active, stage, backup, kept, promoting, committed>>

\* A committed set stays; .committed goes last.
Forward ==
    /\ phase = "forward" /\ (kept \/ stage # Empty \/ promoting)
    /\ backup' = Empty /\ kept' = FALSE
    /\ stage' = Empty /\ promoting' = FALSE
    /\ UNCHANGED <<active, committed, phase>>

Forwarded ==
    /\ phase = "forward" /\ ~ kept /\ stage = Empty /\ ~ promoting
    /\ committed' = FALSE /\ phase' = "idle"
    /\ UNCHANGED <<active, stage, backup, kept, promoting>>

Wipe(f) ==
    /\ phase = "wiping" /\ active[f] # None
    /\ active' = [active EXCEPT ![f] = None]
    /\ UNCHANGED <<stage, backup, kept, promoting, committed, phase>>

Wiped ==
    /\ phase = "wiping" /\ active = Empty
    /\ phase' = "restoring"
    /\ UNCHANGED <<active, stage, backup, kept, promoting, committed>>

Restore(f) ==
    /\ phase = "restoring" /\ backup[f] # None
    /\ active' = [active EXCEPT ![f] = backup[f]]
    /\ backup' = [backup EXCEPT ![f] = None]
    /\ UNCHANGED <<stage, kept, promoting, committed, phase>>

Restored ==
    /\ phase = "restoring" /\ backup = Empty
    /\ kept' = FALSE
    /\ phase' = "dropping"
    /\ UNCHANGED <<active, stage, backup, promoting, committed>>

\* Mutant: the marker stays behind.
DropStage ==
    /\ phase = "dropping"
    /\ stage' = Empty
    /\ phase' = "idle"
    /\ UNCHANGED <<active, backup, kept, promoting, committed>>

\* .stage and .promoting go last, in either path back.
Drop ==
    /\ phase = "dropping"
    /\ stage' = Empty /\ promoting' = FALSE
    /\ phase' = "idle"
    /\ UNCHANGED <<active, backup, kept, committed>>

--------------------------------------------------------------------------------
FileStep(f) == BackUp(f) \/ Promote(f) \/ Unpromote(f) \/ Unback(f) \/ Wipe(f) \/ Restore(f)

FilesNext ==
    \/ \E files \in Fits : StageFiles(files)
    \/ \E f \in File : FileStep(f)
    \/ MarkPromoting \/ Commit \/ RemoveBackup \/ RemoveCommitted
    \/ GiveUp \/ Unpromoted \/ Unbacked \/ Die
    \/ Recover \/ Forward \/ Forwarded \/ Wiped \/ Restored \/ Drop

FilesSpec == FilesInit /\ [][FilesNext]_fileVars

--------------------------------------------------------------------------------
Merged == [f \in File |-> IF backup[f] # None THEN backup[f] ELSE active[f]]

(***************************************************************************)
(* What the next reader will find, as the disk stands and with what the    *)
(* process at work still knows: a committed set is read as it is, the      *)
(* files in .backup stand for the ones they replaced, and while .promoting *)
(* marks the directory as untrusted only .backup counts -- unless somebody *)
(* is just putting it back.                                                *)
(***************************************************************************)
Readable ==
    IF committed \/ ~ kept THEN active
    ELSE IF promoting /\ phase \notin {"unbacking", "restoring"} THEN backup
    ELSE Merged

\* Files are being put back while .promoting still says that what is active is to be wiped.
HalfRestored == promoting /\ phase \in {"unbacking", "restoring"} /\ active # Empty

\* The next reader finds another set only because one was committed, whatever fails and
\* wherever the process dies -- except when it dies while the old files are put back
\* under .promoting (_replace_files and _recover_transaction_artifacts).
AtomicUnlessRestoreCut == [][
    Readable' = Readable \/ Commit \/ (HalfRestored /\ Die)
    ]_fileVars

\* An idle directory holds nothing of a transaction, so that the next one can start
\* (the check of _replace_files for artifacts that were not cleaned up).
IdleIsClean == phase = "idle" =>
    /\ ~ kept /\ ~ promoting /\ ~ committed
    /\ stage = Empty /\ backup = Empty

\* The directories keep their kind, and nothing of a transaction outlives it
\* (_recover_transaction_artifacts, the check at the start of _replace_files).
FilesSound == FilesTypeOK /\ IdleIsClean

================================================================================
