----------------------------- MODULE FileRequests -----------------------------
(***************************************************************************)
(* The files of a conversation as its owner reaches them: list, read,      *)
(* upload, save, remove (app/api/route/file.py), each a call of the broker *)
(* (app/sandbox/remote.py, app/broker/route.py) that works in the          *)
(* directory under the thread's lock (app/sandbox/workspace.py).  Of the   *)
(* contents only the presence of the owner's file is kept; which names are *)
(* accepted, sizes and previews are left out.                              *)
(***************************************************************************)
EXTENDS ToolCalls

VARIABLE files                   \* threads whose directory holds the owner's file

FilesInit == files = {}

\* The call is on its way to the broker.
Reach(q, t) == Put(q, "reaching", t)

\* The request is answered, with what was asked for or with an error.
Answer(q) == Put(q, "done", at[q].thread)

\* require_thread: the conversation is not deleted now, the broker is called later.
OpenFiles(q, t) ==
    /\ at[q].place = "in" /\ _visible(t)
    /\ Reach(q, t)
    /\ UNCHANGED <<threadVars, files>>

\* The call fails on its way.
Unreached(q) ==
    /\ at[q].place = "reaching" /\ Fault
    /\ Answer(q)
    /\ UNCHANGED <<row, title, purge, dirs, boxes, strays, holder, cut, files>>

\* The broker takes the lock and looks the directory up, which never makes it.
EnterDirectory(q) ==
    LET t == at[q].thread IN
    /\ at[q].place = "reaching" /\ Free(t) /\ t \in dirs
    /\ holder' = [holder EXCEPT ![t] = q] /\ Put(q, "filing", t)
    /\ UNCHANGED <<row, title, purge, dirs, boxes, strays, faults, cut, files>>

NoDirectory(q) ==
    /\ at[q].place = "reaching" /\ Free(at[q].thread) /\ at[q].thread \notin dirs
    /\ Answer(q)
    /\ UNCHANGED <<threadVars, files>>

\* What the call does in the directory, and the lock is let go.
Within(q) ==
    /\ at[q].place = "filing"
    /\ holder' = [holder EXCEPT ![at[q].thread] = Nobody]
    /\ Answer(q)
    /\ UNCHANGED <<row, title, purge, dirs, boxes, strays, cut>>

\* Workspace.save and write; a full disk leaves what was there, or a piece of the new one.
save(q) ==
    /\ Within(q)
    /\ \/ files' = files \cup {at[q].thread} /\ UNCHANGED faults
       \/ Fault /\ files' \in {files, files \cup {at[q].thread}}

\* Workspace.remove; without the file the answer is 404.
remove(q) == Within(q) /\ files' = files \ {at[q].thread} /\ UNCHANGED faults

\* tree, preview, stat, open and mkdir leave the file alone.
browse(q) == Within(q) /\ UNCHANGED <<files, faults>>

================================================================================
