------------------------------ MODULE SkillCatalog ------------------------------
(***************************************************************************)
(* Skills: app/preset/skill.py behind app/api/route/skill.py, and their    *)
(* files, which the broker keeps (app/broker/skill.py).  An upload commits *)
(* its row first and calls the broker afterwards; the broker removes the   *)
(* old directory before it writes the new one.  Either call may fail or    *)
(* the api may be killed in between: the row stays.                        *)
(***************************************************************************)
EXTENDS AgentCatalog

CONSTANT NoBytes

ASSUME BytesAssumption == NoBytes \notin Edit

VARIABLE bytes                   \* the broker's directory of each version

BytesTypeOK ==
    DOMAIN bytes = Skill /\ \A k \in Skill : bytes[k] \in [1..Bound[k] -> Edit \cup {NoBytes}]
BytesInit   == bytes = [k \in Skill |-> [v \in 1..Bound[k] |-> NoBytes]]

\* Mutant: the row is all that an upload leaves behind.
create_without_files(e, k, n) ==
    /\ edit[e] = Idle /\ NameFree(Skill, k, n)
    /\ CreateRow(k, n, Fresh(e, {}, {}))
    /\ edit' = [edit EXCEPT ![e] = Done]
    /\ UNCHANGED bytes

\* The row is committed; the files of version 1 are the broker's business next.
Saving(k) == [phase |-> "saving", p |-> k, at |-> 1, found |-> FALSE,
              asDraft |-> TRUE, skills |-> {}, subs |-> {}]

\* The name comes from the package and stays: a later package must carry the same one.
create_skill(e, k, n) ==
    /\ edit[e] = Idle /\ NameFree(Skill, k, n)
    /\ CreateRow(k, n, Fresh(e, {}, {}))
    /\ edit' = [edit EXCEPT ![e] = Saving(k)]
    /\ UNCHANGED bytes

LoadSkillDraft(e, k) == Load(e, k, {}, {}) /\ UNCHANGED bytes

\* A refused INSERT is an error to the uploader, and nothing is saved.
StoreSkillDraft(e) ==
    LET k == edit[e].p IN
    /\ edit[e].phase = "loaded" /\ k \in Skill
    /\ StoreVersion(k, edit[e].at, edit[e].found, Fresh(e, {}, {}))
    /\ edit' = [edit EXCEPT ![e] = IF ver' = ver THEN Done ELSE [@ EXCEPT !.phase = "saving"]]
    /\ UNCHANGED <<row, shared, reviews, bytes>>

Touch(k, v) ==
    stained' = IF v \in Released(k) THEN stained \cup {<<k, v>>} ELSE stained

\* save_version: the old directory goes first.
RemoveBytes(e) ==
    LET k == edit[e].p IN
    /\ edit[e].phase = "saving"
    /\ bytes' = [bytes EXCEPT ![k][edit[e].at] = NoBytes]
    /\ edit' = [edit EXCEPT ![e].phase = "writing"]
    /\ Touch(k, edit[e].at)
    /\ UNCHANGED <<row, ver, shared, reviews>>

WriteBytes(e) ==
    LET k == edit[e].p IN
    /\ edit[e].phase = "writing"
    /\ bytes' = [bytes EXCEPT ![k][edit[e].at] = e]
    /\ edit' = [edit EXCEPT ![e] = Done]
    /\ Touch(k, edit[e].at)
    /\ UNCHANGED <<row, ver, shared, reviews>>

\* The broker does not answer or the api dies.
LoseBytes(e) ==
    /\ edit[e].phase \in {"saving", "writing"}
    /\ edit' = [edit EXCEPT ![e].phase = "lost"]
    /\ UNCHANGED <<tableVars, reviews, bytes>>

release_skill(k) == ReleaseRow(k) /\ UNCHANGED <<edit, bytes>>

\* Unlike an agent, a skill that becomes private forgets its groups.
share_skill(e, k, visibility, chosen) ==
    /\ \A g \in chosen : visibility = "group" => is_member(OwnerOf[k], g)
    /\ ShareRow(k, visibility, IF visibility = "group" THEN chosen ELSE {})
    /\ Once(e) /\ UNCHANGED bytes

submit_skill(r, k) ==
    /\ Live(k) /\ Submittable(k) > 0
    /\ submit(r, <<k, Submittable(k)>>)
    /\ UNCHANGED <<tableVars, edit, bytes>>

delete_skill(e, k) == DeleteRow(k) /\ Once(e) /\ UNCHANGED bytes

enable_skill(e, k, enabled) == EnableRow(k, enabled) /\ Once(e) /\ UNCHANGED bytes

================================================================================
