------------------------------ MODULE AgentCatalog ------------------------------
(***************************************************************************)
(* Agents: app/preset/repository.py behind app/api/route/agent.py.  The    *)
(* routes answer 404 for anybody but the author, so the author of an agent *)
(* is the actor of every action but the reading ones.                      *)
(*                                                                         *)
(* Reads inside one request happen in one step unless something is written *)
(* in between; a draft is written in two steps, because the transaction of *)
(* write_draft loads the rows and stores them later.                       *)
(***************************************************************************)
EXTENDS PresetTable

VARIABLE edit                    \* each writing request: phase, preset, version, loaded row, references

Idle == [phase |-> "idle"]
Done == [phase |-> "done"]

EditRow == [phase : {"loaded", "saving", "writing", "lost"}, p : Preset, at : Nat,
            found : BOOLEAN, asDraft : BOOLEAN, skills : SUBSET Ref, subs : SUBSET Ref]

EditTypeOK == edit \in [Edit -> EditRow \cup {Idle, Done}]

\* A request that is answered in one step.
Once(e) == edit[e] = Idle /\ edit' = [edit EXCEPT ![e] = Done]

EditInit   == edit = [e \in Edit |-> Idle]

SharedWith(u, p) == row[p].visibility = "group" /\ \E g \in shared[p] : is_member(u, g)

\* The author and the groups reach released versions, everybody the approved ones.
FirstHand(u, p) == (OwnerOf[p] = u \/ SharedWith(u, p)) /\ Released(p) # {}
InCatalog(p)    == row[p].enabled /\ Approved(p) # {}

\* _available_statement of agents: the approved version wins.  0 if there is none.
AgentVersion(u, a) ==
    CASE Live(a) /\ InCatalog(a)                     -> Newest(Approved(a))
      [] Live(a) /\ ~ InCatalog(a) /\ FirstHand(u, a) -> Newest(Released(a))
      [] OTHER                                       -> 0

resolve_agent(u, a) == <<a, AgentVersion(u, a), row[a].name>>

\* _available_statement of skills: the author's and the group's version wins.
SkillVersion(u, k) ==
    CASE Live(k) /\ FirstHand(u, k)                   -> Newest(Released(k))
      [] Live(k) /\ ~ FirstHand(u, k) /\ InCatalog(k) -> Newest(Approved(k))
      [] OTHER                                       -> 0

resolve_skill(u, k) == <<k, SkillVersion(u, k), row[k].name>>

DistinctNames(refs) == \A x, y \in refs : x[3] = y[3] => x = y

\* resolve_skill_references: picks join what the agent brought along; empty picks are not checked.
SkillRefs(u, bundled, picks) == bundled \cup {resolve_skill(u, k) : k \in picks}
\* Mutant: the collision check looks at the picks only.
SkillsFitPicks(u, bundled, picks) ==
    /\ \A k \in picks : SkillVersion(u, k) > 0
    /\ DistinctNames(SkillRefs(u, {}, picks))
SkillsFit(u, bundled, picks) ==
    /\ \A k \in picks : SkillVersion(u, k) > 0
    /\ picks # {} => DistinctNames(SkillRefs(u, bundled, picks))

\* resolve_subagent_references: a pick may not have subagents of its own.
SubRefs(u, bundled, picks) == bundled \cup {resolve_agent(u, a) : a \in picks}
SubsFit(u, bundled, picks) ==
    /\ \A a \in picks : AgentVersion(u, a) > 0 /\ ver[a][AgentVersion(u, a)].subs = {}
    /\ picks # {} => DistinctNames(SubRefs(u, bundled, picks))

--------------------------------------------------------------------------------
create_agent(e, a, n, skills, subs) ==
    LET u == OwnerOf[a] IN
    /\ edit[e] = Idle /\ NameFree(Agent, a, n)
    /\ SkillsFit(u, {}, skills) /\ SubsFit(u, {}, subs)
    /\ CreateRow(a, n, Fresh(e, SkillRefs(u, {}, skills), SubRefs(u, {}, subs)))
    /\ edit' = [edit EXCEPT ![e] = Done]

update_meta(e, a, n) ==
    /\ Live(a) /\ NameFree(Agent, a, n)
    /\ row' = [row EXCEPT ![a].name = n]
    /\ Once(e)
    /\ UNCHANGED <<ver, shared, stained, reviews>>

\* Mutant: the query for the draft forgets its status condition.
LatestOf(p) == IF ver[p] = <<>> THEN {} ELSE {Len(ver[p])}

\* The rows write_draft loads: the draft, or else the highest number.
DraftOf(p) == DraftIn(p)

Load(e, p, skills, subs) ==
    LET found == DraftOf(p) # {}
        v     == IF found THEN Max(DraftOf(p)) ELSE Len(ver[p]) + 1 IN
    /\ edit[e] = Idle /\ Live(p) /\ v <= Bound[p]
    /\ edit' = [edit EXCEPT ![e] =
         [phase |-> "loaded", p |-> p, at |-> v, found |-> found,
          asDraft |-> found => ~ ver[p][v].released, skills |-> skills, subs |-> subs]]
    /\ UNCHANGED <<tableVars, reviews>>

LoadAgentDraft(e, a, skills, subs) ==
    LET u == OwnerOf[a] IN
    /\ Live(a) /\ SkillsFit(u, {}, skills) /\ SubsFit(u, {}, subs)
    /\ Load(e, a, SkillRefs(u, {}, skills), SubRefs(u, {}, subs))

StoreAgentDraft(e) ==
    /\ edit[e].phase = "loaded" /\ edit[e].p \in Agent
    /\ StoreVersion(edit[e].p, edit[e].at, edit[e].found, Fresh(e, edit[e].skills, edit[e].subs))
    /\ edit' = [edit EXCEPT ![e] = Done]
    /\ UNCHANGED <<row, shared, reviews>>

release_agent(a) == ReleaseRow(a) /\ UNCHANGED edit

\* The rows survive a return to private; only groups the author is in are accepted.
share_agent(e, a, visibility, chosen) ==
    /\ \A g \in chosen : is_member(OwnerOf[a], g)
    /\ ShareRow(a, visibility, chosen)
    /\ Once(e)

\* Mutant: the newest version is submitted, be it released or not.
NewestVersion(p) == Len(ver[p])

\* The version submit_review names.
Submittable(p) == Newest(Released(p))

submit_agent(r, a) ==
    /\ Live(a) /\ Submittable(a) > 0
    /\ submit(r, <<a, Submittable(a)>>)
    /\ UNCHANGED <<tableVars, edit>>

delete_agent(e, a) == DeleteRow(a) /\ Once(e)

enable_agent(e, a, enabled) == EnableRow(a, enabled) /\ Once(e)

================================================================================
