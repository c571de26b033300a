-------------------------------- MODULE Catalog --------------------------------
(***************************************************************************)
(* Agents, skills, their reviews, the groups they are shared with and the  *)
(* runs that use them.  A submission resolves its references one kind      *)
(* after the other (submit_run in app/api/route/thread.py) and freezes     *)
(* them in the run's row; a worker loads what they name minutes later.     *)
(***************************************************************************)
EXTENDS SkillCatalog

CONSTANTS
    FirstName,                   \* the name a preset is created with
    Submission,                  \* calls of submit_run
    NoAgent                      \* a submission that names no agent

ASSUME FirstNamesAssumption == FirstName \in [Preset -> Name]

VARIABLE
    snap                         \* each submission: step, submitter, frozen references

catalogVars == <<memberVars, tableVars, reviews, edit, bytes, snap>>

Nothing == [step |-> "idle"]
Failed  == [step |-> "failed"]

Snap == [step : {"skills", "subs", "frozen"},
         user : User, agent : Ref \cup {NoAgent}, skills : SUBSET Ref, subs : SUBSET Ref]

\* Rows hold values of their columns, requests one of their steps, and no sequence
\* of versions outgrows its bound (app/preset/model.py).
CatalogTypeOK ==
    /\ MemberTypeOK /\ TableTypeOK /\ EditTypeOK /\ BytesTypeOK
    /\ snap \in [Submission -> Snap \cup {Nothing, Failed}]

CatalogInit ==
    /\ groups = Group /\ members = User \X Group
    /\ joins = [j \in JoinRequest |-> "none"]
    /\ TableInit /\ EditInit /\ BytesInit
    /\ snap = [s \in Submission |-> Nothing]

--------------------------------------------------------------------------------
\* resolve_reference: the agent's version and what that version brings along.
ResolveAgent(s, u, a) ==
    LET ref == resolve_agent(u, a) IN
    /\ snap[s] = Nothing /\ Live(a) /\ ref[2] > 0
    /\ snap' = [snap EXCEPT ![s] =
         [step |-> "skills", user |-> u, agent |-> ref,
          skills |-> ver[a][ref[2]].skills, subs |-> ver[a][ref[2]].subs]]

ResolveNoAgent(s, u) ==
    /\ snap[s] = Nothing
    /\ snap' = [snap EXCEPT ![s] = [step |-> "skills", user |-> u, agent |-> NoAgent,
                                    skills |-> {}, subs |-> {}]]

ResolveSkills(s, picks) ==
    LET x == snap[s] IN
    /\ x.step = "skills"
    /\ snap' = [snap EXCEPT ![s] = IF SkillsFit(x.user, x.skills, picks)
                 THEN [x EXCEPT !.step = "subs", !.skills = SkillRefs(x.user, x.skills, picks)]
                 ELSE Nothing]

ResolveSubs(s, picks) ==
    LET x == snap[s] IN
    /\ x.step = "subs"
    /\ snap' = [snap EXCEPT ![s] = IF SubsFit(x.user, x.subs, picks)
                 THEN [x EXCEPT !.step = "frozen", !.subs = SubRefs(x.user, x.subs, picks)]
                 ELSE Nothing]

\* align and compile_subagents read by frozen version, whoever may see it by now.
Assemble(s) ==
    LET x == snap[s] IN
    /\ x.step = "frozen"
    /\ snap' = [snap EXCEPT ![s] =
                 IF \A ref \in x.skills : bytes[ref[1]][ref[2]] # NoBytes
                   THEN Nothing ELSE Failed]

--------------------------------------------------------------------------------
\* The groups exist and everybody is in them; who stays is the owner's choice.
GroupsChange ==
    /\ \E e \in Edit, u \in User, g \in Group :
        Once(e) /\ (add_member(u, g) \/ remove_member(u, g))
    /\ UNCHANGED <<tableVars, reviews, bytes, snap>>

\* At most one reference of each kind is picked at a time.
Few(S) == {{}} \cup {{x} : x \in S}

AgentsWritten ==
    /\ \/ \E e \in Edit, a \in Agent,
            ks \in Few({k \in Skill : Live(k)}), as \in Few({b \in Agent : Live(b)}) :
            create_agent(e, a, FirstName[a], ks, as)
       \/ \E e \in Edit, a \in Agent,
            ks \in Few({k \in Skill : Live(k)}), as \in Few({b \in Agent : Live(b)}) :
            LoadAgentDraft(e, a, ks, as)
       \/ \E e \in Edit : StoreAgentDraft(e)
       \/ \E a \in Agent : release_agent(a)
       \/ \E a \in Agent, r \in Review : submit_agent(r, a)
    /\ UNCHANGED <<memberVars, bytes, snap>>

SkillsWritten ==
    /\ \/ \E e \in Edit, k \in Skill : create_skill(e, k, FirstName[k])
       \/ \E e \in Edit, k \in Skill : LoadSkillDraft(e, k)
       \/ \E e \in Edit : StoreSkillDraft(e) \/ RemoveBytes(e) \/ WriteBytes(e) \/ LoseBytes(e)
       \/ \E k \in Skill : release_skill(k)
       \/ \E k \in Skill, r \in Review : submit_skill(r, k)
    /\ UNCHANGED <<memberVars, snap>>

\* Sharing, renaming and deleting by the author, switching by an administrator.
PresetsMove ==
    /\ \/ /\ \E e \in Edit, a \in Agent :
                \/ delete_agent(e, a)
                \/ \E n \in Name : update_meta(e, a, n)
                \/ \E x \in {"private", "group"}, gs \in SUBSET Group : share_agent(e, a, x, gs)
                \/ \E on \in BOOLEAN : enable_agent(e, a, on)
          /\ UNCHANGED bytes
       \/ \E e \in Edit, k \in Skill :
            \/ delete_skill(e, k)
            \/ \E x \in {"private", "group"}, gs \in SUBSET Group : share_skill(e, k, x, gs)
            \/ \E on \in BOOLEAN : enable_skill(e, k, on)
    /\ UNCHANGED <<memberVars, snap>>

\* decide_review of app/api/route/review.py.
ReviewersDecide ==
    /\ \E r \in Review, approved \in BOOLEAN : decide(r, approved)
    /\ UNCHANGED <<memberVars, tableVars, edit, bytes, snap>>

RunsUse ==
    /\ \E s \in Submission :
        \/ \E u \in User, a \in Agent : ResolveAgent(s, u, a)
        \/ \E u \in User : ResolveNoAgent(s, u)
        \/ \E ks \in Few({k \in Skill : Live(k)}) : ResolveSkills(s, ks)
        \/ \E as \in Few({a \in Agent : Live(a)}) : ResolveSubs(s, as)
        \/ Assemble(s)
    /\ UNCHANGED <<memberVars, tableVars, reviews, edit, bytes>>

CatalogNext ==
    GroupsChange \/ AgentsWritten \/ SkillsWritten \/ PresetsMove \/ ReviewersDecide \/ RunsUse

CatalogSpec == CatalogInit /\ [][CatalogNext]_catalogVars

--------------------------------------------------------------------------------
\* The row of a released version changes only when a request stores it that loaded it
\* while it was a draft (write_draft in app/preset/repository.py and skill.py): nothing
\* that starts after the release can reach it.
FrozenUnlessStraddled == [][
    \A p \in Preset : \A v \in Released(p) : ver'[p][v] # ver[p][v] =>
        \E e \in Edit : /\ edit[e].phase = "loaded"
                        /\ edit[e].p = p /\ edit[e].at = v /\ edit[e].asDraft
    ]_catalogVars

\* A released skill version without files has an upload still on its way or lost
\* between the row and the broker (create_skill and write_draft in app/api/route/skill.py).
FilesUnlessLost == \A k \in Skill : \A v \in Released(k) :
    bytes[k][v] = NoBytes => \E e \in Edit :
        /\ edit[e].phase \in {"saving", "writing", "lost"}
        /\ edit[e].p = k /\ edit[e].at = v

\* The skills frozen into a run have different names, so that aligning them into one
\* directory cannot fail (_duplicate_name in skill_reference.py, _desired_files in the broker).
OneDirectoryPerSkill == \A s \in Submission :
    snap[s].step = "frozen" =>
        DistinctNames(snap[s].skills)

\* A subagent of a run has no subagents of its own, unless its frozen version was
\* changed after its release (resolve_subagent_references).
FlatUnlessStained == \A s \in Submission :
    snap[s].step = "frozen" =>
        \A ref \in snap[s].subs : ver[ref[1]][ref[2]].subs = {} \/ <<ref[1], ref[2]>> \in stained

\* Whatever reaches the reviewers is a released version: a draft cannot enter the
\* catalog (submit_review of agents and skills, _latest_approved).
ReviewsAreOfReleased == \A r \in Review :
    reviews[r] # NoReview => reviews[r].target[2] \in Released(reviews[r].target[1])

\* Two reviewers cannot overrule each other: a decided review keeps its verdict
\* (decide in app/preset/review.py).
VerdictStands == [][
    \A r \in Review : reviews[r] # NoReview /\ reviews[r].status # "pending" =>
        reviews'[r] = reviews[r]
    ]_catalogVars

\* The tables are well formed, and nothing but released versions is under review or
\* approved (app/preset/model.py, submit_review).
CatalogInv == CatalogTypeOK /\ ReviewsAreOfReleased

\* What a run was given can be put together in its workspace: no two skills in one
\* directory, no subagents below subagents (resolve_skill_references and
\* resolve_subagent_references, read at different moments of one submission).
ResolvedFits == OneDirectoryPerSkill /\ FlatUnlessStained

\* What was published stays as it was: the text of a release and the verdict on it
\* (write_draft, decide).
PublishedStands == FrozenUnlessStraddled /\ VerdictStands

================================================================================
