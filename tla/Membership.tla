------------------------------- MODULE Membership -------------------------------
(***************************************************************************)
(* Research groups, their rosters and the requests to join them            *)
(* (app/group, app/api/route/group.py).  An administrator creates a group  *)
(* and names its owner, and only that user reaches add_member,             *)
(* remove_member and decide: the routes answer 404 to everybody else, so   *)
(* the owner is the actor of those actions.  The third part of a request's *)
(* key is the number of the attempt: a rejected applicant may apply again. *)
(***************************************************************************)
EXTENDS Naturals

CONSTANTS User, Group, GroupOwner, MaxJoin

ASSUME GroupsHaveOwners == GroupOwner \in [Group -> User] /\ MaxJoin \in Nat

VARIABLES
    groups,                      \* rows of `groups`
    members,                     \* rows of `user_groups`: <<user, group>>
    joins                        \* `group_join_requests` by <<user, group, attempt>>

memberVars == <<groups, members, joins>>

JoinRequest == User \X Group \X (1..MaxJoin)

\* "checked" is a request that passed is_member and is not inserted yet.
JoinStatus == {"none", "checked", "pending", "approved", "rejected"}

MemberTypeOK ==
    /\ groups \subseteq Group
    /\ members \subseteq User \X Group
    /\ joins \in [JoinRequest -> JoinStatus]

MemberInit ==
    /\ groups = {}
    /\ members = {}
    /\ joins = [j \in JoinRequest |-> "none"]

\* The group and its owner's place in the roster are one transaction.
create_group(g) ==
    /\ g \notin groups
    /\ groups' = groups \cup {g}
    /\ members' = members \cup {<<GroupOwner[g], g>>}
    /\ UNCHANGED joins

is_member(u, g) == <<u, g>> \in members

\* INSERT ... ON CONFLICT DO NOTHING.
add_member(u, g) ==
    /\ g \in groups
    /\ members' = members \cup {<<u, g>>}
    /\ UNCHANGED <<groups, joins>>

\* How the path spells an id.  The route compares it with the owner's id as text, which is
\* "hex"; the repository reads every spelling of a UUID.
Spelling == {"hex", "other"}

remove_member(u, g) ==
    /\ g \in groups
    /\ \E spelling \in Spelling : ~ (spelling = "hex" /\ u = GroupOwner[g])
    /\ members' = members \ {<<u, g>>}
    /\ UNCHANGED <<groups, joins>>

\* apply: the roster is looked at first, the row is inserted in a later step.
apply(j) ==
    /\ joins[j] = "none" /\ j[2] \in groups
    /\ ~ is_member(j[1], j[2])
    /\ joins' = [joins EXCEPT ![j] = "checked"]
    /\ UNCHANGED <<groups, members>>

\* The partial unique index admits one pending request of a user per group.
PendingJoin(u, g) == \E i \in 1..MaxJoin : joins[<<u, g, i>>] = "pending"

\* Mutant: without the index.
create_request_anyway(j) ==
    /\ joins[j] = "checked"
    /\ joins' = [joins EXCEPT ![j] = "pending"]
    /\ UNCHANGED <<groups, members>>

create_request(j) ==
    /\ joins[j] = "checked"
    /\ joins' = [joins EXCEPT ![j] =
                    IF PendingJoin(j[1], j[2]) THEN "none" ELSE "pending"]
    /\ UNCHANGED <<groups, members>>

\* The verdict and the new member are one transaction, on a pending row only.
decide_join(j, approved) ==
    /\ joins[j] = "pending"
    /\ joins' = [joins EXCEPT ![j] = IF approved THEN "approved" ELSE "rejected"]
    /\ members' = IF approved THEN members \cup {<<j[1], j[2]>>} ELSE members
    /\ UNCHANGED groups

================================================================================
