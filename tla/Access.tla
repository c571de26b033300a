-------------------------------- MODULE Access --------------------------------
(***************************************************************************)
(* Who may do what: accounts, logins behind the rate limit, and the groups *)
(* that logged-in owners and applicants change.                            *)
(***************************************************************************)
EXTENDS Accounts

vars == <<rateVars, memberVars, accountVars>>

AccessInit == RateInit /\ MemberInit /\ AccountsInit

GateStep == (\E k \in Token : CountHits(k) \/ RecordHit(k)) \/ WindowSlides

AccountStep ==
    \/ \E p \in Replica : CountAccounts(p) \/ CreateFirstAdmin(p)
    \/ \E u \in User, g \in groups \cup {NoGroup} : register(u, g)
    \/ \E k \in Token :
        \/ \E u \in User : ReadCredential(k, u) \/ SkipActive(k, u)
        \/ issue(k) \/ revoke(k)
        \/ \E u \in User, role \in Grantable : create_user(k, u, role)
        \/ \E u \in User, active \in BOOLEAN : set_active(k, u, active)
        \/ editing[k] # NoUser /\ \E role \in Grantable \cup {account[editing[k]].role} : update_profile(k, role)

\* The user of some live session.
Current(u) == \E k \in Token : resolve(k) /\ session[k].user = u

GroupStep ==
    \/ \E k \in Token, g \in Group : require_admin(k) /\ Exists(GroupOwner[g]) /\ create_group(g)
    \/ \E u \in User, g \in Group :
        Current(GroupOwner[g]) /\ Exists(u) /\ (add_member(u, g) \/ remove_member(u, g))
    \/ \E j \in JoinRequest : Current(j[1]) /\ (apply(j) \/ create_request(j))
    \/ \E j \in JoinRequest, approved \in BOOLEAN : Current(GroupOwner[j[2]]) /\ decide_join(j, approved)

AccessNext ==
    \/ GateStep /\ UNCHANGED <<memberVars, accountVars>>
    \/ AccountStep /\ UNCHANGED <<rateVars, memberVars>>
    \/ (\E m \in enrolling : Enroll(m)) /\ UNCHANGED rateVars
    \/ GroupStep /\ UNCHANGED <<rateVars, accountVars>>

AccessSpec == AccessInit /\ [][AccessNext]_vars

--------------------------------------------------------------------------------
(* Every variable is of its kind. *)
AccessTypeOK ==
    /\ MemberTypeOK
    /\ gate \in [Token -> GatePlace]
    /\ hits \in 0..Cardinality(Token) /\ peak \in 0..Cardinality(Token)
    /\ account \in [User -> [role : UserRole, active : BOOLEAN] \cup {NoAccount}]
    /\ booting \in [Replica -> {"starting", "empty", "up"}]
    /\ enrolling \subseteq User \X Group
    /\ session \in [Token -> [place : SessionPlace, user : User, role : UserRole] \cup {NoSession}]
    /\ editing \in [Token -> User \cup {NoUser}]
    /\ vouched \subseteq User /\ changed \subseteq Token

(* The window holds more logins than the limit only by those that were      *)
(* between counting and recording at once: allow counts and records in two  *)
(* round trips.                                                             *)
WindowPerConcurrency == hits > RateLimit => hits < RateLimit + peak

(* A session speaks for an account that is enabled and has the role the     *)
(* session says, unless an administrator changed it after the login read    *)
(* it: require_admin and require_reviewer look at the session only.         *)
SessionMatchesUnlessChanged ==
    \A k \in Token : resolve(k) /\ k \notin changed =>
        account[session[k].user] = [role |-> session[k].role, active |-> TRUE]

(* Nobody has a session whom no administrator, no configuration and no      *)
(* group owner's invite code answered for, however often he registers.      *)
SessionsAreVouched == \A k \in Token : resolve(k) => session[k].user \in vouched

(* Replicas that start together leave one first administrator, and none of  *)
(* them puts the row back that an administrator has changed since.          *)
BootstrapOnlyOnce ==
    [][\A p \in Replica : booting[p] # booting'[p] =>
        \A u \in User : Exists(u) => account'[u] = account[u]]_vars

(* A user has one pending request per group, although the roster is looked  *)
(* at one step before the row is inserted.                                  *)
OnePendingJoin ==
    \A i, j \in JoinRequest :
        i[1] = j[1] /\ i[2] = j[2] /\ joins[i] = "pending" /\ joins[j] = "pending" => i = j

(* Accounts, sessions and rosters are in order: rows of their kind, no      *)
(* session nobody answered for, one open request per applicant, and a       *)
(* window over its limit only by as many as came at once (register, login,  *)
(* apply, allow).                                                           *)
AccessInv ==
    AccessTypeOK /\ SessionsAreVouched /\ OnePendingJoin /\ WindowPerConcurrency

================================================================================
