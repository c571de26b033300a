------------------------------- MODULE Accounts -------------------------------
(***************************************************************************)
(* Accounts and logins: rows of `users` (app/user), the sessions in Redis  *)
(* (app/auth/session.py), the first administrator (app/auth/bootstrap.py), *)
(* registration and login (app/api/route/auth.py) and the administrator's  *)
(* endpoints (app/api/route/admin.py).  A session copies the role of the   *)
(* account at the login and is the only thing later requests look at.      *)
(***************************************************************************)
EXTENDS RateGate, Membership

CONSTANTS
    Replica,                     \* api processes that start on an empty database
    FirstAdmin,                  \* ADMIN_NAME
    NoUser, NoGroup,
    Grantable                    \* roles an administrator hands out

UserRole == {"admin", "reviewer", "teacher", "student"}

ASSUME AccountsAssumption ==
    FirstAdmin \in User /\ NoUser \notin User /\ NoGroup \notin Group /\ Grantable \subseteq UserRole

VARIABLES
    account,                     \* by user: the row, role "none" before it exists
    booting,                     \* by replica: ensure_first_admin
    enrolling,                   \* registrations that still have to join the roster
    session,                     \* by token: what Redis holds
    editing,                     \* by token: the account update_user is half through with
    vouched,                     \* history: users somebody answered for
    changed                      \* history: tokens whose account changed since the login read it

accountVars == <<account, booting, enrolling, session, editing, vouched, changed>>

NoAccount == [role |-> "none", active |-> FALSE]
NoSession == [place |-> "none", user |-> NoUser, role |-> "none"]

SessionPlace == {"none", "read", "live", "over"}

AccountsInit ==
    /\ account = [u \in User |-> NoAccount]
    /\ booting = [p \in Replica |-> "starting"]
    /\ enrolling = {}
    /\ session = [k \in Token |-> NoSession]
    /\ editing = [k \in Token |-> NoUser]
    /\ vouched = {} /\ changed = {}

Exists(u) == account[u].role # "none"
count     == Cardinality({u \in User : Exists(u)})
Serving   == \E p \in Replica : booting[p] = "up"

\* The row of u; create raises IntegrityError where there is one.
Row(u, role, active) == account' = [account EXCEPT ![u] = [role |-> role, active |-> active]]

\* Logins that have read the row of u.
Logins(u) == {k \in Token : session[k].user = u}

--------------------------------------------------------------------------------
(* ensure_first_admin *)

CountAccounts(p) ==
    /\ booting[p] = "starting"
    /\ booting' = [booting EXCEPT ![p] = IF count > 0 THEN "up" ELSE "empty"]
    /\ UNCHANGED <<account, enrolling, session, editing, vouched, changed>>

\* Mutant: the row is written over.
CreateAdminAgain(p) ==
    /\ booting[p] = "empty"
    /\ Row(FirstAdmin, "admin", TRUE)
    /\ vouched' = vouched \cup {FirstAdmin}
    /\ booting' = [booting EXCEPT ![p] = "up"]
    /\ UNCHANGED <<enrolling, session, editing, changed>>

\* The row may have appeared since: another replica has been here.
CreateFirstAdmin(p) ==
    /\ booting[p] = "empty"
    /\ IF Exists(FirstAdmin)
       THEN UNCHANGED <<account, vouched>>
       ELSE Row(FirstAdmin, "admin", TRUE) /\ vouched' = vouched \cup {FirstAdmin}
    /\ booting' = [booting EXCEPT ![p] = "up"]
    /\ UNCHANGED <<enrolling, session, editing, changed>>

--------------------------------------------------------------------------------
(* register *)

\* With the invite code of a group the account is active at once.
register(u, g) ==
    /\ Serving /\ ~ Exists(u)
    /\ Row(u, "student", g # NoGroup)
    /\ enrolling' = IF g = NoGroup THEN enrolling ELSE enrolling \cup {<<u, g>>}
    /\ vouched' = IF g = NoGroup THEN vouched ELSE vouched \cup {u}
    /\ UNCHANGED <<booting, session, editing, changed>>

\* The roster is a second transaction, which may be lost.
Enroll(m) ==
    /\ m \in enrolling
    /\ enrolling' = enrolling \ {m}
    /\ add_member(m[1], m[2]) \/ UNCHANGED memberVars
    /\ UNCHANGED <<account, booting, session, editing, vouched, changed>>

--------------------------------------------------------------------------------
(* login and logout *)

\* Mutant: a disabled account logs in.
ReadAnyCredential(k, u) ==
    /\ Serving /\ gate[k] = "in" /\ session[k].place = "none" /\ Exists(u)
    /\ session' = [session EXCEPT ![k] = [place |-> "read", user |-> u, role |-> account[u].role]]
    /\ UNCHANGED <<account, booting, enrolling, editing, vouched, changed>>

\* find_by_identifier, the password and is_active.
ReadCredential(k, u) ==
    /\ Serving /\ gate[k] = "in" /\ session[k].place = "none" /\ account[u].active
    /\ session' = [session EXCEPT ![k] = [place |-> "read", user |-> u, role |-> account[u].role]]
    /\ UNCHANGED <<account, booting, enrolling, editing, vouched, changed>>

issue(k) ==
    /\ session[k].place = "read"
    /\ session' = [session EXCEPT ![k].place = "live"]
    /\ UNCHANGED <<account, booting, enrolling, editing, vouched, changed>>

\* resolve of require_user: what Redis holds, and nothing else.
resolve(k) == session[k].place = "live"

\* logout, or the key expires, or Redis restarts.  A session cannot come back.
revoke(k) ==
    /\ resolve(k)
    /\ session' = [session EXCEPT ![k].place = "over"]
    /\ UNCHANGED <<account, booting, enrolling, editing, vouched, changed>>

--------------------------------------------------------------------------------
(* The administrator's endpoints *)

require_admin(k) == resolve(k) /\ session[k].role = "admin" /\ editing[k] = NoUser

create_user(k, u, role) ==
    /\ require_admin(k) /\ ~ Exists(u)
    /\ Row(u, role, TRUE)
    /\ vouched' = vouched \cup {u}
    /\ UNCHANGED <<booting, enrolling, session, editing, changed>>

\* update_user, first transaction: set_active, when the request names it.
set_active(k, u, active) ==
    /\ require_admin(k) /\ Exists(u)
    /\ Row(u, account[u].role, active)
    /\ vouched' = IF active THEN vouched \cup {u} ELSE vouched
    /\ changed' = IF active = account[u].active THEN changed ELSE changed \cup Logins(u)
    /\ editing' = [editing EXCEPT ![k] = u]
    /\ UNCHANGED <<booting, enrolling, session>>

\* Without is_active the request begins here.
SkipActive(k, u) ==
    /\ require_admin(k) /\ Exists(u)
    /\ editing' = [editing EXCEPT ![k] = u]
    /\ UNCHANGED <<account, booting, enrolling, session, vouched, changed>>

\* Second transaction: the role, or what else the request names.
update_profile(k, role) ==
    LET u == editing[k] IN
    /\ u # NoUser
    /\ Row(u, role, account[u].active)
    /\ changed' = IF role = account[u].role THEN changed ELSE changed \cup Logins(u)
    /\ editing' = [editing EXCEPT ![k] = NoUser]
    /\ UNCHANGED <<booting, enrolling, session, vouched>>

================================================================================
