---------------------------- MODULE AccessProofs ----------------------------
(***************************************************************************)
(* Who may do what, proved for every set of users, groups, logins and      *)
(* replicas.  The argument has three parts, one for each of the modules    *)
(* that Access composes: the window of the rate limit, the rosters, and    *)
(* the accounts with the sessions that copy them.                          *)
(***************************************************************************)
EXTENDS Access, FiniteSetTheorems, TLAPS

--------------------------------------------------------------------------------
(* The rate limit *)

Admitted == {k \in Token : gate[k] = "in"}

GateKinds == gate \in [Token -> GatePlace] /\ hits \in Nat /\ peak \in 0..Cardinality(Token)

\* Who is in the window came through the gate, and those between counting and
\* recording will not fill it beyond what the peak accounts for.
Window ==
    /\ hits <= Cardinality(Admitted)
    /\ hits + Cardinality(Counted) < RateLimit + peak

GateInv == GateKinds /\ Window

\* Logins at one place of the gate are finitely many.
LEMMA GateSets ==
  /\ Cardinality(Token) \in Nat
  /\ \A S \in SUBSET Token :
       IsFiniteSet(S) /\ Cardinality(S) \in Nat /\ Cardinality(S) <= Cardinality(Token)
BY RateAssumption, FS_Subset, FS_CardinalityType

\* A login that moves changes the sets of its two places by itself.
LEMMA PassEffect ==
  ASSUME GateKinds, NEW k \in Token, NEW place \in GatePlace, Pass(k, place), gate[k] # place
  PROVE  /\ gate' \in [Token -> GatePlace]
         /\ Counted' = IF place = "counted" THEN Counted \cup {k} ELSE Counted \ {k}
         /\ Admitted' = IF place = "in" THEN Admitted \cup {k} ELSE Admitted \ {k}
BY DEF GateKinds, GatePlace, Pass, Counted, Admitted

\* CountHits keeps the window: below the limit, and the peak has room for one more.
LEMMA CountHitsKeeps ==
  ASSUME GateInv, NEW k \in Token, CountHits(k)
  PROVE  GateInv'
<1> DEFINE c == Cardinality(Counted)
<1>1. /\ GateKinds /\ Window
      /\ Counted \subseteq Token /\ Admitted \subseteq Token
      /\ k \notin Counted /\ k \notin Admitted
      /\ gate[k] = "new"
  BY DEF GateInv, CountHits, Counted, Admitted
<1>2. /\ c \in Nat /\ Cardinality(Admitted) \in Nat /\ Cardinality(Token) \in Nat
      /\ IsFiniteSet(Counted)
  BY <1>1, GateSets
<1>3. CASE Fits
  <2>1. Pass(k, "counted") /\ hits' = hits /\ peak' = IF c + 1 > peak THEN c + 1 ELSE peak
    BY <1>3 DEF CountHits
  <2>2. /\ gate' \in [Token -> GatePlace]
        /\ Counted' = Counted \cup {k} /\ Admitted' = Admitted \ {k}
    BY <1>1, <2>1, PassEffect DEF GatePlace
  <2>3. Admitted' = Admitted /\ Counted \cup {k} \subseteq Token
    BY <1>1, <2>2
  <2>4. Cardinality(Counted') = c + 1 /\ c + 1 <= Cardinality(Token)
    BY <1>1, <1>2, <2>2, <2>3, GateSets, FS_AddElement
  <2>5. hits < RateLimit /\ RateLimit \in Nat
    BY <1>3, RateAssumption DEF Fits
  <2>6. Window'
    BY <1>1, <1>2, <2>1, <2>3, <2>4, <2>5 DEF Window, GateKinds
  <2>7. GateKinds'
    BY <1>1, <1>2, <2>1, <2>2, <2>4 DEF GateKinds
  <2>8. QED
    BY <2>6, <2>7 DEF GateInv
<1>4. CASE ~ Fits
  <2>1. Pass(k, "refused") /\ hits' = hits /\ peak' = peak
    BY <1>4 DEF CountHits
  <2>2. /\ gate' \in [Token -> GatePlace]
        /\ Counted' = Counted \ {k} /\ Admitted' = Admitted \ {k}
    BY <1>1, <2>1, PassEffect DEF GatePlace
  <2>3. Counted' = Counted /\ Admitted' = Admitted
    BY <1>1, <2>2
  <2>4. QED
    BY <1>1, <2>1, <2>2, <2>3 DEF GateInv, GateKinds, Window
<1>5. QED
  BY <1>3, <1>4

\* RecordHit turns one that was counted into an entry of the window.
LEMMA RecordHitKeeps ==
  ASSUME GateInv, NEW k \in Token, RecordHit(k)
  PROVE  GateInv'
<1>1. /\ GateKinds /\ Window
      /\ Counted \subseteq Token /\ Admitted \subseteq Token
      /\ k \in Counted /\ k \notin Admitted
      /\ gate[k] = "counted"
      /\ Pass(k, "in") /\ hits' = hits + 1 /\ peak' = peak
  BY DEF GateInv, RecordHit, Counted, Admitted
<1>2. /\ Cardinality(Counted) \in Nat /\ Cardinality(Admitted) \in Nat
      /\ IsFiniteSet(Counted) /\ IsFiniteSet(Admitted)
  BY <1>1, GateSets
<1>3. /\ gate' \in [Token -> GatePlace]
      /\ Counted' = Counted \ {k} /\ Admitted' = Admitted \cup {k}
  BY <1>1, PassEffect DEF GatePlace
<1>4. Cardinality(Counted') = Cardinality(Counted) - 1
  BY <1>1, <1>2, <1>3, FS_RemoveElement
<1>5. Cardinality(Admitted') = Cardinality(Admitted) + 1
  BY <1>1, <1>2, <1>3, FS_AddElement
<1>6. QED
  BY <1>1, <1>2, <1>3, <1>4, <1>5, RateAssumption, GateSets DEF GateInv, GateKinds, Window

\* When an entry leaves the window there is room for one more; in an empty window the
\* requests on the way are all that counts.
LEMMA WindowSlidesKeeps ==
  ASSUME GateInv, WindowSlides
  PROVE  GateInv'
<1>1. /\ gate' = gate /\ hits > 0 /\ hits' = hits - 1
      /\ peak' = IF hits' = 0 THEN Cardinality(Counted) ELSE peak
      /\ Counted' = Counted /\ Admitted' = Admitted
      /\ Counted \subseteq Token /\ Admitted \subseteq Token
  BY DEF WindowSlides, Counted, Admitted
<1>2. /\ Cardinality(Counted) \in 0..Cardinality(Token) /\ Cardinality(Admitted) \in Nat
  BY <1>1, GateSets
<1>3. QED
  BY <1>1, <1>2, RateAssumption DEF GateInv, GateKinds, Window

\* The gate starts empty.
LEMMA GateInitially == RateInit => GateInv
<1> SUFFICES ASSUME RateInit PROVE GateInv
  OBVIOUS
<1>1. Counted = {} /\ Admitted = {}
  BY DEF RateInit, Counted, Admitted
<1>2. Cardinality(Counted) = 0 /\ Cardinality(Admitted) = 0
  BY <1>1, FS_EmptySet
<1>3. QED
  BY <1>2, RateAssumption, GateSets DEF RateInit, GateInv, GateKinds, GatePlace, Window

\* Every step of the gate, and every step of the others, keeps the window.
LEMMA GateKeeps ==
  ASSUME GateInv, GateStep \/ UNCHANGED rateVars
  PROVE  GateInv'
<1>1. CASE UNCHANGED rateVars
  BY <1>1 DEF rateVars, GateInv, GateKinds, Window, Counted, Admitted
<1>2. CASE GateStep
  BY <1>2, CountHitsKeeps, RecordHitKeeps, WindowSlidesKeeps DEF GateStep
<1>3. QED
  BY <1>1, <1>2

--------------------------------------------------------------------------------
(* The rosters *)

RosterInv == MemberTypeOK /\ OnePendingJoin

\* No group, no roster.
LEMMA RosterInitially == MemberInit => RosterInv
BY DEF MemberInit, RosterInv, MemberTypeOK, JoinStatus, OnePendingJoin

\* Groups and members leave the requests to join alone.
LEMMA RosterKeeps ==
  ASSUME RosterInv, NEW u \in User, NEW g \in Group,
         create_group(g) \/ add_member(u, g) \/ remove_member(u, g) \/ UNCHANGED memberVars
  PROVE  RosterInv'
<1>1. joins' = joins
  BY DEF create_group, add_member, remove_member, memberVars
<1>2. MemberTypeOK'
  BY <1>1, GroupsHaveOwners
     DEF RosterInv, MemberTypeOK, create_group, add_member, remove_member, memberVars
<1>3. OnePendingJoin'
  BY <1>1 DEF RosterInv, OnePendingJoin
<1>4. QED
  BY <1>2, <1>3 DEF RosterInv

\* A request to join: the index looks at the rows when it is inserted.
LEMMA JoinKeeps ==
  ASSUME RosterInv, NEW j \in JoinRequest,
         apply(j) \/ create_request(j) \/ decide_join(j, TRUE) \/ decide_join(j, FALSE)
  PROVE  RosterInv'
<1>1. /\ j[1] \in User /\ j[2] \in Group /\ j[3] \in 1..MaxJoin /\ j = <<j[1], j[2], j[3]>>
      /\ joins \in [JoinRequest -> JoinStatus]
  BY DEF JoinRequest, RosterInv, MemberTypeOK
<1>2. groups' = groups /\ members \subseteq members' /\ members' \subseteq User \X Group
  BY <1>1 DEF apply, create_request, decide_join, RosterInv, MemberTypeOK
<1>3. PICK s \in JoinStatus :
        /\ joins' = [joins EXCEPT ![j] = s]
        /\ s = "pending" => ~ PendingJoin(j[1], j[2])
  BY DEF apply, create_request, decide_join, JoinStatus
<1>4. MemberTypeOK'
  BY <1>1, <1>2, <1>3 DEF RosterInv, MemberTypeOK
<1>6. OnePendingJoin'
  <2> SUFFICES ASSUME NEW h \in JoinRequest, NEW i \in JoinRequest, h[1] = i[1], h[2] = i[2],
                      joins'[h] = "pending", joins'[i] = "pending", h # i
               PROVE  FALSE
    BY DEF OnePendingJoin
  <2>1. \A x \in JoinRequest : joins[x] = "pending" /\ x[1] = j[1] /\ x[2] = j[2]
                               => PendingJoin(j[1], j[2])
    <3> SUFFICES ASSUME NEW x \in JoinRequest, joins[x] = "pending", x[1] = j[1], x[2] = j[2]
                 PROVE  PendingJoin(j[1], j[2])
      OBVIOUS
    <3>1. x = <<j[1], j[2], x[3]>> /\ x[3] \in 1..MaxJoin
      BY DEF JoinRequest
    <3>2. QED
      BY <3>1 DEF PendingJoin
  <2>2. h = j \/ i = j
    BY <1>1, <1>3 DEF RosterInv, OnePendingJoin
  <2>3. s = "pending"
    BY <1>1, <1>3, <2>2
  <2>4. QED
    BY <1>1, <1>3, <2>1, <2>2, <2>3
<1>7. QED
  BY <1>4, <1>6 DEF RosterInv

--------------------------------------------------------------------------------
(* Accounts and sessions *)

AccountRow == [role : UserRole, active : BOOLEAN]
SessionRow == [place : SessionPlace, user : User, role : UserRole]

AccountKinds ==
    /\ account \in [User -> AccountRow \cup {NoAccount}]
    /\ booting \in [Replica -> {"starting", "empty", "up"}]
    /\ enrolling \subseteq User \X Group
    /\ session \in [Token -> SessionRow \cup {NoSession}]
    /\ editing \in [Token -> User \cup {NoUser}]
    /\ vouched \subseteq User /\ changed \subseteq Token

\* A login that has read the row, whether the session is issued yet or not.
LoggedIn(k) == session[k].place \in {"read", "live"}

\* An account is only enabled by somebody who answers for its user.
EnabledIsVouched == \A u \in User : account[u].active => u \in vouched

LoginsAreVouched == \A k \in Token : LoggedIn(k) => session[k].user \in vouched

\* The session matches from the moment the login reads the row, not only once issued:
\* an administrator may change the account in between.
LoginMatches ==
    \A k \in Token : LoggedIn(k) /\ k \notin changed =>
        account[session[k].user] = [role |-> session[k].role, active |-> TRUE]

AccountInv == AccountKinds /\ EnabledIsVouched /\ LoginsAreVouched /\ LoginMatches

\* What every transaction on a row has in common: the new row is well formed, whoever
\* it enables is vouched for, and the logins that read another row are marked.
LEMMA RowKeeps ==
  ASSUME AccountInv, NEW u \in User, NEW row \in AccountRow \cup {NoAccount},
         account' = [account EXCEPT ![u] = row],
         session' = session, booting' \in [Replica -> {"starting", "empty", "up"}],
         enrolling' \subseteq User \X Group, editing' \in [Token -> User \cup {NoUser}],
         vouched \subseteq vouched', vouched' \subseteq User,
         changed \subseteq changed', changed' \subseteq Token,
         row.active => u \in vouched',
         row = account[u] \/ ~ Exists(u) \/ Logins(u) \subseteq changed'
  PROVE  AccountInv'
<1> USE DEF AccountInv, AccountKinds, LoggedIn
<1>1. AccountKinds'
  OBVIOUS
<1>2. EnabledIsVouched'
  BY DEF EnabledIsVouched
<1>3. LoginsAreVouched'
  BY DEF LoginsAreVouched
<1>4. LoginMatches'
  <2> SUFFICES ASSUME NEW k \in Token, LoggedIn(k), k \notin changed'
               PROVE  account'[session[k].user] = [role |-> session[k].role, active |-> TRUE]
    BY DEF LoginMatches
  <2>1. /\ account[session[k].user] = [role |-> session[k].role, active |-> TRUE]
        /\ session[k] \in SessionRow
    BY DEF LoginMatches, NoSession
  <2>2. Exists(session[k].user)
    BY <2>1 DEF Exists, SessionRow, UserRole
  <2>3. CASE session[k].user = u
    BY <2>1, <2>2, <2>3 DEF Logins
  <2>4. CASE session[k].user # u
    BY <2>1, <2>4 DEF SessionRow
  <2>5. QED
    BY <2>3, <2>4
<1>5. QED
  BY <1>1, <1>2, <1>3, <1>4

\* There is no account and no login at the start.
LEMMA AccountsInitially == AccountsInit => AccountInv
BY DEF AccountsInit, AccountInv, AccountKinds, NoAccount, NoSession,
       EnabledIsVouched, LoginsAreVouched, LoginMatches, LoggedIn

\* ensure_first_admin writes a row only where there is none.
LEMMA BootKeeps ==
  ASSUME AccountInv, NEW p \in Replica, CountAccounts(p) \/ CreateFirstAdmin(p)
  PROVE  AccountInv'
<1>1. FirstAdmin \in User /\ account \in [User -> AccountRow \cup {NoAccount}]
  BY AccountsAssumption DEF AccountInv, AccountKinds
<1>2. booting' \in [Replica -> {"starting", "empty", "up"}]
  BY DEF CountAccounts, CreateFirstAdmin, AccountInv, AccountKinds
<1>3. CASE account' = account /\ vouched' = vouched
  BY <1>1, <1>2, <1>3
     DEF CountAccounts, CreateFirstAdmin, AccountInv, AccountKinds, EnabledIsVouched,
         LoginsAreVouched, LoginMatches, LoggedIn
<1>4. CASE ~ Exists(FirstAdmin) /\ Row(FirstAdmin, "admin", TRUE) /\ vouched' = vouched \cup {FirstAdmin}
  <2>1. [role |-> "admin", active |-> TRUE] \in AccountRow
    BY DEF AccountRow, UserRole
  <2>2. UNCHANGED <<enrolling, session, editing, changed>>
    BY DEF CountAccounts, CreateFirstAdmin
  <2>3. enrolling \subseteq User \X Group /\ editing \in [Token -> User \cup {NoUser}]
        /\ vouched \subseteq User /\ changed \subseteq Token
    BY DEF AccountInv, AccountKinds
  <2>4. QED
    BY <1>1, <1>2, <1>4, <2>1, <2>2, <2>3, RowKeeps DEF Row
<1>5. QED
  BY <1>3, <1>4 DEF CountAccounts, CreateFirstAdmin

\* register: only an invite code makes the account active, and its group's owner
\* answers for whoever has it.
LEMMA RegisterKeeps ==
  ASSUME AccountInv, NEW u \in User, NEW g \in Group \cup {NoGroup}, register(u, g)
  PROVE  AccountInv'
<1>1. [role |-> "student", active |-> g # NoGroup] \in AccountRow
  BY DEF AccountRow, UserRole
<1>2. /\ booting' = booting /\ editing' = editing /\ session' = session /\ changed' = changed
      /\ account' = [account EXCEPT ![u] = [role |-> "student", active |-> g # NoGroup]]
      /\ ~ Exists(u)
  BY DEF register, Row
<1>3. AccountKinds
  BY DEF AccountInv
<1>4. enrolling' \subseteq User \X Group
  BY <1>3, AccountsAssumption DEF register, AccountKinds
<1>5. /\ vouched \subseteq vouched' /\ vouched' \subseteq User
      /\ g # NoGroup => u \in vouched'
  BY <1>3 DEF register, AccountKinds
<1>6. QED
  BY <1>1, <1>2, <1>3, <1>4, <1>5, RowKeeps DEF AccountKinds

\* The steps of a login: reading the row, issuing the session, and its end.
LEMMA LoginKeeps ==
  ASSUME AccountInv, NEW k \in Token, NEW u \in User, ReadCredential(k, u) \/ issue(k) \/ revoke(k)
  PROVE  AccountInv'
<1> USE DEF AccountInv, LoggedIn
<1>1. UNCHANGED <<account, booting, enrolling, editing, vouched, changed>>
  BY DEF ReadCredential, issue, revoke
<1>2. CASE ReadCredential(k, u)
  <2>1. account[u] \in AccountRow /\ account[u].active
    BY <1>2 DEF ReadCredential, AccountKinds, NoAccount
  <2>2. account[u] = [role |-> account[u].role, active |-> TRUE] /\ account[u].role \in UserRole
    BY <2>1 DEF AccountRow
  <2>3. /\ session' = [session EXCEPT ![k] = [place |-> "read", user |-> u, role |-> account[u].role]]
        /\ [place |-> "read", user |-> u, role |-> account[u].role] \in SessionRow
    BY <1>2, <2>2 DEF ReadCredential, SessionRow, SessionPlace
  <2>4. AccountKinds'
    BY <1>1, <2>3 DEF AccountKinds
  <2>5. LoginsAreVouched'
    BY <1>1, <2>1, <2>3 DEF LoginsAreVouched, AccountKinds, EnabledIsVouched
  <2>6. LoginMatches'
    BY <1>1, <2>2, <2>3 DEF LoginMatches, AccountKinds
  <2>7. QED
    BY <1>1, <2>4, <2>5, <2>6 DEF EnabledIsVouched
<1>3. CASE issue(k) \/ revoke(k)
  <2>1. session[k] \in SessionRow /\ LoggedIn(k)
    BY <1>3 DEF issue, revoke, resolve, AccountKinds, NoSession
  <2>2. PICK place \in {"live", "over"} : session' = [session EXCEPT ![k].place = place]
    BY <1>3 DEF issue, revoke
  <2>3. /\ session' \in [Token -> SessionRow \cup {NoSession}]
        /\ session'[k].user = session[k].user /\ session'[k].role = session[k].role
        /\ \A h \in Token : h # k => session'[h] = session[h]
    BY <2>1, <2>2 DEF AccountKinds, SessionRow, SessionPlace
  <2>4. AccountKinds'
    BY <1>1, <2>3 DEF AccountKinds
  <2>5. LoginsAreVouched'
    BY <1>1, <2>1, <2>3 DEF LoginsAreVouched
  <2>6. LoginMatches'
    BY <1>1, <2>1, <2>3 DEF LoginMatches
  <2>7. QED
    BY <1>1, <2>4, <2>5, <2>6 DEF EnabledIsVouched
<1>4. QED
  BY <1>2, <1>3

\* The administrator's endpoints: whoever changes a row marks the logins that read it.
LEMMA AdminKeeps ==
  ASSUME AccountInv, NEW k \in Token, NEW u \in User, NEW active \in BOOLEAN, NEW role,
         \/ role \in Grantable /\ create_user(k, u, role)
         \/ set_active(k, u, active) \/ SkipActive(k, u)
         \/ /\ editing[k] # NoUser /\ role \in Grantable \cup {account[editing[k]].role}
            /\ update_profile(k, role)
  PROVE  AccountInv'
<1>1. AccountKinds /\ EnabledIsVouched
  BY DEF AccountInv
<1>2. booting' \in [Replica -> {"starting", "empty", "up"}] /\ enrolling' \subseteq User \X Group /\ session' = session
  BY <1>1 DEF create_user, set_active, SkipActive, update_profile, AccountKinds
<1>3. editing' \in [Token -> User \cup {NoUser}]
  BY <1>1 DEF create_user, set_active, SkipActive, update_profile, AccountKinds
<1>4. Grantable \subseteq UserRole
  BY AccountsAssumption
<1>5. CASE role \in Grantable /\ create_user(k, u, role)
  <2>1. [role |-> role, active |-> TRUE] \in AccountRow
    BY <1>4, <1>5 DEF AccountRow
  <2>2. /\ account' = [account EXCEPT ![u] = [role |-> role, active |-> TRUE]]
        /\ ~ Exists(u) /\ vouched' = vouched \cup {u} /\ changed' = changed
    BY <1>5 DEF create_user, Row
  <2>3. QED
    BY <1>1, <1>2, <1>3, <2>1, <2>2, RowKeeps DEF AccountKinds
<1>6. CASE set_active(k, u, active)
  <2>1. account[u] \in AccountRow
    BY <1>1, <1>6 DEF set_active, Exists, AccountKinds, NoAccount
  <2>2. [role |-> account[u].role, active |-> active] \in AccountRow
    BY <2>1 DEF AccountRow
  <2>3. account' = [account EXCEPT ![u] = [role |-> account[u].role, active |-> active]]
    BY <1>6 DEF set_active, Row
  <2>4. active = account[u].active => account[u] = [role |-> account[u].role, active |-> active]
    BY <2>1 DEF AccountRow
  <2>5. Logins(u) \subseteq Token
    BY DEF Logins
  <2>6. /\ changed \subseteq changed' /\ changed' \subseteq Token
        /\ active # account[u].active => Logins(u) \subseteq changed'
    BY <1>1, <1>6, <2>5 DEF set_active, AccountKinds
  <2>7. vouched \subseteq vouched' /\ vouched' \subseteq User /\ (active => u \in vouched')
    BY <1>1, <1>6 DEF set_active, AccountKinds
  <2>8. QED
    BY <1>2, <1>3, <2>2, <2>3, <2>4, <2>6, <2>7, RowKeeps
<1>7. CASE SkipActive(k, u)
  BY <1>1, <1>2, <1>3, <1>7
     DEF SkipActive, AccountInv, AccountKinds, EnabledIsVouched, LoginsAreVouched, LoginMatches, LoggedIn
<1>8. CASE /\ editing[k] # NoUser /\ role \in Grantable \cup {account[editing[k]].role}
           /\ update_profile(k, role)
  <2>1. PICK v \in User : v = editing[k]
    BY <1>1, <1>8 DEF AccountKinds
  <2>2. account[v] \in AccountRow \cup {NoAccount}
    BY <1>1 DEF AccountKinds
  <2>3. [role |-> role, active |-> account[v].active] \in AccountRow \cup {NoAccount}
    <3>1. account[v].active \in BOOLEAN
      <4>1. CASE account[v] \in AccountRow
        BY <4>1, Zenon DEF AccountRow
      <4>2. CASE account[v] = NoAccount
        <5>1. account[v].active = FALSE
          BY <4>2 DEF NoAccount
        <5>2. QED
          BY <5>1, Zenon
      <4>3. QED
        BY <2>2, <4>1, <4>2
    <3>2. role \in UserRole \/ (role = account[v].role /\ account[v] = NoAccount)
      BY <1>4, <1>8, <2>1, <2>2 DEF AccountRow
    <3>3. CASE role \in UserRole
      BY <3>1, <3>3 DEF AccountRow
    <3>4. CASE role = account[v].role /\ account[v] = NoAccount
      BY <3>4 DEF NoAccount
    <3>5. QED
      BY <3>2, <3>3, <3>4
  <2>4. account' = [account EXCEPT ![v] = [role |-> role, active |-> account[v].active]]
    BY <1>8, <2>1 DEF update_profile, Row
  <2>5. role = account[v].role => account[v] = [role |-> role, active |-> account[v].active]
    BY <2>2 DEF AccountRow, NoAccount
  <2>6. Logins(v) \subseteq Token
    BY DEF Logins
  <2>7. /\ changed \subseteq changed' /\ changed' \subseteq Token
        /\ role # account[v].role => Logins(v) \subseteq changed'
    BY <1>1, <1>8, <2>1, <2>6 DEF update_profile, AccountKinds
  <2>8. vouched' = vouched /\ vouched \subseteq User /\ (account[v].active => v \in vouched)
    BY <1>1, <1>8 DEF update_profile, AccountKinds, EnabledIsVouched
  <2>9. QED
    BY <1>2, <1>3, <2>3, <2>4, <2>5, <2>7, <2>8, RowKeeps
<1>9. QED
  BY <1>5, <1>6, <1>7, <1>8

\* Every step of the accounts keeps them in order.
LEMMA AccountStepKeeps ==
  ASSUME AccountInv, groups \subseteq Group, AccountStep
  PROVE  AccountInv'
<1>1. CASE \E p \in Replica : CountAccounts(p) \/ CreateFirstAdmin(p)
  BY <1>1, BootKeeps
<1>2. CASE \E u \in User, g \in groups \cup {NoGroup} : register(u, g)
  BY <1>2, RegisterKeeps
<1>3. ASSUME NEW k \in Token, NEW u \in User, ReadCredential(k, u) \/ SkipActive(k, u)
      PROVE  AccountInv'
  <2>1. TRUE \in BOOLEAN
    OBVIOUS
  <2>2. QED
    BY <1>3, <2>1, LoginKeeps, AdminKeeps
<1>4. ASSUME NEW k \in Token, issue(k) \/ revoke(k)
      PROVE  AccountInv'
  BY <1>4, LoginKeeps, AccountsAssumption
<1>5. ASSUME NEW k \in Token, NEW u \in User, NEW role \in Grantable, create_user(k, u, role)
      PROVE  AccountInv'
  <2>1. TRUE \in BOOLEAN
    OBVIOUS
  <2>2. QED
    BY <1>5, <2>1, AdminKeeps
<1>6. ASSUME NEW k \in Token, NEW u \in User, NEW active \in BOOLEAN, set_active(k, u, active)
      PROVE  AccountInv'
  BY <1>6, AdminKeeps
<1>7. ASSUME NEW k \in Token, editing[k] # NoUser,
             NEW role \in Grantable \cup {account[editing[k]].role}, update_profile(k, role)
      PROVE  AccountInv'
  <2>1. TRUE \in BOOLEAN
    OBVIOUS
  <2>2. QED
    BY <1>7, <2>1, AdminKeeps, AccountsAssumption
<1>8. QED
  BY <1>1, <1>2, <1>3, <1>4, <1>5, <1>6, <1>7 DEF AccountStep

--------------------------------------------------------------------------------
(* The three parts together *)

AccessIInv == GateInv /\ RosterInv /\ AccountInv

\* Every step of the specification keeps all three.
LEMMA AccessInductive == AccessIInv /\ [AccessNext]_vars => AccessIInv'
<1> SUFFICES ASSUME AccessIInv, [AccessNext]_vars PROVE AccessIInv'
  OBVIOUS
<1>1. GateInv /\ RosterInv /\ AccountInv /\ groups \subseteq Group
  BY DEF AccessIInv, RosterInv, MemberTypeOK
<1>2. UNCHANGED accountVars => AccountInv'
  BY <1>1 DEF accountVars, AccountInv, AccountKinds, EnabledIsVouched, LoginsAreVouched, LoginMatches, LoggedIn
<1>3. UNCHANGED memberVars => RosterInv'
  BY <1>1 DEF memberVars, RosterInv, MemberTypeOK, OnePendingJoin
<1>4. UNCHANGED rateVars => GateInv'
  BY <1>1, GateKeeps
<1>5. CASE GateStep /\ UNCHANGED <<memberVars, accountVars>>
  BY <1>1, <1>2, <1>3, <1>5, GateKeeps DEF AccessIInv
<1>6. CASE AccountStep /\ UNCHANGED <<rateVars, memberVars>>
  BY <1>1, <1>3, <1>4, <1>6, AccountStepKeeps DEF AccessIInv
<1>7. CASE (\E m \in enrolling : Enroll(m)) /\ UNCHANGED rateVars
  <2>1. PICK m \in enrolling : Enroll(m)
    BY <1>7
  <2>2. m[1] \in User /\ m[2] \in Group
    BY <1>1 DEF AccountInv, AccountKinds
  <2>3. RosterInv'
    BY <1>1, <2>1, <2>2, RosterKeeps DEF Enroll
  <2>4. AccountInv'
    BY <1>1, <2>1
       DEF Enroll, AccountInv, AccountKinds, EnabledIsVouched, LoginsAreVouched, LoginMatches, LoggedIn
  <2>5. QED
    BY <1>4, <1>7, <2>3, <2>4 DEF AccessIInv
<1>8. CASE GroupStep /\ UNCHANGED <<rateVars, accountVars>>
  <2>1. ASSUME NEW g \in Group, create_group(g)
        PROVE  RosterInv'
    BY <1>1, <2>1, RosterKeeps, AccountsAssumption
  <2>2. ASSUME NEW u \in User, NEW g \in Group, add_member(u, g) \/ remove_member(u, g)
        PROVE  RosterInv'
    BY <1>1, <2>2, RosterKeeps
  <2>3. ASSUME NEW j \in JoinRequest, apply(j) \/ create_request(j)
        PROVE  RosterInv'
    BY <1>1, <2>3, JoinKeeps
  <2>4. ASSUME NEW j \in JoinRequest, NEW approved \in BOOLEAN, decide_join(j, approved)
        PROVE  RosterInv'
    BY <1>1, <2>4, JoinKeeps
  <2>5. RosterInv'
    BY <1>8, <2>1, <2>2, <2>3, <2>4 DEF GroupStep
  <2>6. QED
    BY <1>2, <1>4, <1>8, <2>5 DEF AccessIInv
<1>9. CASE UNCHANGED vars
  BY <1>2, <1>3, <1>4, <1>9 DEF vars, AccessIInv
<1>10. QED
  BY <1>5, <1>6, <1>7, <1>8, <1>9 DEF AccessNext

\* It holds at the start, so always.
LEMMA AccessIInvHolds == AccessSpec => []AccessIInv
<1>1. AccessInit => AccessIInv
  BY GateInitially, RosterInitially, AccountsInitially DEF AccessInit, AccessIInv
<1>2. QED
  BY <1>1, AccessInductive, PTL DEF AccessSpec

\* Accounts, sessions, rosters and the window are in order, for every number of users,
\* replicas and logins at once: no session without somebody who answered for it, one
\* open request per applicant, and the window over its limit only by those that came at
\* once (register, login, apply, allow).
THEOREM AccessInOrder == AccessSpec => []AccessInv
<1>1. AccessIInv => AccessInv
  <2> SUFFICES ASSUME AccessIInv PROVE AccessInv
    OBVIOUS
  <2>1. Admitted \subseteq Token /\ Counted \subseteq Token
    BY DEF Admitted, Counted
  <2>2. /\ Cardinality(Admitted) \in Nat /\ Cardinality(Admitted) <= Cardinality(Token)
        /\ Cardinality(Counted) \in Nat /\ Cardinality(Token) \in Nat
    BY <2>1, GateSets
  <2>3. hits \in 0..Cardinality(Token)
    BY <2>2 DEF AccessIInv, GateInv, GateKinds, Window
  <2>4. AccessTypeOK
    BY <2>3 DEF AccessIInv, GateInv, GateKinds, RosterInv, AccountInv, AccountKinds,
                AccessTypeOK, AccountRow, SessionRow
  <2>5. WindowPerConcurrency
    BY <2>2, RateAssumption DEF AccessIInv, GateInv, GateKinds, Window, WindowPerConcurrency
  <2>6. SessionsAreVouched
    BY DEF AccessIInv, AccountInv, LoginsAreVouched, LoggedIn, SessionsAreVouched, resolve
  <2>7. QED
    BY <2>4, <2>5, <2>6 DEF AccessIInv, RosterInv, AccessInv
<1>2. QED
  BY <1>1, AccessIInvHolds, PTL

\* A session agrees with its account unless an administrator changed the account after
\* the login had read it, which may be before the session is issued (require_admin).
THEOREM SessionsMatch == AccessSpec => []SessionMatchesUnlessChanged
<1>1. AccessIInv => SessionMatchesUnlessChanged
  BY DEF AccessIInv, AccountInv, LoginMatches, LoggedIn, SessionMatchesUnlessChanged, resolve
<1>2. QED
  BY <1>1, AccessIInvHolds, PTL

\* A replica that starts changes no account there is, however many start together
\* (ensure_first_admin).
THEOREM BootChangesNobody == AccessSpec => BootstrapOnlyOnce
<1>1. ASSUME AccessIInv, [AccessNext]_vars,
             NEW p \in Replica, booting[p] # booting'[p], NEW u \in User, Exists(u)
      PROVE  account'[u] = account[u]
  <2>1. PICK q \in Replica : CountAccounts(q) \/ CreateFirstAdmin(q)
    BY <1>1 DEF AccessNext, AccountStep, GateStep, GroupStep, Enroll, vars, accountVars,
                register, ReadCredential, SkipActive, issue, revoke, create_user, set_active,
                update_profile
  <2>2. account \in [User -> AccountRow \cup {NoAccount}]
    BY <1>1 DEF AccessIInv, AccountInv, AccountKinds
  <2>3. QED
    BY <1>1, <2>1, <2>2 DEF CountAccounts, CreateFirstAdmin, Row
<1>2. AccessIInv /\ [AccessNext]_vars =>
        [\A p \in Replica : booting[p] # booting'[p] =>
            \A u \in User : Exists(u) => account'[u] = account[u]]_vars
  BY <1>1
<1>3. QED
  BY <1>2, AccessIInvHolds, PTL DEF AccessSpec, BootstrapOnlyOnce

================================================================================
