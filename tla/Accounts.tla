------------------------------- MODULE Accounts -------------------------------
(***************************************************************************)
(* Accounts and sessions: signing in, the requests of administrators that  *)
(* change accounts and roles, passwords and their recovery.                *)
(*                                                                         *)
(* A client of the API is signing in, has a request under way or redeems a *)
(* recovery code.  Signing in is five statements without a transaction.    *)
(* A request is guarded first, which reads the session and the user's      *)
(* permissions, and handled later by one transaction that locks the        *)
(* account, the role or the code it changes.                               *)
(***************************************************************************)
EXTENDS AccessPolicy

CONSTANTS
  Clients, Sessions, Codes,
  RoleChoices,      \* bound: the sets of roles administrators ask for
  GrantChoices,     \* bound: the sets of permissions they give a role or a user
  LockAfter,        \* what the counter of failed logins is compared with (5 in the code)
  MaxStarts,        \* bound: logins, requests and redemptions started
  InitAccount, InitAssigned, InitRole, InitSession,
  NoUser

ASSUME AccountsAssumption ==
  /\ PolicyAssumption
  /\ RoleChoices \subseteq SUBSET Roles /\ GrantChoices \subseteq SUBSET Perms
  /\ LockAfter \in Nat \ {0, 1} /\ MaxStarts \in Nat
  /\ NoUser \notin Users
  /\ InitAccount \in [Users -> Account] /\ InitAssigned \in [Users -> SUBSET Roles]
  /\ InitRole \in [Roles -> Role]
  /\ InitSession \in [Sessions -> Users \cup {NoUser}]
  /\ IsFiniteSet(Clients)

\* What the seed and the foreign keys see to: SUPER stands above every role, the
\* ceiling of custom roles included; nobody holds what is not there.
ASSUME InitAssumption ==
  /\ InitRole[Super].exists /\ InitRole[Super].active /\ InitRole[Super].level >= 100
  /\ \A r \in Roles : InitRole[r].level <= InitRole[Super].level
  /\ \A u \in Users : /\ \A r \in InitAssigned[u] : InitRole[r].exists
                      /\ InitAccount[u].status = "absent" => InitAssigned[u] = {}
  /\ \A s \in Sessions :
       InitSession[s] # NoUser => InitAccount[InitSession[s]].status # "absent"

VARIABLES
  session,   \* user_sessions
  code,      \* password_recovery_requests
  client,    \* what each client of the API is doing
  tries,     \* wrong passwords tried since the last success, reset or lapse of a lock
  starts     \* activities started, for the bound

vars == <<account, assigned, allow, deny, role, session, code, client, tries, starts>>
grants == <<assigned, allow, deny, role>>

\* What a session was opened on: the account's password, roles and permissions then.
Ground == [password : Nat, roles : SUBSET Roles, can : SUBSET Perms]
GroundOf(u) == [password |-> account[u].password, roles |-> assigned[u], can |-> Effective(u)]

\* open: neither revoked nor expired; held: the client was told the token.
Session == [user : Users, open : BOOLEAN, held : BOOLEAN, ground : Ground]
Unused == [user |-> NoUser]

\* print: the password the code was issued for; recent: asked for within the hour.
Code ==
  [user : Users \cup {NoUser},
   status : {"NONE", "PENDING", "ISSUED", "COMPLETED", "REJECTED", "EXPIRED"},
   print : Nat, lapsed : BOOLEAN, recent : BOOLEAN]
NoCode == [user |-> NoUser, status |-> "NONE", print |-> 0, lapsed |-> FALSE, recent |-> FALSE]

Idle == [doing |-> "nothing"]
Client ==
  {Idle}
  \cup [doing : {"login"}, user : Users, right : BOOLEAN]
  \cup [doing : {"cleared"}, user : Users]
  \cup [doing : {"opened"}, user : Users, session : Sessions]
  \cup [doing : {"request", "verified"}, user : Users, session : Sessions, can : SUBSET Perms]
  \cup [doing : {"redeem"}, code : Codes]

TypeOK ==
  /\ PolicyTypeOK
  /\ session \in [Sessions -> Session \cup {Unused}]
  /\ code \in [Codes -> Code]
  /\ client \in [Clients -> Client]
  /\ tries \in [Users -> Nat]
  /\ starts \in Nat

Opened(s) == session[s] # Unused /\ session[s].open

\* sessionFromToken, SessionGuard: the sessions the API accepts.
Usable(s) == Opened(s) /\ session[s].held /\ account[session[s].user].status = "active"

Init ==
  /\ account = InitAccount /\ assigned = InitAssigned /\ role = InitRole
  /\ allow = [u \in Users |-> {}] /\ deny = [u \in Users |-> {}]
  /\ session = [s \in Sessions |->
                  IF InitSession[s] = NoUser THEN Unused
                  ELSE [user |-> InitSession[s], open |-> TRUE, held |-> TRUE,
                        ground |-> GroundOf(InitSession[s])]]
  /\ code = [q \in Codes |-> NoCode]
  /\ client = [c \in Clients |-> Idle]
  /\ tries = [u \in Users |-> 0]
  /\ starts = 0

Begin(c, activity) ==
  /\ client[c] = Idle /\ starts < MaxStarts
  /\ client' = [client EXCEPT ![c] = activity]
  /\ starts' = starts + 1

Done(c) == client' = [client EXCEPT ![c] = Idle] /\ starts' = starts

\* UPDATE user_sessions SET revoked_at for all sessions of these users
CloseSessionsOf(us) ==
  session' = [s \in Sessions |->
                IF session[s] # Unused /\ session[s].user \in us
                THEN [session[s] EXCEPT !.open = FALSE] ELSE session[s]]

-----------------------------------------------------------------------------
\* Signing in

\* Mutant: the lock is not looked at.
LoginWhateverTheLock(c, u, right) ==
  /\ Exists(u)
  /\ Begin(c, [doing |-> "login", user |-> u,
               right |-> right /\ account[u].status = "active"])
  /\ UNCHANGED <<account, grants, session, code, tries>>

\* login reads the account and compares the password; a locked account is refused.
Login(c, u, right) ==
  /\ Exists(u) /\ ~account[u].locked
  /\ Begin(c, [doing |-> "login", user |-> u,
               right |-> right /\ account[u].status = "active"])
  /\ UNCHANGED <<account, grants, session, code, tries>>

\* The wrong password, or a disabled account: one statement counts and locks.  The
\* database assigns from left to right, so the counter that is compared has been
\* raised once already when the statement adds one to it again.
LoginFails(c) ==
  /\ client[c].doing = "login" /\ ~client[c].right
  /\ LET u == client[c].user
     IN  /\ account' = [account EXCEPT ![u].failures = @ + 1,
                                       ![u].locked = @ \/ account[u].failures + 2 >= LockAfter]
         /\ tries' = [tries EXCEPT ![u] = @ + 1]
  /\ Done(c) /\ UNCHANGED <<grants, session, code>>

\* Mutant: the right password makes up for one wrong one only.
LoginForgivesOne(c) ==
  /\ client[c].doing = "login" /\ client[c].right
  /\ LET u == client[c].user
     IN  /\ account' = [account EXCEPT ![u].failures = @ - 1, ![u].locked = FALSE]
         /\ tries' = [tries EXCEPT ![u] = 0]
         /\ client' = [client EXCEPT ![c] = [doing |-> "cleared", user |-> u]]
  /\ UNCHANGED <<grants, session, code, starts>>

\* The right password: the counter is cleared ...
LoginClears(c) ==
  /\ client[c].doing = "login" /\ client[c].right
  /\ LET u == client[c].user
     IN  /\ account' = [account EXCEPT ![u].failures = 0, ![u].locked = FALSE]
         /\ tries' = [tries EXCEPT ![u] = 0]
         /\ client' = [client EXCEPT ![c] = [doing |-> "cleared", user |-> u]]
  /\ UNCHANGED <<grants, session, code, starts>>

\* ... the session inserted, whatever became of the account meanwhile ...
LoginOpens(c, s) ==
  /\ client[c].doing = "cleared" /\ session[s] = Unused
  /\ LET u == client[c].user
     IN  /\ session' = [session EXCEPT ![s] = [user |-> u, open |-> TRUE, held |-> FALSE,
                                               ground |-> GroundOf(u)]]
         /\ client' = [client EXCEPT ![c] = [doing |-> "opened", user |-> u, session |-> s]]
  /\ UNCHANGED <<account, grants, code, tries, starts>>

\* ... and the token returned, if userById still finds an active account.
LoginAnswers(c) ==
  /\ client[c].doing = "opened"
  /\ session' = [session EXCEPT ![client[c].session].held =
                   account[client[c].user].status = "active"]
  /\ Done(c) /\ UNCHANGED <<account, grants, code, tries>>

-----------------------------------------------------------------------------
\* Requests

\* SessionGuard and userById
Guard(c, s) ==
  /\ Usable(s)
  /\ Begin(c, [doing |-> "request", user |-> session[s].user, session |-> s,
               can |-> Effective(session[s].user)])
  /\ UNCHANGED <<account, grants, session, code, tries>>

\* PermissionGuard: a request that carries one of these permissions.
Permitted(c, anyOf) == client[c].doing = "request" /\ client[c].can \cap anyOf # {}

\* A request that is refused, or only reads.
Answer(c) ==
  /\ client[c].doing \in {"request", "verified"}
  /\ Done(c) /\ UNCHANGED <<account, grants, session, code, tries>>

Logout(c) ==
  /\ client[c].doing = "request"
  /\ session' = [session EXCEPT ![client[c].session].open = FALSE]
  /\ Done(c) /\ UNCHANGED <<account, grants, code, tries>>

\* changePassword compares the current password first ...
VerifyPassword(c) ==
  /\ client[c].doing = "request"
  /\ client' = [client EXCEPT ![c].doing = "verified"]
  /\ UNCHANGED <<account, grants, session, code, tries, starts>>

\* ... and sets the new one in a transaction that does not look at the old again.
ChangePassword(c) ==
  /\ client[c].doing = "verified"
  /\ account' = [account EXCEPT ![client[c].user].password = @ + 1]
  /\ CloseSessionsOf({client[c].user})
  /\ Done(c) /\ UNCHANGED <<grants, code, tries>>

-----------------------------------------------------------------------------
\* Administration of accounts

CreateUser(c, u, rs) ==
  /\ Permitted(c, {"user.create"}) /\ account[u].status = "absent"
  /\ CanAssign(client[c].user, rs)
  /\ account' = [account EXCEPT ![u].status = "active", ![u].password = @ + 1]
  /\ assigned' = [assigned EXCEPT ![u] = rs]
  /\ Done(c) /\ UNCHANGED <<allow, deny, role, session, code, tries>>

SetUserRoles(c, u, rs) ==
  /\ Permitted(c, {"user.roles.manage"})
  /\ CanManageUser(client[c].user, u) /\ CanAssign(client[c].user, rs)
  /\ AdministratorRemains(u)
  /\ assigned' = [assigned EXCEPT ![u] = rs]
  /\ CloseSessionsOf({u})
  /\ Done(c) /\ UNCHANGED <<account, allow, deny, role, code, tries>>

ResetPassword(c, u) ==
  /\ Permitted(c, {"user.reset_password"}) /\ CanManageUser(client[c].user, u)
  /\ account' = [account EXCEPT ![u].password = @ + 1, ![u].failures = 0, ![u].locked = FALSE]
  /\ tries' = [tries EXCEPT ![u] = 0]
  /\ CloseSessionsOf({u})
  /\ Done(c) /\ UNCHANGED <<grants, code>>

\* setUserActive revokes the sessions only when it disables.
SetUserActive(c, u, active) ==
  /\ Permitted(c, {IF active THEN "user.enable" ELSE "user.disable"})
  /\ CanManageUser(client[c].user, u) /\ (~active => AdministratorRemains(u))
  /\ account' = [account EXCEPT ![u].status = IF active THEN "active" ELSE "disabled"]
  /\ IF active THEN session' = session ELSE CloseSessionsOf({u})
  /\ Done(c) /\ UNCHANGED <<grants, code, tries>>

\* What the lifecycle service does to a user, and the permission it asks for.
UserChanges ==
  { [permission |-> "user.enable", to |-> "active"],
    [permission |-> "user.disable", to |-> "disabled"],
    [permission |-> "user.delete", to |-> "deleted"] }

\* change of the lifecycle service: revokes the sessions in all three cases.
ChangeUser(c, u, change) ==
  /\ Permitted(c, {change.permission})
  /\ CanManageUser(client[c].user, u) /\ (change.to # "active" => AdministratorRemains(u))
  /\ account' = [account EXCEPT ![u].status = change.to]
  /\ CloseSessionsOf({u})
  /\ Done(c) /\ UNCHANGED <<grants, code, tries>>

\* A code has one override at most; those in the request must be within the ceiling.
UpdateUserPermissions(c, u, al, de) ==
  /\ Permitted(c, {"user.permissions.manage"})
  /\ al \cap de = {}
  /\ CanManageUser(client[c].user, u) /\ Grantable(client[c].can, al \cup de)
  /\ allow' = [allow EXCEPT ![u] = al] /\ deny' = [deny EXCEPT ![u] = de]
  /\ CloseSessionsOf({u})
  /\ Done(c) /\ UNCHANGED <<account, assigned, role, code, tries>>

RevokeSession(c, s) ==
  /\ Permitted(c, {"user.sessions.revoke"}) /\ session[s] # Unused
  /\ CanManageUser(client[c].user, session[s].user)
  /\ session' = [session EXCEPT ![s].open = FALSE]
  /\ Done(c) /\ UNCHANGED <<account, grants, code, tries>>

-----------------------------------------------------------------------------
\* Administration of roles

Holders(r) == {u \in Users : r \in assigned[u]}

CreateRole(c, r) ==
  /\ Permitted(c, {"role.create"}) /\ ~role[r].exists
  /\ role' = [role EXCEPT ![r] = [exists |-> TRUE, active |-> TRUE,
                                  level |-> CustomLevel(client[c].user), grants |-> {}]]
  /\ Done(c) /\ UNCHANGED <<account, assigned, allow, deny, session, code, tries>>

\* Mutant: switching a role leaves the sessions of its holders.
UpdateRoleKeepingSessions(c, r, active) ==
  /\ Permitted(c, {"role.update"}) /\ CanManageRole(client[c].user, r)
  /\ r \in SystemRoles => active
  /\ role' = [role EXCEPT ![r].active = active]
  /\ Done(c) /\ UNCHANGED <<account, assigned, allow, deny, session, code, tries>>

UpdateRole(c, r, active) ==
  /\ Permitted(c, {"role.update"}) /\ CanManageRole(client[c].user, r)
  /\ r \in SystemRoles => active
  /\ role' = [role EXCEPT ![r].active = active]
  /\ CloseSessionsOf(Holders(r))
  /\ Done(c) /\ UNCHANGED <<account, assigned, allow, deny, code, tries>>

\* The ceiling covers what the role is given and what it had.
UpdateRolePermissions(c, r, codes) ==
  /\ Permitted(c, {"role.permissions.manage"}) /\ CanManageRole(client[c].user, r)
  /\ Grantable(client[c].can, codes \cup role[r].grants)
  /\ role' = [role EXCEPT ![r].grants = codes]
  /\ CloseSessionsOf(Holders(r))
  /\ Done(c) /\ UNCHANGED <<account, assigned, allow, deny, code, tries>>

DeleteRole(c, r) ==
  /\ Permitted(c, {"role.delete"}) /\ CanManageRole(client[c].user, r)
  /\ r \notin SystemRoles /\ Holders(r) = {}
  /\ role' = [role EXCEPT ![r].exists = FALSE]
  /\ Done(c) /\ UNCHANGED <<account, assigned, allow, deny, session, code, tries>>

-----------------------------------------------------------------------------
\* Recovery of a forgotten password

\* Public: lapsed codes of the account expire; one open request and one an hour.
RequestRecovery(u, q) ==
  /\ account[u].status = "active" /\ code[q] = NoCode
  /\ LET mine == {p \in Codes : code[p].user = u}
         lapsed == {p \in mine : code[p].status = "ISSUED" /\ code[p].lapsed}
         expired == [p \in Codes |-> IF p \in lapsed THEN [code[p] EXCEPT !.status = "EXPIRED"]
                                     ELSE code[p]]
         turnedAway == \E p \in mine : \/ expired[p].status \in {"PENDING", "ISSUED"}
                                       \/ expired[p].recent
     IN  code' = IF turnedAway THEN expired
                 ELSE [expired EXCEPT ![q] = [NoCode EXCEPT !.user = u, !.status = "PENDING",
                                                            !.recent = TRUE]]
  /\ UNCHANGED <<account, grants, session, client, tries, starts>>

\* handle: the administrator issues or rejects a pending request.
IssueRecovery(c, q) ==
  /\ Permitted(c, {"user.reset_password"}) /\ code[q].status = "PENDING"
  /\ CanManageUser(client[c].user, code[q].user)
  /\ account[code[q].user].status = "active"
  /\ code' = [code EXCEPT ![q].status = "ISSUED", ![q].print = account[code[q].user].password]
  /\ Done(c) /\ UNCHANGED <<account, grants, session, tries>>

RejectRecovery(c, q) ==
  /\ Permitted(c, {"user.reset_password"}) /\ code[q].status = "PENDING"
  /\ CanManageUser(client[c].user, code[q].user)
  /\ code' = [code EXCEPT ![q].status = "REJECTED"]
  /\ Done(c) /\ UNCHANGED <<account, grants, session, tries>>

\* complete: finds the code, hashes the new password ...
Redeem(c, q) ==
  /\ code[q].status = "ISSUED" /\ ~code[q].lapsed
  /\ Begin(c, [doing |-> "redeem", code |-> q])
  /\ UNCHANGED <<account, grants, session, code, tries>>

\* Mutant: the transaction trusts the code found before the password was hashed.
CodeWasValid(q) == code[q].status \in {"ISSUED", "COMPLETED", "EXPIRED"}

\* ... and looks at account and code again under their locks.
CodeIsValid(q) ==
  /\ code[q].status = "ISSUED" /\ ~code[q].lapsed
  /\ account[code[q].user].status = "active"
  /\ code[q].print = account[code[q].user].password

CompleteRecovery(c) ==
  /\ client[c].doing = "redeem"
  /\ LET q == client[c].code
         u == code[q].user
     IN  IF CodeIsValid(q)
         THEN /\ account' = [account EXCEPT ![u].password = @ + 1, ![u].failures = 0,
                                            ![u].locked = FALSE]
              /\ tries' = [tries EXCEPT ![u] = 0]
              /\ CloseSessionsOf({u})
              /\ code' = [code EXCEPT ![q].status = "COMPLETED", ![q].print = 0]
         ELSE UNCHANGED <<account, tries, session, code>>
  /\ Done(c) /\ UNCHANGED grants

-----------------------------------------------------------------------------
\* Time

\* Fifteen minutes: the lock opens, but the counter stays.
LockLapses(u) ==
  /\ account[u].locked
  /\ account' = [account EXCEPT ![u].locked = FALSE]
  /\ tries' = [tries EXCEPT ![u] = 0]
  /\ UNCHANGED <<grants, session, code, client, starts>>

SessionExpires(s) ==
  /\ Opened(s)
  /\ session' = [session EXCEPT ![s].open = FALSE]
  /\ UNCHANGED <<account, grants, code, client, tries, starts>>

CodeLapses(q) ==
  /\ code[q].status = "ISSUED" /\ ~code[q].lapsed
  /\ code' = [code EXCEPT ![q].lapsed = TRUE]
  /\ UNCHANGED <<account, grants, session, client, tries, starts>>

HourPasses(q) ==
  /\ code[q].recent
  /\ code' = [code EXCEPT ![q].recent = FALSE]
  /\ UNCHANGED <<account, grants, session, client, tries, starts>>

-----------------------------------------------------------------------------
SigningIn(c) ==
  \/ \E u \in Users, right \in BOOLEAN : Login(c, u, right)
  \/ LoginFails(c)
  \/ LoginClears(c)
  \/ \E s \in Sessions : LoginOpens(c, s)
  \/ LoginAnswers(c)

OwnAccount(c) ==
  \/ \E s \in Sessions : Guard(c, s)
  \/ Answer(c)
  \/ Logout(c)
  \/ VerifyPassword(c)
  \/ ChangePassword(c)

AccountAdministration(c) ==
  \E u \in Users :
    \/ \E rs \in RoleChoices : CreateUser(c, u, rs)
    \/ \E rs \in RoleChoices : SetUserRoles(c, u, rs)
    \/ ResetPassword(c, u)
    \/ \E active \in BOOLEAN : SetUserActive(c, u, active)
    \/ \E change \in UserChanges : ChangeUser(c, u, change)
    \/ \E al, de \in GrantChoices : UpdateUserPermissions(c, u, al, de)

RoleAdministration(c) ==
  \E r \in Roles :
    \/ CreateRole(c, r)
    \/ \E active \in BOOLEAN : UpdateRole(c, r, active)
    \/ \E codes \in GrantChoices : UpdateRolePermissions(c, r, codes)
    \/ DeleteRole(c, r)

Recovering(c) ==
  \E q \in Codes :
    \/ IssueRecovery(c, q)
    \/ RejectRecovery(c, q)
    \/ Redeem(c, q)

Time ==
  \/ \E u \in Users : LockLapses(u)
  \/ \E s \in Sessions : SessionExpires(s)
  \/ \E q \in Codes : CodeLapses(q)
  \/ \E q \in Codes : HourPasses(q)

Next ==
  \/ \E c \in Clients :
       \/ SigningIn(c)
       \/ OwnAccount(c)
       \/ AccountAdministration(c)
       \/ RoleAdministration(c)
       \/ Recovering(c)
       \/ \E s \in Sessions : RevokeSession(c, s)
       \/ CompleteRecovery(c)
  \/ \E u \in Users, q \in Codes : RequestRecovery(u, q)
  \/ Time

Spec == Init /\ [][Next]_vars

-----------------------------------------------------------------------------
\* Properties

CodeState(q) ==
  CASE code[q].status = "NONE" -> "unused"
    [] code[q].status = "PENDING" -> "asked"
    [] code[q].status = "COMPLETED" -> "used"
    [] /\ code[q].status = "ISSUED" /\ ~code[q].lapsed
       /\ code[q].print = account[code[q].user].password -> "good"
    [] OTHER -> "void"

OneTime ==
  INSTANCE OneTimeCode
  WITH state <- [q \in Codes |-> CodeState(q)],
       owner <- [q \in Codes |-> code[q].user],
       password <- [u \in Users |-> account[u].password]

\* Recovery keeps the promise of OneTimeCode: of several redemptions of a code
\* under way one sets the password, and none after the password was changed or
\* reset, whenever the code was looked up (password-recovery.service.ts:149-187).
RecoveryKeepsItsPromise == OneTime!Spec

\* A session is good only on the ground it was opened on: whoever changes a
\* password, the roles or overrides of a user, or a role the user holds, by any
\* of the ten handlers, closes every session opened before
\* (admin.service.ts:2183-2299, access-control.service.ts:631-637 and others).  A login
\* that was under way may open its session afterwards, on the new ground.
SessionsKeepTheirGround ==
  \A s \in Sessions : Usable(s) => session[s].ground = GroundOf(session[s].user)

\* At most LockAfter - 2 wrong passwords and one more per login under way are
\* tried on an account before its lock lapses or somebody entitled resets it
\* (auth.service.ts:47-68), since the account is read before the count is written.
\* The failure that locks is number LockAfter - 1, the fourth in the code.
GuessesAreBounded ==
  \A u \in Users : tries[u] < LockAfter - 1 + Cardinality(Clients)

\* Two screens work out by queries of their own what the server decides by others.
\* The list of accounts offers to manage exactly those that the policy lets the
\* administrator manage: the one takes the greatest level over all roles, those
\* switched off as 0, the other over the active ones (admin.service.ts:1945-1962,
\* authorization-policy.service.ts:65-93, 283-307).  The permissions that an account's
\* page shows are those its next request carries: the one puts the override of a code
\* in the place of what the roles grant, the other adds all that is allowed and then
\* takes away all that is denied (access-control.service.ts:335-370, 512-563,
\* auth.service.ts:111-252).  No history of roles switched off, deleted and given, and
\* of overrides, makes either pair differ.
ScreensAgreeWithPolicy ==
  \A u \in Users :
    /\ Exists(u) =>
         \A actor \in Users : ShownManageable(actor, u) <=> CanManageUser(actor, u)
    /\ ShownEffective(u) = Effective(u)

\* Who holds SUPER, with which password and overrides, is out of everyone's reach
\* but its holders' own: no sequence of administrative calls makes one, disables
\* one, or changes the password or the overrides of one
\* (authorization-policy.service.ts:65-128, 195-226).
SuperOutOfReach ==
  [][\A u \in Users :
       /\ Protected(u)' = Protected(u)
       /\ Protected(u) =>
            /\ account'[u].status = account[u].status
            /\ allow'[u] = allow[u] /\ deny'[u] = deny[u]
            /\ account'[u].password # account[u].password =>
                 \E c \in Clients : client[c].doing = "verified" /\ client[c].user = u]_vars

\* Nobody's authority rises but by the request of somebody else whose authority
\* is above the new one, whatever roles were created, switched or handed out
\* (authorization-policy.service.ts:186-226).
AuthorityIsGivenFromAbove ==
  [][\A u \in Users :
       Authority(u)' > Authority(u) =>
         \E c \in Clients : /\ client[c].doing = "request" /\ client'[c] = Idle
                            /\ client[c].user # u
                            /\ Authority(client[c].user) > Authority(u)']_vars
=============================================================================
