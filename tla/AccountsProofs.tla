--------------------------- MODULE AccountsProofs ---------------------------
(***************************************************************************)
(* Proofs about Accounts for all sets of users, roles, permissions,        *)
(* sessions, clients and recovery codes, any number of failures that locks *)
(* and any seed with a SUPER role above the others (InitAssumption).       *)
(*                                                                         *)
(* The inductive invariant AInv says why the properties cannot be reached  *)
(* by a sequence of legal calls.  SUPER is active and at the top, so that  *)
(* nobody has authority over its holders (Superior); only roles that are   *)
(* there are held, so a new one is nobody's yet (Holdings); sessions and   *)
(* activities belong to accounts that were created, so that creating one   *)
(* moves no ground they stand on (Known); no code is issued for SUPER      *)
(* (Owned); open sessions stand on their ground (Grounded); and the wrong  *)
(* passwords tried, with the logins under way that will be wrong, stay     *)
(* below the lock and the clients (Counted).                               *)
(***************************************************************************)
EXTENDS Accounts, FiniteSetTheorems, WellFoundedInduction, TLAPS

-----------------------------------------------------------------------------
\* The greatest of some numbers with a bound is one of them and above the others.
LEMMA MaximumIs ==
  ASSUME NEW N \in Nat, NEW S, S \subseteq 0..N
  PROVE  /\ Maximum(S) \in 0..N
         /\ S # {} => Maximum(S) \in S
         /\ \A k \in S : k <= Maximum(S)
<1>1. CASE S = {}
  BY <1>1 DEF Maximum
<1>2. CASE S # {}
  <2> DEFINE above == {n \in Nat : \A k \in S : k <= n}
  <2>1. N \in above /\ above \subseteq Nat
    OBVIOUS
  <2>2. PICK m \in above : \A n \in above : ~(<<n, m>> \in OpToRel(<, Nat))
    <3> DEFINE less == OpToRel(<, Nat)
    <3>1. IsWellFoundedOn(less, Nat)
      BY NatLessThanWellFounded
    <3>2. above # {} /\ above \subseteq Nat
      BY <2>1
    <3> HIDE DEF above, less
    <3>3. \E m \in above : \A n \in above : ~(<<n, m>> \in less)
      BY <3>1, <3>2, WFMin
    <3> QED BY <3>3 DEF less
  <2>3. \A n \in above : m <= n
    <3>1. SUFFICES ASSUME NEW n \in above, n < m PROVE FALSE
      OBVIOUS
    <3>2. OpToRel(<, Nat) = {ss \in Nat \X Nat : ss[1] < ss[2]}
      BY Zenon DEF OpToRel
    <3>3. <<n, m>> \in {ss \in Nat \X Nat : ss[1] < ss[2]}
      BY <3>1
    <3> QED BY <3>2, <3>3, <2>2, Zenon
  <2>4. m \in S
    <3>1. SUFFICES ASSUME m \notin S PROVE FALSE
      OBVIOUS
    <3>2. PICK k \in S : TRUE
      BY <1>2
    <3>3. m \in Nat /\ \A l \in S : l \in Nat /\ l <= m /\ l # m
      <4>1. \A l \in S : l \in 0..N
        OBVIOUS
      <4> QED BY <3>1, <4>1
    <3>4. m > 0
      BY <3>2, <3>3
    <3>5. m - 1 \in Nat /\ \A l \in S : l <= m - 1
      BY <3>3, <3>4
    <3>6. m - 1 \in above
      BY <3>5
    <3> QED BY <3>6, <2>3, <3>3
  <2>5. \A k \in S : k <= m
    OBVIOUS
  <2>6. \E l \in S : \A k \in S : k <= l
    BY <2>4, <2>5
  <2> QED BY <1>2, <2>6 DEF Maximum
<1> QED BY <1>1, <1>2

-----------------------------------------------------------------------------
\* SUPER is there, switched on, and nothing is above it.
Superior ==
  /\ role[Super].exists /\ role[Super].active /\ role[Super].level >= 100
  /\ \A r \in Roles : role[r].level <= role[Super].level

\* Nobody holds what is not there, and nothing is both allowed and denied.
Holdings ==
  \A u \in Users : /\ \A r \in assigned[u] : role[r].exists
                   /\ account[u].status = "absent" => assigned[u] = {}
                   /\ allow[u] \cap deny[u] = {}

\* Sessions and activities belong to accounts that were created.
Known ==
  /\ \A s \in Sessions :
       session[s] # Unused => account[session[s].user].status # "absent"
  /\ \A c \in Clients :
       client[c].doing \in {"login", "cleared", "opened", "request", "verified"} =>
         account[client[c].user].status # "absent"

\* A code that was asked for has an owner; one that was issued, an owner other
\* than SUPER.
Owned ==
  \A q \in Codes : /\ code[q].status # "NONE" => code[q].user \in Users
                   /\ code[q].status = "ISSUED" => ~Protected(code[q].user)

\* A session that is open stands on the ground it was opened on.
Grounded == \A s \in Sessions : Opened(s) => session[s].ground = GroundOf(session[s].user)

\* The logins under way that will be counted as failures of u.
Guesses(u) ==
  {c \in Clients : client[c].doing = "login" /\ client[c].user = u /\ ~client[c].right}

\* While an account is open its counter has seen every wrong password since tries was
\* reset; once it is locked only the logins under way can add to them.
Counted ==
  \A u \in Users :
    /\ ~account[u].locked => tries[u] < LockAfter - 1 /\ tries[u] <= account[u].failures
    /\ account[u].locked =>
         tries[u] + Cardinality(Guesses(u)) < LockAfter - 1 + Cardinality(Clients)

AInv == TypeOK /\ Superior /\ Holdings /\ Known /\ Owned /\ Grounded /\ Counted

-----------------------------------------------------------------------------
\* Types

\* What a client is doing has the fields that its next steps read.
LEMMA ClientForms ==
  ASSUME TypeOK, NEW c \in Clients
  PROVE  /\ client[c] \in Client
         /\ client[c].doing = "login" => client[c].user \in Users /\ client[c].right \in BOOLEAN
         /\ client[c].doing = "cleared" => client[c].user \in Users
         /\ client[c].doing = "opened" => client[c].user \in Users /\ client[c].session \in Sessions
         /\ client[c].doing \in {"request", "verified"} =>
              /\ client[c].user \in Users /\ client[c].session \in Sessions
              /\ client[c].can \subseteq Perms
         /\ client[c].doing = "redeem" => client[c].code \in Codes
BY DEF TypeOK, Client, Idle

\* Ending an activity keeps the types of what it writes.
LEMMA DoneTyped ==
  ASSUME TypeOK, NEW c \in Clients, Done(c)
  PROVE  client' \in [Clients -> Client] /\ starts' \in Nat
BY DEF TypeOK, Done, Client

\* A session that was used is a row of user_sessions.
LEMMA SessionForm ==
  ASSUME AccountsAssumption, TypeOK, NEW s \in Sessions, session[s] # Unused
  PROVE  session[s] \in Session
BY DEF TypeOK

\* Closing the sessions of some users keeps their types.
LEMMA ClosedTyped ==
  ASSUME TypeOK, NEW us, CloseSessionsOf(us)
  PROVE  session' \in [Sessions -> Session \cup {Unused}]
<1>1. \A s \in Sessions : session[s] # Unused => [session[s] EXCEPT !.open = FALSE] \in Session
  BY DEF TypeOK, Session
<1> QED BY <1>1 DEF TypeOK, CloseSessionsOf

\* What a user may do is a set of permissions, and the ground it stands on a Ground.
LEMMA PolicyGround ==
  ASSUME PolicyTypeOK, NEW u \in Users
  PROVE  Effective(u) \subseteq Perms /\ GroundOf(u) \in Ground
<1>1. \A r \in ActiveRoles(u) : RoleGrants(r) \subseteq Perms
  BY DEF PolicyTypeOK, Role, ActiveRoles, RoleGrants
<1>2. allow[u] \subseteq Perms
  BY DEF PolicyTypeOK
<1>3. Effective(u) \subseteq Perms
  <2>1. SUFFICES ASSUME NEW p \in Effective(u) PROVE p \in Perms
    OBVIOUS
  <2>2. p \in allow[u] \/ \E r \in ActiveRoles(u) : p \in RoleGrants(r)
    BY <2>1 DEF Effective
  <2> QED BY <2>2, <1>1, <1>2
<1> QED BY <1>3 DEF GroundOf, Ground, PolicyTypeOK, Account

\* The same holds by the type invariant of Accounts.
LEMMA GroundTyped ==
  ASSUME AccountsAssumption, TypeOK, NEW u \in Users
  PROVE  Effective(u) \subseteq Perms /\ GroundOf(u) \in Ground
BY PolicyGround DEF TypeOK

\* An authority is the level of an active role that is held, the highest one; a holder
\* of SUPER has the highest of all (authorization-policy.service.ts:65-84).
LEMMA AuthorityIs ==
  ASSUME AccountsAssumption, TypeOK, Superior, NEW u \in Users
  PROVE  /\ Authority(u) \in 0..role[Super].level
         /\ \A r \in ActiveRoles(u) : role[r].level <= Authority(u)
         /\ \/ ActiveRoles(u) = {} /\ Authority(u) = 0
            \/ \E r \in ActiveRoles(u) : Authority(u) = role[r].level
         /\ Protected(u) => Authority(u) = role[Super].level
<1> DEFINE levels == {role[r].level : r \in ActiveRoles(u)}
<1>1. role[Super].level \in Nat /\ Super \in Roles
  BY DEF AccountsAssumption, PolicyAssumption, TypeOK, PolicyTypeOK, Role
<1>2. ActiveRoles(u) \subseteq Roles
  BY DEF ActiveRoles, TypeOK, PolicyTypeOK
<1>3. levels \subseteq 0..role[Super].level
  BY <1>1, <1>2 DEF Superior, TypeOK, PolicyTypeOK, Role
<1>4. Protected(u) => Super \in ActiveRoles(u)
  BY DEF Protected, ActiveRoles, Superior
<1>5. Authority(u) = Maximum(levels)
  BY DEF Authority
<1>6. ActiveRoles(u) = {} => Authority(u) = 0
  BY <1>5 DEF Maximum
<1> HIDE DEF levels
<1>7. /\ Authority(u) \in 0..role[Super].level
      /\ levels # {} => Authority(u) \in levels
      /\ \A k \in levels : k <= Authority(u)
  <2>1. /\ Maximum(levels) \in 0..role[Super].level
        /\ levels # {} => Maximum(levels) \in levels
        /\ \A k \in levels : k <= Maximum(levels)
    BY <1>1, <1>3, MaximumIs, Zenon
  <2> QED BY <2>1, <1>5, Zenon
<1>8. \A r \in ActiveRoles(u) : role[r].level \in levels
  BY DEF levels
<1>9. Protected(u) => Authority(u) = role[Super].level
  <2>1. SUFFICES ASSUME Protected(u) PROVE Authority(u) = role[Super].level
    OBVIOUS
  <2>2. role[Super].level <= Authority(u)
    BY <2>1, <1>4, <1>7, <1>8
  <2> QED BY <2>2, <1>1, <1>7
<1>10. ActiveRoles(u) # {} => \E r \in ActiveRoles(u) : Authority(u) = role[r].level
  BY <1>7 DEF levels
<1> QED BY <1>6, <1>7, <1>8, <1>9, <1>10

\* An account keeps its form when a column is written.
LEMMA AccountRows ==
  ASSUME NEW a \in Account, NEW n \in Nat, NEW b \in BOOLEAN,
         NEW t \in {"absent", "active", "disabled", "deleted"}
  PROVE  /\ [a EXCEPT !.password = n] \in Account
         /\ [a EXCEPT !.failures = n] \in Account
         /\ [a EXCEPT !.locked = b] \in Account
         /\ [a EXCEPT !.status = t] \in Account
         /\ a.failures \in Nat /\ a.password \in Nat /\ a.locked \in BOOLEAN
BY DEF Account

\* A session keeps its form when a column is written.
LEMMA SessionRows ==
  ASSUME NEW a \in Session \cup {Unused}, NEW b \in BOOLEAN
  PROVE  /\ [a EXCEPT !.open = b] \in Session \cup {Unused}
         /\ [a EXCEPT !.held = b] \in Session \cup {Unused}
<1>1. CASE a = Unused
  <2>1. [Unused EXCEPT !.open = b] = Unused
    BY DEF Unused
  <2>2. [Unused EXCEPT !.held = b] = Unused
    BY DEF Unused
  <2> QED BY <1>1, <2>1, <2>2
<1>2. CASE a \in Session
  BY <1>2 DEF Session
<1> QED BY <1>1, <1>2

\* A role keeps its form when a column is written.
LEMMA RoleRows ==
  ASSUME NEW a \in Role, NEW b \in BOOLEAN, NEW codes \in SUBSET Perms
  PROVE  /\ [a EXCEPT !.active = b] \in Role
         /\ [a EXCEPT !.exists = b] \in Role
         /\ [a EXCEPT !.grants = codes] \in Role
BY DEF Role

\* A recovery code keeps its form when a column is written.
LEMMA CodeRows ==
  ASSUME NEW a \in Code, NEW n \in Nat, NEW b \in BOOLEAN,
         NEW t \in {"NONE", "PENDING", "ISSUED", "COMPLETED", "REJECTED", "EXPIRED"}
  PROVE  /\ [a EXCEPT !.status = t] \in Code
         /\ [a EXCEPT !.print = n] \in Code
         /\ [a EXCEPT !.lapsed = b] \in Code
         /\ [a EXCEPT !.recent = b] \in Code
BY DEF Code

\* Counting a failed login, and locking at LockAfter, keeps the type of the accounts
\* (auth.service.ts:57-68).
LEMMA FailureCounted ==
  ASSUME TypeOK, NEW u \in Users,
         account' = [account EXCEPT ![u].failures = @ + 1,
                                    ![u].locked = @ \/ account[u].failures + 2 >= LockAfter]
  PROVE  account' \in [Users -> Account]
<1> DEFINE one == [account[u] EXCEPT !.failures = @ + 1]
           row == [one EXCEPT !.locked = @ \/ account[u].failures + 2 >= LockAfter]
<1>1. account[u] \in Account /\ account \in [Users -> Account]
  BY DEF TypeOK, PolicyTypeOK
<1>2. account[u].failures + 1 \in Nat
  BY <1>1 DEF Account
<1>3. row \in Account
  BY <1>1, <1>2, AccountRows
<1>4. account' = [account EXCEPT ![u] = row]
  BY <1>1
<1> QED BY <1>1, <1>3, <1>4

\* A custom role is created at a level of at most 100 (access-control.service.ts).
LEMMA CustomLevelIs ==
  ASSUME NEW u, Authority(u) \in Nat
  PROVE  CustomLevel(u) \in Nat /\ CustomLevel(u) <= 100
BY DEF CustomLevel

-----------------------------------------------------------------------------

\* Every step keeps the types.
LEMMA TypesKept ==
  ASSUME AccountsAssumption, TypeOK, Superior, Owned, [Next]_vars
  PROVE  TypeOK'

<1>1. ASSUME NEW c \in Clients, NEW u \in Users, NEW right \in BOOLEAN, Login(c, u, right)
      PROVE TypeOK'
  <2>1. UNCHANGED <<account, assigned, allow, deny, role, session, code, tries>>
    BY <1>1 DEF Login, grants, Begin
  <2>2. client' \in [Clients -> Client]
    BY <1>1, ClientForms
       DEF Login, TypeOK, PolicyTypeOK, Begin, Client, Idle, Exists, Usable, Opened
  <2>3. starts' \in Nat
    BY <1>1 DEF Login, TypeOK, PolicyTypeOK, Begin
  <2> QED BY <2>1, <2>2, <2>3 DEF TypeOK, PolicyTypeOK
<1>2. ASSUME NEW c \in Clients, LoginFails(c) PROVE TypeOK'
  <2>1. UNCHANGED <<assigned, allow, deny, role, session, code>>
    BY <1>2 DEF LoginFails, grants, Done
  <2>2. account' \in [Users -> Account]
    <3>1. client[c].user \in Users
      BY <1>2, ClientForms DEF LoginFails
    <3>2. account' = [account EXCEPT ![client[c].user].failures = @ + 1,
                        ![client[c].user].locked =
                           @ \/ account[client[c].user].failures + 2 >= LockAfter]
      BY <1>2 DEF LoginFails
    <3> QED BY <3>1, <3>2, FailureCounted
  <2>3. tries' \in [Users -> Nat]
    BY <1>2, ClientForms DEF LoginFails, TypeOK, PolicyTypeOK
  <2>4. client' \in [Clients -> Client] /\ starts' \in Nat
    BY <1>2, DoneTyped DEF LoginFails
  <2> QED BY <2>1, <2>2, <2>3, <2>4 DEF TypeOK, PolicyTypeOK
<1>3. ASSUME NEW c \in Clients, LoginClears(c) PROVE TypeOK'
  <2>1. UNCHANGED <<assigned, allow, deny, role, session, code, starts>>
    BY <1>3 DEF LoginClears, grants
  <2>2. account' \in [Users -> Account]
    <3> DEFINE one == [account[client[c].user] EXCEPT !.failures = 0]
               row == [one EXCEPT !.locked = FALSE]
    <3>1. client[c].user \in Users
      BY <1>3, ClientForms DEF LoginClears
    <3>2. account[client[c].user] \in Account /\ account \in [Users -> Account]
      BY <3>1 DEF TypeOK, PolicyTypeOK
    <3>3. /\ account[client[c].user].password + 1 \in Nat
          /\ account[client[c].user].failures + 1 \in Nat
      BY <3>2 DEF Account
    <3>4. row \in Account
      BY <1>3, <3>2, <3>3, AccountRows
    <3>5. account' = [account EXCEPT ![client[c].user] = row]
      BY <1>3, <3>2 DEF LoginClears
    <3> QED BY <3>2, <3>4, <3>5
  <2>3. tries' \in [Users -> Nat]
    BY <1>3, ClientForms DEF LoginClears, TypeOK, PolicyTypeOK
  <2>4. client' \in [Clients -> Client]
    BY <1>3, ClientForms
       DEF LoginClears, TypeOK, PolicyTypeOK, Begin, Client, Idle, Exists, Usable, Opened
  <2> QED BY <2>1, <2>2, <2>3, <2>4 DEF TypeOK, PolicyTypeOK
<1>4. ASSUME NEW c \in Clients, NEW s \in Sessions, LoginOpens(c, s) PROVE TypeOK'
  <2>1. UNCHANGED <<account, assigned, allow, deny, role, code, tries, starts>>
    BY <1>4 DEF LoginOpens, grants
  <2>2. session' \in [Sessions -> Session \cup {Unused}]
    BY <1>4, ClientForms, GroundTyped, ClosedTyped DEF LoginOpens, TypeOK, PolicyTypeOK, Session
  <2>3. client' \in [Clients -> Client]
    BY <1>4, ClientForms
       DEF LoginOpens, TypeOK, PolicyTypeOK, Begin, Client, Idle, Exists, Usable, Opened
  <2> QED BY <2>1, <2>2, <2>3 DEF TypeOK, PolicyTypeOK
<1>5. ASSUME NEW c \in Clients, LoginAnswers(c) PROVE TypeOK'
  <2>1. UNCHANGED <<account, assigned, allow, deny, role, code, tries>>
    BY <1>5 DEF LoginAnswers, grants, Done
  <2>2. session' \in [Sessions -> Session \cup {Unused}]
    <3> DEFINE row == [session[client[c].session]
                         EXCEPT !.held = account[client[c].user].status = "active"]
    <3>1. client[c].session \in Sessions
      BY <1>5, ClientForms DEF LoginAnswers
    <3>2. /\ session[client[c].session] \in Session \cup {Unused}
          /\ session \in [Sessions -> Session \cup {Unused}]
      BY <3>1 DEF TypeOK, PolicyTypeOK
    <3>3. row \in Session \cup {Unused}
      BY <1>5, <3>2, SessionRows
    <3>4. session' = [session EXCEPT ![client[c].session] = row]
      BY <1>5, <3>2 DEF LoginAnswers
    <3> QED BY <3>2, <3>3, <3>4
  <2>3. client' \in [Clients -> Client] /\ starts' \in Nat
    BY <1>5, DoneTyped DEF LoginAnswers
  <2> QED BY <2>1, <2>2, <2>3 DEF TypeOK, PolicyTypeOK
<1>6. ASSUME NEW c \in Clients, NEW s \in Sessions, Guard(c, s) PROVE TypeOK'
  <2>1. UNCHANGED <<account, assigned, allow, deny, role, session, code, tries>>
    BY <1>6 DEF Guard, grants, Begin
  <2>2. client' \in [Clients -> Client]
    <3>1. session[s] \in Session
      BY <1>6, SessionForm DEF Guard, Usable, Opened
    <3>2. session[s].user \in Users /\ Effective(session[s].user) \subseteq Perms
      BY <3>1, GroundTyped DEF Session
    <3> QED BY <1>6, <3>2 DEF Guard, Begin, TypeOK, Client
  <2>3. starts' \in Nat
    BY <1>6 DEF Guard, TypeOK, PolicyTypeOK, Begin
  <2> QED BY <2>1, <2>2, <2>3 DEF TypeOK, PolicyTypeOK
<1>7. ASSUME NEW c \in Clients, Answer(c) PROVE TypeOK'
  <2>1. UNCHANGED <<account, assigned, allow, deny, role, session, code, tries>>
    BY <1>7 DEF Answer, grants, Done
  <2>2. client' \in [Clients -> Client] /\ starts' \in Nat
    BY <1>7, DoneTyped DEF Answer
  <2> QED BY <2>1, <2>2 DEF TypeOK, PolicyTypeOK
<1>8. ASSUME NEW c \in Clients, Logout(c) PROVE TypeOK'
  <2>1. UNCHANGED <<account, assigned, allow, deny, role, code, tries>>
    BY <1>8 DEF Logout, grants, Done
  <2>2. session' \in [Sessions -> Session \cup {Unused}]
    <3> DEFINE row == [session[client[c].session] EXCEPT !.open = FALSE]
    <3>1. client[c].session \in Sessions
      BY <1>8, ClientForms DEF Logout
    <3>2. /\ session[client[c].session] \in Session \cup {Unused}
          /\ session \in [Sessions -> Session \cup {Unused}]
      BY <3>1 DEF TypeOK, PolicyTypeOK
    <3>3. row \in Session \cup {Unused}
      BY <1>8, <3>2, SessionRows
    <3>4. session' = [session EXCEPT ![client[c].session] = row]
      BY <1>8, <3>2 DEF Logout
    <3> QED BY <3>2, <3>3, <3>4
  <2>3. client' \in [Clients -> Client] /\ starts' \in Nat
    BY <1>8, DoneTyped DEF Logout
  <2> QED BY <2>1, <2>2, <2>3 DEF TypeOK, PolicyTypeOK
<1>9. ASSUME NEW c \in Clients, VerifyPassword(c) PROVE TypeOK'
  <2>1. UNCHANGED <<account, assigned, allow, deny, role, session, code, tries, starts>>
    BY <1>9 DEF VerifyPassword, grants
  <2>2. client' \in [Clients -> Client]
    BY <1>9, ClientForms
       DEF VerifyPassword, TypeOK, PolicyTypeOK, Begin, Client, Idle, Exists, Usable, Opened
  <2> QED BY <2>1, <2>2 DEF TypeOK, PolicyTypeOK
<1>10. ASSUME NEW c \in Clients, ChangePassword(c) PROVE TypeOK'
  <2>1. UNCHANGED <<assigned, allow, deny, role, code, tries>>
    BY <1>10 DEF ChangePassword, grants, Done
  <2>2. account' \in [Users -> Account]
    <3> DEFINE row == [account[client[c].user] EXCEPT !.password = @ + 1]
    <3>1. client[c].user \in Users
      BY <1>10, ClientForms DEF ChangePassword
    <3>2. account[client[c].user] \in Account /\ account \in [Users -> Account]
      BY <3>1 DEF TypeOK, PolicyTypeOK
    <3>3. /\ account[client[c].user].password + 1 \in Nat
          /\ account[client[c].user].failures + 1 \in Nat
      BY <3>2 DEF Account
    <3>4. row \in Account
      BY <1>10, <3>2, <3>3, AccountRows
    <3>5. account' = [account EXCEPT ![client[c].user] = row]
      BY <1>10, <3>2 DEF ChangePassword
    <3> QED BY <3>2, <3>4, <3>5
  <2>3. session' \in [Sessions -> Session \cup {Unused}]
    BY <1>10, ClosedTyped DEF ChangePassword
  <2>4. client' \in [Clients -> Client] /\ starts' \in Nat
    BY <1>10, DoneTyped DEF ChangePassword
  <2> QED BY <2>1, <2>2, <2>3, <2>4 DEF TypeOK, PolicyTypeOK
<1>11. ASSUME NEW c \in Clients, NEW u \in Users, NEW rs \in RoleChoices, CreateUser(c, u, rs)
      PROVE TypeOK'
  <2>1. UNCHANGED <<allow, deny, role, session, code, tries>>
    BY <1>11 DEF CreateUser, grants, Done
  <2>2. account' \in [Users -> Account]
    BY <1>11, ClientForms DEF CreateUser, TypeOK, PolicyTypeOK, Account, UserChanges
  <2>3. assigned' \in [Users -> SUBSET Roles]
    BY <1>11, AccountsAssumption DEF CreateUser, TypeOK, PolicyTypeOK, AccountsAssumption
  <2>4. client' \in [Clients -> Client] /\ starts' \in Nat
    BY <1>11, DoneTyped DEF CreateUser
  <2> QED BY <2>1, <2>2, <2>3, <2>4 DEF TypeOK, PolicyTypeOK
<1>12. ASSUME NEW c \in Clients, NEW u \in Users, NEW rs \in RoleChoices, SetUserRoles(c, u, rs)
      PROVE TypeOK'
  <2>1. UNCHANGED <<account, allow, deny, role, code, tries>>
    BY <1>12 DEF SetUserRoles, grants, Done
  <2>2. assigned' \in [Users -> SUBSET Roles]
    BY <1>12, AccountsAssumption DEF SetUserRoles, TypeOK, PolicyTypeOK, AccountsAssumption
  <2>3. session' \in [Sessions -> Session \cup {Unused}]
    BY <1>12, ClosedTyped DEF SetUserRoles
  <2>4. client' \in [Clients -> Client] /\ starts' \in Nat
    BY <1>12, DoneTyped DEF SetUserRoles
  <2> QED BY <2>1, <2>2, <2>3, <2>4 DEF TypeOK, PolicyTypeOK
<1>13. ASSUME NEW c \in Clients, NEW u \in Users, ResetPassword(c, u) PROVE TypeOK'
  <2>1. UNCHANGED <<assigned, allow, deny, role, code>>
    BY <1>13 DEF ResetPassword, grants, Done
  <2>2. account' \in [Users -> Account]
    <3> DEFINE one == [account[u] EXCEPT !.password = @ + 1]
               two == [one EXCEPT !.failures = 0]
               row == [two EXCEPT !.locked = FALSE]
    <3>1. u \in Users
      BY <1>13
    <3>2. account[u] \in Account /\ account \in [Users -> Account]
      BY <3>1 DEF TypeOK, PolicyTypeOK
    <3>3. account[u].password + 1 \in Nat /\ account[u].failures + 1 \in Nat
      BY <3>2 DEF Account
    <3>4. row \in Account
      BY <1>13, <3>2, <3>3, AccountRows
    <3>5. account' = [account EXCEPT ![u] = row]
      BY <1>13, <3>2 DEF ResetPassword
    <3> QED BY <3>2, <3>4, <3>5
  <2>3. tries' \in [Users -> Nat]
    BY <1>13, ClientForms DEF ResetPassword, TypeOK, PolicyTypeOK
  <2>4. session' \in [Sessions -> Session \cup {Unused}]
    BY <1>13, ClosedTyped DEF ResetPassword
  <2>5. client' \in [Clients -> Client] /\ starts' \in Nat
    BY <1>13, DoneTyped DEF ResetPassword
  <2> QED BY <2>1, <2>2, <2>3, <2>4, <2>5 DEF TypeOK, PolicyTypeOK
<1>14. ASSUME NEW c \in Clients, NEW u \in Users, NEW active \in BOOLEAN,
              SetUserActive(c, u, active)
      PROVE TypeOK'
  <2>1. UNCHANGED <<assigned, allow, deny, role, code, tries>>
    BY <1>14 DEF SetUserActive, grants, Done
  <2>2. account' \in [Users -> Account]
    <3> DEFINE row == [account[u] EXCEPT !.status = IF active THEN "active" ELSE "disabled"]
    <3>1. u \in Users
      BY <1>14
    <3>2. account[u] \in Account /\ account \in [Users -> Account]
      BY <3>1 DEF TypeOK, PolicyTypeOK
    <3>3. account[u].password + 1 \in Nat /\ account[u].failures + 1 \in Nat
      BY <3>2 DEF Account
    <3>4. row \in Account
      BY <1>14, <3>2, <3>3, AccountRows
    <3>5. account' = [account EXCEPT ![u] = row]
      BY <1>14, <3>2 DEF SetUserActive
    <3> QED BY <3>2, <3>4, <3>5
  <2>3. session' \in [Sessions -> Session \cup {Unused}]
    BY <1>14, ClientForms, GroundTyped, ClosedTyped DEF SetUserActive, TypeOK, PolicyTypeOK, Session
  <2>4. client' \in [Clients -> Client] /\ starts' \in Nat
    BY <1>14, DoneTyped DEF SetUserActive
  <2> QED BY <2>1, <2>2, <2>3, <2>4 DEF TypeOK, PolicyTypeOK
<1>15. ASSUME NEW c \in Clients, NEW u \in Users, NEW change \in UserChanges,
              ChangeUser(c, u, change)
      PROVE TypeOK'
  <2>1. UNCHANGED <<assigned, allow, deny, role, code, tries>>
    BY <1>15 DEF ChangeUser, grants, Done
  <2>0. change.to \in {"active", "disabled", "deleted"}
    BY <1>15 DEF UserChanges
  <2>2. account' \in [Users -> Account]
    <3> DEFINE row == [account[u] EXCEPT !.status = change.to]
    <3>1. u \in Users
      BY <1>15
    <3>2. account[u] \in Account /\ account \in [Users -> Account]
      BY <3>1 DEF TypeOK, PolicyTypeOK
    <3>3. account[u].password + 1 \in Nat /\ account[u].failures + 1 \in Nat
      BY <3>2 DEF Account
    <3>4. row \in Account
      BY <1>15, <3>2, <3>3, AccountRows, <2>0
    <3>5. account' = [account EXCEPT ![u] = row]
      BY <1>15, <3>2 DEF ChangeUser
    <3> QED BY <3>2, <3>4, <3>5
  <2>3. session' \in [Sessions -> Session \cup {Unused}]
    BY <1>15, ClosedTyped DEF ChangeUser
  <2>4. client' \in [Clients -> Client] /\ starts' \in Nat
    BY <1>15, DoneTyped DEF ChangeUser
  <2> QED BY <2>1, <2>2, <2>3, <2>4 DEF TypeOK, PolicyTypeOK
<1>16. ASSUME NEW c \in Clients, NEW u \in Users, NEW al \in GrantChoices, NEW de \in GrantChoices,
              UpdateUserPermissions(c, u, al, de)
      PROVE TypeOK'
  <2>1. UNCHANGED <<account, assigned, role, code, tries>>
    BY <1>16 DEF UpdateUserPermissions, grants, Done
  <2>2. allow' \in [Users -> SUBSET Perms]
    BY <1>16, AccountsAssumption DEF UpdateUserPermissions, TypeOK, PolicyTypeOK, AccountsAssumption
  <2>3. deny' \in [Users -> SUBSET Perms]
    BY <1>16, AccountsAssumption DEF UpdateUserPermissions, TypeOK, PolicyTypeOK, AccountsAssumption
  <2>4. session' \in [Sessions -> Session \cup {Unused}]
    BY <1>16, ClosedTyped DEF UpdateUserPermissions
  <2>5. client' \in [Clients -> Client] /\ starts' \in Nat
    BY <1>16, DoneTyped DEF UpdateUserPermissions
  <2> QED BY <2>1, <2>2, <2>3, <2>4, <2>5 DEF TypeOK, PolicyTypeOK
<1>17. ASSUME NEW c \in Clients, NEW r \in Roles, CreateRole(c, r) PROVE TypeOK'
  <2>1. UNCHANGED <<account, assigned, allow, deny, session, code, tries>>
    BY <1>17 DEF CreateRole, grants, Done
  <2>2. role' \in [Roles -> Role]
    <3>1. CustomLevel(client[c].user) \in Nat
      BY <1>17, ClientForms, AuthorityIs, CustomLevelIs DEF CreateRole, Permitted
    <3>2. [exists |-> TRUE, active |-> TRUE, level |-> CustomLevel(client[c].user), grants |-> {}]
            \in Role
      BY <3>1 DEF Role
    <3> QED BY <1>17, <3>2 DEF CreateRole, TypeOK, PolicyTypeOK
  <2>3. client' \in [Clients -> Client] /\ starts' \in Nat
    BY <1>17, DoneTyped DEF CreateRole
  <2> QED BY <2>1, <2>2, <2>3 DEF TypeOK, PolicyTypeOK
<1>18. ASSUME NEW c \in Clients, NEW r \in Roles, NEW active \in BOOLEAN, UpdateRole(c, r, active)
      PROVE TypeOK'
  <2>1. UNCHANGED <<account, assigned, allow, deny, code, tries>>
    BY <1>18 DEF UpdateRole, grants, Done
  <2>2. role' \in [Roles -> Role]
    <3> DEFINE row == [role[r] EXCEPT !.active = active]
    <3>1. r \in Roles
      BY <1>18
    <3>2. role[r] \in Role /\ role \in [Roles -> Role]
      BY <3>1 DEF TypeOK, PolicyTypeOK
    <3>3. row \in Role
      BY <1>18, <3>2, RoleRows
    <3>4. role' = [role EXCEPT ![r] = row]
      BY <1>18, <3>2 DEF UpdateRole
    <3> QED BY <3>2, <3>3, <3>4
  <2>3. session' \in [Sessions -> Session \cup {Unused}]
    BY <1>18, ClosedTyped DEF UpdateRole
  <2>4. client' \in [Clients -> Client] /\ starts' \in Nat
    BY <1>18, DoneTyped DEF UpdateRole
  <2> QED BY <2>1, <2>2, <2>3, <2>4 DEF TypeOK, PolicyTypeOK
<1>19. ASSUME NEW c \in Clients, NEW r \in Roles, NEW codes \in GrantChoices,
              UpdateRolePermissions(c, r, codes)
      PROVE TypeOK'
  <2>1. UNCHANGED <<account, assigned, allow, deny, code, tries>>
    BY <1>19 DEF UpdateRolePermissions, grants, Done
  <2>2. role' \in [Roles -> Role]
    <3> DEFINE row == [role[r] EXCEPT !.grants = codes]
    <3>1. r \in Roles
      BY <1>19
    <3>2. role[r] \in Role /\ role \in [Roles -> Role]
      BY <3>1 DEF TypeOK, PolicyTypeOK
    <3>3. row \in Role
      BY <1>19, <3>2, RoleRows, AccountsAssumption DEF AccountsAssumption
    <3>4. role' = [role EXCEPT ![r] = row]
      BY <1>19, <3>2 DEF UpdateRolePermissions
    <3> QED BY <3>2, <3>3, <3>4
  <2>3. session' \in [Sessions -> Session \cup {Unused}]
    BY <1>19, ClosedTyped DEF UpdateRolePermissions
  <2>4. client' \in [Clients -> Client] /\ starts' \in Nat
    BY <1>19, DoneTyped DEF UpdateRolePermissions
  <2> QED BY <2>1, <2>2, <2>3, <2>4 DEF TypeOK, PolicyTypeOK
<1>20. ASSUME NEW c \in Clients, NEW r \in Roles, DeleteRole(c, r) PROVE TypeOK'
  <2>1. UNCHANGED <<account, assigned, allow, deny, session, code, tries>>
    BY <1>20 DEF DeleteRole, grants, Done
  <2>2. role' \in [Roles -> Role]
    <3> DEFINE row == [role[r] EXCEPT !.exists = FALSE]
    <3>1. r \in Roles
      BY <1>20
    <3>2. role[r] \in Role /\ role \in [Roles -> Role]
      BY <3>1 DEF TypeOK, PolicyTypeOK
    <3>3. row \in Role
      BY <1>20, <3>2, RoleRows
    <3>4. role' = [role EXCEPT ![r] = row]
      BY <1>20, <3>2 DEF DeleteRole
    <3> QED BY <3>2, <3>3, <3>4
  <2>3. client' \in [Clients -> Client] /\ starts' \in Nat
    BY <1>20, DoneTyped DEF DeleteRole
  <2> QED BY <2>1, <2>2, <2>3 DEF TypeOK, PolicyTypeOK
<1>21. ASSUME NEW c \in Clients, NEW q \in Codes, IssueRecovery(c, q) PROVE TypeOK'
  <2>1. UNCHANGED <<account, assigned, allow, deny, role, session, tries>>
    BY <1>21 DEF IssueRecovery, grants, Done
  <2>0. account[code[q].user].password \in Nat
    BY <1>21 DEF IssueRecovery, Owned, TypeOK, PolicyTypeOK, Account
  <2>2. code' \in [Codes -> Code]
    <3> DEFINE one == [code[q] EXCEPT !.status = "ISSUED"]
               row == [one EXCEPT !.print = account[code[q].user].password]
    <3>1. q \in Codes
      BY <1>21
    <3>2. code[q] \in Code /\ code \in [Codes -> Code]
      BY <3>1 DEF TypeOK, PolicyTypeOK
    <3>3. row \in Code
      BY <1>21, <3>2, CodeRows, <2>0
    <3>4. code' = [code EXCEPT ![q] = row]
      BY <1>21, <3>2 DEF IssueRecovery
    <3> QED BY <3>2, <3>3, <3>4
  <2>3. client' \in [Clients -> Client] /\ starts' \in Nat
    BY <1>21, DoneTyped DEF IssueRecovery
  <2> QED BY <2>1, <2>2, <2>3 DEF TypeOK, PolicyTypeOK
<1>22. ASSUME NEW c \in Clients, NEW q \in Codes, RejectRecovery(c, q) PROVE TypeOK'
  <2>1. UNCHANGED <<account, assigned, allow, deny, role, session, tries>>
    BY <1>22 DEF RejectRecovery, grants, Done
  <2>2. code' \in [Codes -> Code]
    <3> DEFINE row == [code[q] EXCEPT !.status = "REJECTED"]
    <3>1. q \in Codes
      BY <1>22
    <3>2. code[q] \in Code /\ code \in [Codes -> Code]
      BY <3>1 DEF TypeOK, PolicyTypeOK
    <3>3. row \in Code
      BY <1>22, <3>2, CodeRows
    <3>4. code' = [code EXCEPT ![q] = row]
      BY <1>22, <3>2 DEF RejectRecovery
    <3> QED BY <3>2, <3>3, <3>4
  <2>3. client' \in [Clients -> Client] /\ starts' \in Nat
    BY <1>22, DoneTyped DEF RejectRecovery
  <2> QED BY <2>1, <2>2, <2>3 DEF TypeOK, PolicyTypeOK
<1>23. ASSUME NEW c \in Clients, NEW q \in Codes, Redeem(c, q) PROVE TypeOK'
  <2>1. UNCHANGED <<account, assigned, allow, deny, role, session, code, tries>>
    BY <1>23 DEF Redeem, grants, Begin
  <2>2. client' \in [Clients -> Client]
    BY <1>23, ClientForms
       DEF Redeem, TypeOK, PolicyTypeOK, Begin, Client, Idle, Exists, Usable, Opened
  <2>3. starts' \in Nat
    BY <1>23 DEF Redeem, TypeOK, PolicyTypeOK, Begin
  <2> QED BY <2>1, <2>2, <2>3 DEF TypeOK, PolicyTypeOK
<1>24. ASSUME NEW c \in Clients, NEW s \in Sessions, RevokeSession(c, s) PROVE TypeOK'
  <2>1. UNCHANGED <<account, assigned, allow, deny, role, code, tries>>
    BY <1>24 DEF RevokeSession, grants, Done
  <2>2. session' \in [Sessions -> Session \cup {Unused}]
    <3> DEFINE row == [session[s] EXCEPT !.open = FALSE]
    <3>1. s \in Sessions
      BY <1>24
    <3>2. session[s] \in Session \cup {Unused} /\ session \in [Sessions -> Session \cup {Unused}]
      BY <3>1 DEF TypeOK, PolicyTypeOK
    <3>3. row \in Session \cup {Unused}
      BY <1>24, <3>2, SessionRows
    <3>4. session' = [session EXCEPT ![s] = row]
      BY <1>24, <3>2 DEF RevokeSession
    <3> QED BY <3>2, <3>3, <3>4
  <2>3. client' \in [Clients -> Client] /\ starts' \in Nat
    BY <1>24, DoneTyped DEF RevokeSession
  <2> QED BY <2>1, <2>2, <2>3 DEF TypeOK, PolicyTypeOK
<1>25. ASSUME NEW c \in Clients, CompleteRecovery(c) PROVE TypeOK'
  <2> DEFINE q == client[c].code
             u == code[q].user
  <2>1. client' \in [Clients -> Client] /\ starts' \in Nat
    BY <1>25, DoneTyped DEF CompleteRecovery
  <2>2. UNCHANGED <<assigned, allow, deny, role>>
    BY <1>25 DEF CompleteRecovery, grants
  <2>3. CASE CodeIsValid(q)
    <3> DEFINE one == [account[u] EXCEPT !.password = @ + 1]
               two == [one EXCEPT !.failures = 0]
               row == [two EXCEPT !.locked = FALSE]
               used == [code[q] EXCEPT !.status = "COMPLETED"]
               blank == [used EXCEPT !.print = 0]
    <3>1. q \in Codes /\ code[q] \in Code /\ code \in [Codes -> Code]
      BY <1>25, ClientForms DEF CompleteRecovery, TypeOK
    <3>2. u \in Users
      BY <2>3, <3>1 DEF CodeIsValid, Owned
    <3>3. account[u] \in Account /\ account \in [Users -> Account]
      BY <3>2 DEF TypeOK, PolicyTypeOK
    <3>4. account[u].password + 1 \in Nat
      BY <3>3 DEF Account
    <3>5. row \in Account
      BY <3>3, <3>4, AccountRows
    <3>6. blank \in Code
      BY <3>1, <3>2, CodeRows
    <3>7. /\ account' = [account EXCEPT ![u] = row]
          /\ code' = [code EXCEPT ![q] = blank]
          /\ tries' = [tries EXCEPT ![u] = 0]
          /\ CloseSessionsOf({u})
      <4>1. /\ account' = [account EXCEPT ![u].password = @ + 1, ![u].failures = 0,
                                          ![u].locked = FALSE]
            /\ code' = [code EXCEPT ![q].status = "COMPLETED", ![q].print = 0]
            /\ tries' = [tries EXCEPT ![u] = 0]
            /\ CloseSessionsOf({u})
        BY <1>25, <2>3, ZenonT(30) DEF CompleteRecovery
      <4>2. account' = [account EXCEPT ![u] = row]
        BY <4>1, <3>3, Zenon
      <4>3. code' = [code EXCEPT ![q] = blank]
        BY <4>1, <3>1
      <4> QED BY <4>1, <4>2, <4>3
    <3>8. session' \in [Sessions -> Session \cup {Unused}]
      BY <3>7, ClosedTyped
    <3>9. account' \in [Users -> Account] /\ code' \in [Codes -> Code]
      BY <3>1, <3>3, <3>5, <3>6, <3>7
    <3>10. tries' \in [Users -> Nat]
      BY <3>7 DEF TypeOK
    <3> QED BY <2>1, <2>2, <3>8, <3>9, <3>10 DEF TypeOK, PolicyTypeOK
  <2>4. CASE ~CodeIsValid(q)
    <3>1. UNCHANGED <<account, tries, session, code>>
      BY <1>25, <2>4 DEF CompleteRecovery
    <3> QED BY <2>1, <2>2, <3>1 DEF TypeOK, PolicyTypeOK
  <2> QED BY <2>3, <2>4
<1>26. ASSUME NEW u \in Users, NEW q \in Codes, RequestRecovery(u, q) PROVE TypeOK'
  <2> DEFINE mine == {p \in Codes : code[p].user = u}
             lapsed == {p \in mine : code[p].status = "ISSUED" /\ code[p].lapsed}
             expired == [p \in Codes |-> IF p \in lapsed THEN [code[p] EXCEPT !.status = "EXPIRED"]
                                         ELSE code[p]]
             mineNow == [NoCode EXCEPT !.user = u]
             pending == [mineNow EXCEPT !.status = "PENDING"]
             fresh == [pending EXCEPT !.recent = TRUE]
  <2>1. UNCHANGED <<account, assigned, allow, deny, role, session, client, tries, starts>>
    BY <1>26 DEF RequestRecovery, grants
  <2>2. expired \in [Codes -> Code]
    <3>1. \A p \in Codes : [code[p] EXCEPT !.status = "EXPIRED"] \in Code
      BY CodeRows DEF TypeOK
    <3> QED BY <3>1 DEF TypeOK
  <2>3. fresh \in Code
    <3>1. mineNow \in Code
      BY DEF NoCode, Code
    <3> HIDE DEF mineNow
    <3> QED BY <3>1, CodeRows
  <2>4. code' = expired \/ code' = [expired EXCEPT ![q] = fresh]
    <3> DEFINE asked == [NoCode EXCEPT !.user = u, !.status = "PENDING", !.recent = TRUE]
    <3>1. asked = fresh
      OBVIOUS
    <3>2. code' = expired \/ code' = [expired EXCEPT ![q] = asked]
      BY <1>26, Zenon DEF RequestRecovery
    <3> QED BY <3>1, <3>2, Zenon
  <2> HIDE DEF expired, fresh
  <2>5. code' \in [Codes -> Code]
    BY <2>2, <2>3, <2>4
  <2> QED BY <2>1, <2>5 DEF TypeOK, PolicyTypeOK
<1>27. ASSUME NEW u \in Users, LockLapses(u) PROVE TypeOK'
  <2>1. UNCHANGED <<assigned, allow, deny, role, session, code, client, starts>>
    BY <1>27 DEF LockLapses, grants
  <2>2. account' \in [Users -> Account]
    <3> DEFINE row == [account[u] EXCEPT !.locked = FALSE]
    <3>1. u \in Users
      BY <1>27
    <3>2. account[u] \in Account /\ account \in [Users -> Account]
      BY <3>1 DEF TypeOK, PolicyTypeOK
    <3>3. account[u].password + 1 \in Nat /\ account[u].failures + 1 \in Nat
      BY <3>2 DEF Account
    <3>4. row \in Account
      BY <1>27, <3>2, <3>3, AccountRows
    <3>5. account' = [account EXCEPT ![u] = row]
      BY <1>27, <3>2 DEF LockLapses
    <3> QED BY <3>2, <3>4, <3>5
  <2>3. tries' \in [Users -> Nat]
    BY <1>27, ClientForms DEF LockLapses, TypeOK, PolicyTypeOK
  <2> QED BY <2>1, <2>2, <2>3 DEF TypeOK, PolicyTypeOK
<1>28. ASSUME NEW s \in Sessions, SessionExpires(s) PROVE TypeOK'
  <2>1. UNCHANGED <<account, assigned, allow, deny, role, code, client, tries, starts>>
    BY <1>28 DEF SessionExpires, grants
  <2>2. session' \in [Sessions -> Session \cup {Unused}]
    <3> DEFINE row == [session[s] EXCEPT !.open = FALSE]
    <3>1. s \in Sessions
      BY <1>28
    <3>2. session[s] \in Session \cup {Unused} /\ session \in [Sessions -> Session \cup {Unused}]
      BY <3>1 DEF TypeOK, PolicyTypeOK
    <3>3. row \in Session \cup {Unused}
      BY <1>28, <3>2, SessionRows
    <3>4. session' = [session EXCEPT ![s] = row]
      BY <1>28, <3>2 DEF SessionExpires
    <3> QED BY <3>2, <3>3, <3>4
  <2> QED BY <2>1, <2>2 DEF TypeOK, PolicyTypeOK
<1>29. ASSUME NEW q \in Codes, CodeLapses(q) PROVE TypeOK'
  <2>1. UNCHANGED <<account, assigned, allow, deny, role, session, client, tries, starts>>
    BY <1>29 DEF CodeLapses, grants
  <2>2. code' \in [Codes -> Code]
    <3> DEFINE row == [code[q] EXCEPT !.lapsed = TRUE]
    <3>1. q \in Codes
      BY <1>29
    <3>2. code[q] \in Code /\ code \in [Codes -> Code]
      BY <3>1 DEF TypeOK, PolicyTypeOK
    <3>3. row \in Code
      BY <1>29, <3>2, CodeRows
    <3>4. code' = [code EXCEPT ![q] = row]
      BY <1>29, <3>2 DEF CodeLapses
    <3> QED BY <3>2, <3>3, <3>4
  <2> QED BY <2>1, <2>2 DEF TypeOK, PolicyTypeOK
<1>30. ASSUME NEW q \in Codes, HourPasses(q) PROVE TypeOK'
  <2>1. UNCHANGED <<account, assigned, allow, deny, role, session, client, tries, starts>>
    BY <1>30 DEF HourPasses, grants
  <2>2. code' \in [Codes -> Code]
    <3> DEFINE row == [code[q] EXCEPT !.recent = FALSE]
    <3>1. q \in Codes
      BY <1>30
    <3>2. code[q] \in Code /\ code \in [Codes -> Code]
      BY <3>1 DEF TypeOK, PolicyTypeOK
    <3>3. row \in Code
      BY <1>30, <3>2, CodeRows
    <3>4. code' = [code EXCEPT ![q] = row]
      BY <1>30, <3>2 DEF HourPasses
    <3> QED BY <3>2, <3>3, <3>4
  <2> QED BY <2>1, <2>2 DEF TypeOK, PolicyTypeOK
<1>31. CASE UNCHANGED vars
  BY <1>31 DEF vars, TypeOK, PolicyTypeOK
<1>32. CASE Next
  <2>1. ASSUME NEW c \in Clients, SigningIn(c) PROVE TypeOK'
    BY <2>1, <1>1, <1>2, <1>3, <1>4, <1>5 DEF SigningIn
  <2>2. ASSUME NEW c \in Clients, OwnAccount(c) PROVE TypeOK'
    BY <2>2, <1>6, <1>7, <1>8, <1>9, <1>10, Zenon DEF OwnAccount
  <2>3. ASSUME NEW c \in Clients, AccountAdministration(c) PROVE TypeOK'
    BY <2>3, <1>11, <1>12, <1>13, <1>14, <1>15, <1>16 DEF AccountAdministration
  <2>4. ASSUME NEW c \in Clients, RoleAdministration(c) PROVE TypeOK'
    BY <2>4, <1>17, <1>18, <1>19, <1>20 DEF RoleAdministration
  <2>5. ASSUME NEW c \in Clients, Recovering(c) PROVE TypeOK'
    BY <2>5, <1>21, <1>22, <1>23, Zenon DEF Recovering
  <2>6. ASSUME Time PROVE TypeOK'
    BY <2>6, <1>27, <1>28, <1>29, <1>30, Zenon DEF Time
  <2> QED BY <1>32, <1>24, <1>25, <1>26, <2>1, <2>2, <2>3, <2>4, <2>5, <2>6, Zenon DEF Next
<1> QED BY <1>31, <1>32

-----------------------------------------------------------------------------
\* What the steps write

\* Only the administration of roles writes roles.
LEMMA RoleSteps ==
  ASSUME [Next]_vars
  PROVE  role' = role \/ \E c \in Clients : RoleAdministration(c)
<1>1. ASSUME NEW c \in Clients, SigningIn(c) PROVE role' = role
  BY <1>1 DEF SigningIn, Login, LoginFails, LoginClears, LoginOpens, LoginAnswers, grants
<1>2. ASSUME NEW c \in Clients, OwnAccount(c) PROVE role' = role
  BY <1>2 DEF OwnAccount, Guard, Answer, Logout, VerifyPassword, ChangePassword, grants
<1>3. ASSUME NEW c \in Clients, AccountAdministration(c) PROVE role' = role
  BY <1>3 DEF AccountAdministration, CreateUser, SetUserRoles, ResetPassword, SetUserActive,
              ChangeUser, UpdateUserPermissions, grants
<1>4. ASSUME NEW c \in Clients, Recovering(c) PROVE role' = role
  BY <1>4 DEF Recovering, IssueRecovery, RejectRecovery, Redeem, grants
<1>5. ASSUME NEW c \in Clients, NEW s \in Sessions, RevokeSession(c, s) PROVE role' = role
  BY <1>5 DEF RevokeSession, grants
<1>6. ASSUME NEW c \in Clients, CompleteRecovery(c) PROVE role' = role
  BY <1>6 DEF CompleteRecovery, grants
<1>7. ASSUME NEW u \in Users, NEW q \in Codes, RequestRecovery(u, q) PROVE role' = role
  BY <1>7 DEF RequestRecovery, grants
<1>8. ASSUME Time PROVE role' = role
  BY <1>8 DEF Time, LockLapses, SessionExpires, CodeLapses, HourPasses, grants
<1>9. CASE UNCHANGED vars
  BY <1>9 DEF vars
<1> QED BY <1>1, <1>2, <1>3, <1>4, <1>5, <1>6, <1>7, <1>8, <1>9, Zenon DEF Next

\* No step switches SUPER off or puts a role above it.
LEMMA SuperiorKept ==
  ASSUME AccountsAssumption, TypeOK, Superior, [Next]_vars
  PROVE  Superior'
<1>0. Super \in Roles /\ role \in [Roles -> Role]
  BY DEF AccountsAssumption, PolicyAssumption, TypeOK, PolicyTypeOK
<1>1. CASE role' = role
  BY <1>1 DEF Superior
<1>2. ASSUME NEW c \in Clients, NEW r \in Roles, CreateRole(c, r) PROVE Superior'
  <2>1. r # Super
    BY <1>2 DEF CreateRole, Superior
  <2>2. CustomLevel(client[c].user) <= 100 /\ CustomLevel(client[c].user) \in Nat
    BY <1>2, ClientForms, AuthorityIs, CustomLevelIs DEF CreateRole, Permitted
  <2>3. role'[Super] = role[Super] /\ role'[r].level = CustomLevel(client[c].user)
    BY <1>0, <1>2, <2>1 DEF CreateRole
  <2>4. \A o \in Roles \ {r} : role'[o] = role[o]
    BY <1>0, <1>2 DEF CreateRole
  <2>5. role[Super].level \in Nat
    BY <1>0 DEF Role
  <2> QED BY <2>2, <2>3, <2>4, <2>5, <1>0 DEF Superior
<1>3. ASSUME NEW c \in Clients, NEW r \in Roles, NEW active \in BOOLEAN, UpdateRole(c, r, active)
      PROVE Superior'
  <2>1. r # Super
    BY <1>3 DEF UpdateRole, CanManageRole
  <2>2. role'[Super] = role[Super] /\ \A o \in Roles : role'[o].level = role[o].level
    BY <1>0, <1>3, <2>1 DEF UpdateRole, Role
  <2> QED BY <2>2, <1>0 DEF Superior
<1>4. ASSUME NEW c \in Clients, NEW r \in Roles, NEW codes \in GrantChoices,
             UpdateRolePermissions(c, r, codes)
      PROVE Superior'
  <2>1. r # Super
    BY <1>4 DEF UpdateRolePermissions, CanManageRole
  <2>2. role'[Super] = role[Super] /\ \A o \in Roles : role'[o].level = role[o].level
    BY <1>0, <1>4, <2>1 DEF UpdateRolePermissions, Role
  <2> QED BY <2>2, <1>0 DEF Superior
<1>5. ASSUME NEW c \in Clients, NEW r \in Roles, DeleteRole(c, r) PROVE Superior'
  <2>1. r # Super
    BY <1>5 DEF DeleteRole, CanManageRole
  <2>2. role'[Super] = role[Super] /\ \A o \in Roles : role'[o].level = role[o].level
    BY <1>0, <1>5, <2>1 DEF DeleteRole, Role
  <2> QED BY <2>2, <1>0 DEF Superior
<1>6. ASSUME NEW c \in Clients, RoleAdministration(c) PROVE Superior'
  BY <1>6, <1>2, <1>3, <1>4, <1>5 DEF RoleAdministration
<1> QED BY <1>1, <1>6, RoleSteps

\* Only two handlers write user_roles, and only one the overrides.
LEMMA HoldingSteps ==
  ASSUME [Next]_vars
  PROVE  /\ \/ assigned' = assigned
            \/ \E c \in Clients, u \in Users, rs \in RoleChoices :
                 CreateUser(c, u, rs) \/ SetUserRoles(c, u, rs)
         /\ \/ allow' = allow /\ deny' = deny
            \/ \E c \in Clients, u \in Users, al, de \in GrantChoices :
                 UpdateUserPermissions(c, u, al, de)
<1> DEFINE Goal == /\ \/ assigned' = assigned
                      \/ \E c \in Clients, u \in Users, rs \in RoleChoices :
                           CreateUser(c, u, rs) \/ SetUserRoles(c, u, rs)
                   /\ \/ allow' = allow /\ deny' = deny
                      \/ \E c \in Clients, u \in Users, al, de \in GrantChoices :
                           UpdateUserPermissions(c, u, al, de)
<1>0. ASSUME UNCHANGED <<assigned, allow, deny>> PROVE Goal
  BY <1>0
<1>1. ASSUME NEW c \in Clients, SigningIn(c) PROVE Goal
  BY <1>0, <1>1 DEF SigningIn, Login, LoginFails, LoginClears, LoginOpens, LoginAnswers, grants
<1>2. ASSUME NEW c \in Clients, OwnAccount(c) PROVE Goal
  BY <1>0, <1>2 DEF OwnAccount, Guard, Answer, Logout, VerifyPassword, ChangePassword, grants
<1>3. ASSUME NEW c \in Clients, AccountAdministration(c) PROVE Goal
  <2>1. PICK u \in Users :
          \/ \E rs \in RoleChoices : CreateUser(c, u, rs)
          \/ \E rs \in RoleChoices : SetUserRoles(c, u, rs)
          \/ ResetPassword(c, u)
          \/ \E active \in BOOLEAN : SetUserActive(c, u, active)
          \/ \E change \in UserChanges : ChangeUser(c, u, change)
          \/ \E al, de \in GrantChoices : UpdateUserPermissions(c, u, al, de)
    BY <1>3, Zenon DEF AccountAdministration
  <2>2. ASSUME NEW rs \in RoleChoices, CreateUser(c, u, rs) \/ SetUserRoles(c, u, rs) PROVE Goal
    <3>1. allow' = allow /\ deny' = deny
      BY <2>2 DEF CreateUser, SetUserRoles
    <3> QED BY <2>2, <3>1, Zenon
  <2>3. ASSUME ResetPassword(c, u) PROVE Goal
    BY <2>3, <1>0 DEF ResetPassword, grants
  <2>4. ASSUME NEW active \in BOOLEAN, SetUserActive(c, u, active) PROVE Goal
    BY <2>4, <1>0 DEF SetUserActive, grants
  <2>5. ASSUME NEW change \in UserChanges, ChangeUser(c, u, change) PROVE Goal
    BY <2>5, <1>0 DEF ChangeUser, grants
  <2>6. ASSUME NEW al \in GrantChoices, NEW de \in GrantChoices,
               UpdateUserPermissions(c, u, al, de)
        PROVE Goal
    <3>1. assigned' = assigned
      BY <2>6 DEF UpdateUserPermissions
    <3> QED BY <2>6, <3>1, Zenon
  <2> HIDE DEF Goal
  <2> QED BY <2>1, <2>2, <2>3, <2>4, <2>5, <2>6
<1>4. ASSUME NEW c \in Clients, RoleAdministration(c) PROVE Goal
  BY <1>0, <1>4 DEF RoleAdministration, CreateRole, UpdateRole, UpdateRolePermissions, DeleteRole
<1>5. ASSUME NEW c \in Clients, Recovering(c) PROVE Goal
  BY <1>0, <1>5 DEF Recovering, IssueRecovery, RejectRecovery, Redeem, grants
<1>6. ASSUME NEW c \in Clients, NEW s \in Sessions, RevokeSession(c, s)
      PROVE Goal
  BY <1>0, <1>6 DEF RevokeSession, grants
<1>7. ASSUME NEW c \in Clients, CompleteRecovery(c) PROVE Goal
  BY <1>0, <1>7 DEF CompleteRecovery, grants
<1>8. ASSUME NEW u \in Users, NEW q \in Codes, RequestRecovery(u, q)
      PROVE Goal
  BY <1>0, <1>8 DEF RequestRecovery, grants
<1>9. ASSUME Time PROVE Goal
  BY <1>0, <1>9 DEF Time, LockLapses, SessionExpires, CodeLapses, HourPasses, grants
<1>10. ASSUME UNCHANGED vars PROVE Goal
  BY <1>10, <1>0 DEF vars
<1> HIDE DEF Goal
<1>11. Goal
  BY <1>0, <1>1, <1>2, <1>3, <1>4, <1>5, <1>6, <1>7, <1>8, <1>9, <1>10, Zenon DEF Next
<1> QED BY <1>11 DEF Goal

\* An account that was created stays one.
LEMMA CreatedStays ==
  ASSUME TypeOK, [Next]_vars, NEW v \in Users, account[v].status # "absent"
  PROVE  account'[v].status # "absent"
<1> DEFINE Goal == account'[v].status # "absent"
<1>0. account \in [Users -> Account]
  BY DEF TypeOK, PolicyTypeOK
<1>1. ASSUME UNCHANGED account PROVE Goal
  BY <1>1
<1>2. ASSUME NEW c \in Clients, SigningIn(c) PROVE Goal
  <2>1. ASSUME LoginFails(c) PROVE Goal
    BY <2>1, <1>0 DEF LoginFails, Account
  <2>2. ASSUME LoginClears(c) PROVE Goal
    BY <2>2, <1>0 DEF LoginClears, Account
  <2> HIDE DEF Goal
  <2> QED BY <1>1, <1>2, <2>1, <2>2 DEF SigningIn, Login, LoginOpens, LoginAnswers
<1>3. ASSUME NEW c \in Clients, OwnAccount(c) PROVE Goal
  <2>1. ASSUME ChangePassword(c) PROVE Goal
    BY <2>1, <1>0 DEF ChangePassword, Account
  <2> HIDE DEF Goal
  <2> QED BY <1>1, <1>3, <2>1 DEF OwnAccount, Guard, Answer, Logout, VerifyPassword
<1>4. ASSUME NEW c \in Clients, AccountAdministration(c) PROVE Goal
  <2> SUFFICES ASSUME NEW u \in Users,
          \/ \E rs \in RoleChoices : CreateUser(c, u, rs)
          \/ \E rs \in RoleChoices : SetUserRoles(c, u, rs)
          \/ ResetPassword(c, u)
          \/ \E active \in BOOLEAN : SetUserActive(c, u, active)
          \/ \E change \in UserChanges : ChangeUser(c, u, change)
          \/ \E al, de \in GrantChoices : UpdateUserPermissions(c, u, al, de)
        PROVE Goal
    BY <1>4, Zenon DEF AccountAdministration
  <2>1. ASSUME NEW rs \in RoleChoices, CreateUser(c, u, rs) PROVE Goal
    BY <2>1, <1>0 DEF CreateUser, Account
  <2>2. ASSUME ResetPassword(c, u) PROVE Goal
    BY <2>2, <1>0 DEF ResetPassword, Account
  <2>3. ASSUME NEW active \in BOOLEAN, SetUserActive(c, u, active) PROVE Goal
    BY <2>3, <1>0 DEF SetUserActive, Account
  <2>4. ASSUME NEW change \in UserChanges, ChangeUser(c, u, change) PROVE Goal
    <3>1. change.to # "absent"
      BY DEF UserChanges
    <3> QED BY <2>4, <3>1, <1>0 DEF ChangeUser, Account
  <2> HIDE DEF Goal
  <2> QED BY <1>1, <2>1, <2>2, <2>3, <2>4 DEF SetUserRoles, UpdateUserPermissions
<1>5. ASSUME NEW c \in Clients, RoleAdministration(c) PROVE Goal
  BY <1>1, <1>5 DEF RoleAdministration, CreateRole, UpdateRole, UpdateRolePermissions, DeleteRole
<1>6. ASSUME NEW c \in Clients, Recovering(c) PROVE Goal
  BY <1>1, <1>6 DEF Recovering, IssueRecovery, RejectRecovery, Redeem
<1>7. ASSUME NEW c \in Clients, NEW s \in Sessions, RevokeSession(c, s) PROVE Goal
  BY <1>1, <1>7 DEF RevokeSession
<1>8. ASSUME NEW c \in Clients, CompleteRecovery(c) PROVE Goal
  <2>1. CASE CodeIsValid(client[c].code)
    <3>1. PICK u : account' = [account EXCEPT ![u].password = @ + 1, ![u].failures = 0,
                                              ![u].locked = FALSE]
      BY <1>8, <2>1, ZenonT(30) DEF CompleteRecovery
    <3> QED BY <3>1, <1>0 DEF Account
  <2>2. CASE ~CodeIsValid(client[c].code)
    BY <1>8, <2>2, <1>1 DEF CompleteRecovery
  <2> QED BY <2>1, <2>2
<1>9. ASSUME NEW u \in Users, NEW q \in Codes, RequestRecovery(u, q) PROVE Goal
  BY <1>1, <1>9 DEF RequestRecovery
<1>10. ASSUME Time PROVE Goal
  <2>1. ASSUME NEW u \in Users, LockLapses(u) PROVE Goal
    BY <2>1, <1>0 DEF LockLapses, Account
  <2> HIDE DEF Goal
  <2> QED BY <1>1, <1>10, <2>1 DEF Time, SessionExpires, CodeLapses, HourPasses
<1>11. CASE UNCHANGED vars
  BY <1>11, <1>1 DEF vars
<1> QED BY <1>1, <1>2, <1>3, <1>4, <1>5, <1>6, <1>7, <1>8, <1>9, <1>10, <1>11, Zenon DEF Next

-----------------------------------------------------------------------------
\* Roles and accounts that are held

\* No step gives out a role that is not there, or allows what it denies: a role is
\* deleted only when nobody holds it.
LEMMA HoldingsKept ==
  ASSUME AccountsAssumption, TypeOK, Holdings, [Next]_vars
  PROVE  Holdings'
<1>0. assigned \in [Users -> SUBSET Roles] /\ role \in [Roles -> Role]
  BY DEF TypeOK, PolicyTypeOK
<1>1. ASSUME NEW u \in Users PROVE \A r \in assigned'[u] : role'[r].exists
  <2>1. CASE role' = role
    <3>1. CASE assigned' = assigned
      BY <2>1, <3>1 DEF Holdings
    <3>2. ASSUME NEW c \in Clients, NEW v \in Users, NEW rs \in RoleChoices,
                 assigned' = [assigned EXCEPT ![v] = rs], CanAssign(client[c].user, rs)
          PROVE  \A r \in assigned'[u] : role'[r].exists
      BY <1>0, <2>1, <3>2 DEF Holdings, CanAssign
    <3> QED BY <3>1, <3>2, HoldingSteps DEF CreateUser, SetUserRoles
  <2>2. ASSUME NEW c \in Clients, RoleAdministration(c)
        PROVE  \A r \in assigned'[u] : role'[r].exists
    <3>0. assigned' = assigned
      BY <2>2 DEF RoleAdministration, CreateRole, UpdateRole, UpdateRolePermissions, DeleteRole
    <3>1. SUFFICES ASSUME NEW r \in assigned[u] PROVE role'[r].exists
      BY <3>0
    <3>2. r \in Roles /\ role[r].exists
      BY <1>0 DEF Holdings
    <3>3. ASSUME NEW o \in Roles, CreateRole(c, o) PROVE role'[r].exists
      BY <1>0, <3>2, <3>3 DEF CreateRole
    <3>4. ASSUME NEW o \in Roles, NEW active \in BOOLEAN, UpdateRole(c, o, active)
          PROVE  role'[r].exists
      BY <1>0, <3>2, <3>4 DEF UpdateRole, Role
    <3>5. ASSUME NEW o \in Roles, NEW codes \in GrantChoices, UpdateRolePermissions(c, o, codes)
          PROVE  role'[r].exists
      BY <1>0, <3>2, <3>5 DEF UpdateRolePermissions, Role
    <3>6. ASSUME NEW o \in Roles, DeleteRole(c, o) PROVE role'[r].exists
      <4>1. o # r
        BY <3>6 DEF DeleteRole, Holders
      <4> QED BY <1>0, <3>2, <3>6, <4>1 DEF DeleteRole
    <3> QED BY <2>2, <3>3, <3>4, <3>5, <3>6 DEF RoleAdministration
  <2> QED BY <2>1, <2>2, RoleSteps
<1>2. ASSUME NEW u \in Users, account'[u].status = "absent" PROVE assigned'[u] = {}
  <2>1. account[u].status = "absent" /\ assigned[u] = {}
    BY <1>2, CreatedStays DEF Holdings
  <2>2. ASSUME NEW c \in Clients, NEW v \in Users, NEW rs \in RoleChoices, CreateUser(c, v, rs)
        PROVE  assigned'[u] = {}
    <3>1. v # u
      BY <1>2, <2>2 DEF CreateUser, TypeOK, PolicyTypeOK, Account
    <3> QED BY <1>0, <2>1, <2>2, <3>1 DEF CreateUser
  <2>3. ASSUME NEW c \in Clients, NEW v \in Users, NEW rs \in RoleChoices, SetUserRoles(c, v, rs)
        PROVE  assigned'[u] = {}
    <3>1. v # u
      BY <2>1, <2>3 DEF SetUserRoles, CanManageUser, Exists
    <3> QED BY <1>0, <2>1, <2>3, <3>1 DEF SetUserRoles
  <2> QED BY <2>1, <2>2, <2>3, HoldingSteps
<1>3. ASSUME NEW u \in Users PROVE allow'[u] \cap deny'[u] = {}
  <2>1. CASE allow' = allow /\ deny' = deny
    BY <2>1 DEF Holdings
  <2>2. ASSUME NEW c \in Clients, NEW v \in Users, NEW al \in GrantChoices,
               NEW de \in GrantChoices, UpdateUserPermissions(c, v, al, de)
        PROVE  allow'[u] \cap deny'[u] = {}
    BY <2>2 DEF UpdateUserPermissions, Holdings, TypeOK, PolicyTypeOK
  <2> QED BY <2>1, <2>2, HoldingSteps
<1> QED BY <1>1, <1>2, <1>3 DEF Holdings

\* Nobody is above a holder of SUPER.
LEMMA NobodyManagesSuper ==
  ASSUME AccountsAssumption, TypeOK, Superior, NEW actor \in Users, NEW u \in Users,
         CanManageUser(actor, u)
  PROVE  ~Protected(u)
<1>1. Authority(actor) > Authority(u)
  BY DEF CanManageUser
<1>2. Authority(actor) \in 0..role[Super].level /\ Authority(u) \in 0..role[Super].level
  BY AuthorityIs
<1>3. Protected(u) => Authority(u) = role[Super].level
  BY AuthorityIs
<1>4. role[Super].level \in Nat
  BY DEF AccountsAssumption, PolicyAssumption, TypeOK, PolicyTypeOK, Role
<1> QED BY <1>1, <1>2, <1>3, <1>4

\* SUPER cannot be given and cannot be taken away.
LEMMA ProtectedStays ==
  ASSUME AccountsAssumption, TypeOK, Superior, Holdings, [Next]_vars, NEW v \in Users
  PROVE  Protected(v)' <=> Protected(v)
<1>0. assigned \in [Users -> SUBSET Roles]
  BY DEF TypeOK, PolicyTypeOK
<1>1. CASE assigned' = assigned
  BY <1>1 DEF Protected
<1>2. ASSUME NEW c \in Clients, NEW u \in Users, NEW rs \in RoleChoices, CreateUser(c, u, rs)
      PROVE  Protected(v)' <=> Protected(v)
  <2>1. Super \notin rs /\ assigned[u] = {}
    BY <1>2 DEF CreateUser, CanAssign, Holdings
  <2> QED BY <1>0, <1>2, <2>1 DEF CreateUser, Protected
<1>3. ASSUME NEW c \in Clients, NEW u \in Users, NEW rs \in RoleChoices, SetUserRoles(c, u, rs)
      PROVE  Protected(v)' <=> Protected(v)
  <2>1. Super \notin rs /\ ~Protected(u)
    BY <1>3, ClientForms, NobodyManagesSuper DEF SetUserRoles, Permitted, CanAssign
  <2> QED BY <1>0, <1>3, <2>1 DEF SetUserRoles, Protected
<1> QED BY <1>1, <1>2, <1>3, HoldingSteps


\* No step issues a code for a holder of SUPER, and no holder of a code becomes one.
LEMMA OwnedKept ==
  ASSUME AccountsAssumption, TypeOK, Superior, Holdings, Owned, [Next]_vars
  PROVE  Owned'
<1> DEFINE Good(k) == /\ k.status # "NONE" => k.user \in Users
                      /\ k.status = "ISSUED" => ~Protected(k.user)
<1>0. code \in [Codes -> Code] /\ \A q \in Codes : Good(code[q])
  BY DEF TypeOK, Owned
<1>1. SUFFICES \A q \in Codes : Good(code'[q])
  BY <1>0, ProtectedStays DEF Owned, Protected
<1>2. ASSUME code' = code PROVE \A q \in Codes : Good(code'[q])
  BY <1>0, <1>2
<1>3. ASSUME NEW c \in Clients, Recovering(c) PROVE \A q \in Codes : Good(code'[q])
  <2>1. ASSUME NEW q \in Codes, IssueRecovery(c, q) PROVE \A p \in Codes : Good(code'[p])
    <3>1. code[q].user \in Users
      BY <1>0, <2>1 DEF IssueRecovery
    <3>2. ~Protected(code[q].user)
      BY <2>1, <3>1, ClientForms, NobodyManagesSuper DEF IssueRecovery, Permitted
    <3>3. code'[q].user = code[q].user
      BY <1>0, <2>1 DEF IssueRecovery, Code
    <3>4. \A p \in Codes \ {q} : code'[p] = code[p]
      BY <1>0, <2>1 DEF IssueRecovery
    <3> QED BY <1>0, <3>1, <3>2, <3>3, <3>4
  <2>2. ASSUME NEW q \in Codes, RejectRecovery(c, q) PROVE \A p \in Codes : Good(code'[p])
    <3>1. code'[q].user = code[q].user /\ code'[q].status = "REJECTED" /\ code[q].status = "PENDING"
      BY <1>0, <2>2 DEF RejectRecovery, Code
    <3>2. \A p \in Codes \ {q} : code'[p] = code[p]
      BY <1>0, <2>2 DEF RejectRecovery
    <3> QED BY <1>0, <3>1, <3>2
  <2>3. ASSUME NEW q \in Codes, Redeem(c, q) PROVE \A p \in Codes : Good(code'[p])
    BY <2>3, <1>2 DEF Redeem
  <2> HIDE DEF Good
  <2> QED BY <1>3, <2>1, <2>2, <2>3 DEF Recovering
<1>4. ASSUME NEW c \in Clients, CompleteRecovery(c) PROVE \A q \in Codes : Good(code'[q])
  <2>1. CASE CodeIsValid(client[c].code)
    <3> DEFINE q == client[c].code
    <3>1. code' = [code EXCEPT ![q].status = "COMPLETED", ![q].print = 0]
      BY <1>4, <2>1, ZenonT(30) DEF CompleteRecovery
    <3>2. q \in Codes
      BY <1>4, ClientForms DEF CompleteRecovery
    <3>3. code'[q].user = code[q].user /\ code'[q].status = "COMPLETED" /\ code[q].status = "ISSUED"
      BY <1>0, <2>1, <3>1, <3>2 DEF Code, CodeIsValid
    <3>4. \A p \in Codes \ {q} : code'[p] = code[p]
      BY <1>0, <3>1, <3>2
    <3> QED BY <1>0, <3>2, <3>3, <3>4
  <2>2. CASE ~CodeIsValid(client[c].code)
    BY <1>4, <2>2, <1>2 DEF CompleteRecovery
  <2> QED BY <2>1, <2>2
<1>5. ASSUME NEW u \in Users, NEW q \in Codes, RequestRecovery(u, q)
      PROVE  \A p \in Codes : Good(code'[p])
  <2> DEFINE mine == {p \in Codes : code[p].user = u}
             lapsed == {p \in mine : code[p].status = "ISSUED" /\ code[p].lapsed}
             expired == [p \in Codes |-> IF p \in lapsed THEN [code[p] EXCEPT !.status = "EXPIRED"]
                                         ELSE code[p]]
             asked == [NoCode EXCEPT !.user = u, !.status = "PENDING", !.recent = TRUE]
  <2>1. code' = expired \/ code' = [expired EXCEPT ![q] = asked]
    BY <1>5, Zenon DEF RequestRecovery
  <2>2. \A p \in Codes : Good(expired[p])
    <3>1. \A p \in Codes : LET late == [code[p] EXCEPT !.status = "EXPIRED"]
                           IN  late.user = code[p].user /\ late.status = "EXPIRED"
      BY <1>0 DEF Code
    <3> QED BY <1>0, <3>1
  <2>3. Good(asked)
    BY DEF NoCode
  <2> HIDE DEF expired, asked, Good
  <2>4. expired = [p \in Codes |-> expired[p]]
    BY DEF expired
  <2> QED BY <2>1, <2>2, <2>3, <2>4
<1>6. ASSUME Time PROVE \A q \in Codes : Good(code'[q])
  <2>1. ASSUME NEW q \in Codes, CodeLapses(q) PROVE \A p \in Codes : Good(code'[p])
    BY <1>0, <2>1 DEF CodeLapses, Code
  <2>2. ASSUME NEW q \in Codes, HourPasses(q) PROVE \A p \in Codes : Good(code'[p])
    BY <1>0, <2>2 DEF HourPasses, Code
  <2> HIDE DEF Good
  <2> QED BY <1>2, <1>6, <2>1, <2>2 DEF Time, LockLapses, SessionExpires
<1>7. ASSUME NEW c \in Clients, SigningIn(c) PROVE code' = code
  BY <1>7 DEF SigningIn, Login, LoginFails, LoginClears, LoginOpens, LoginAnswers
<1>8. ASSUME NEW c \in Clients, OwnAccount(c) PROVE code' = code
  BY <1>8 DEF OwnAccount, Guard, Answer, Logout, VerifyPassword, ChangePassword
<1>9. ASSUME NEW c \in Clients, AccountAdministration(c) PROVE code' = code
  BY <1>9 DEF AccountAdministration, CreateUser, SetUserRoles, ResetPassword, SetUserActive,
              ChangeUser, UpdateUserPermissions
<1>10. ASSUME NEW c \in Clients, RoleAdministration(c) PROVE code' = code
  BY <1>10 DEF RoleAdministration, CreateRole, UpdateRole, UpdateRolePermissions, DeleteRole
<1>11. ASSUME NEW c \in Clients, NEW s \in Sessions, RevokeSession(c, s) PROVE code' = code
  BY <1>11 DEF RevokeSession
<1>12. ASSUME UNCHANGED vars PROVE code' = code
  BY <1>12 DEF vars
<1> HIDE DEF Good
<1> QED BY <1>2, <1>3, <1>4, <1>5, <1>6, <1>7, <1>8, <1>9, <1>10, <1>11, <1>12, Zenon DEF Next


\* A session changes its form in one statement only, the one that inserts it.
LEMMA SessionSteps ==
  ASSUME TypeOK, [Next]_vars, NEW s \in Sessions, session'[s] # Unused
  PROVE  \/ /\ session[s] # Unused
            /\ session'[s].user = session[s].user /\ session'[s].ground = session[s].ground
            /\ session'[s].open => session[s].open
         \/ \E c \in Clients : LoginOpens(c, s)
<1> DEFINE Same == /\ session[s] # Unused
                   /\ session'[s].user = session[s].user
                   /\ session'[s].ground = session[s].ground
                   /\ session'[s].open => session[s].open
<1>0. session \in [Sessions -> Session \cup {Unused}]
  BY DEF TypeOK
<1>1. ASSUME session' = session PROVE Same
  BY <1>1
<1>2. ASSUME NEW us, CloseSessionsOf(us) PROVE Same
  BY <1>0, <1>2 DEF CloseSessionsOf, Session
<1>3. ASSUME NEW x \in Sessions, NEW b \in BOOLEAN,
             \/ session' = [session EXCEPT ![x].held = b]
             \/ session' = [session EXCEPT ![x].open = FALSE]
      PROVE  Same
  <2>1. CASE x # s
    BY <1>0, <1>3, <2>1
  <2>2. CASE x = s /\ session[s] = Unused
    <3>1. [Unused EXCEPT !.held = b] = Unused /\ [Unused EXCEPT !.open = FALSE] = Unused
      BY DEF Unused
    <3> QED BY <1>0, <1>3, <2>2, <3>1
  <2>3. CASE x = s /\ session[s] # Unused
    BY <1>0, <1>3, <2>3 DEF Session
  <2> QED BY <2>1, <2>2, <2>3
<1> HIDE DEF Same
<1>4. ASSUME NEW c \in Clients, SigningIn(c) PROVE Same \/ LoginOpens(c, s)
  <2>1. ASSUME NEW x \in Sessions, LoginOpens(c, x), x # s PROVE Same
    BY <1>0, <2>1 DEF LoginOpens, Same
  <2>2. ASSUME LoginAnswers(c) PROVE Same
    BY <1>3, <2>2, ClientForms DEF LoginAnswers
  <2> QED BY <1>1, <1>4, <2>1, <2>2 DEF SigningIn, Login, LoginFails, LoginClears
<1>5. ASSUME NEW c \in Clients, OwnAccount(c) PROVE Same
  <2>1. ASSUME Logout(c) PROVE Same
    BY <1>3, <2>1, ClientForms DEF Logout
  <2> QED BY <1>1, <1>2, <1>5, <2>1 DEF OwnAccount, Guard, Answer, VerifyPassword, ChangePassword
<1>6. ASSUME NEW c \in Clients, AccountAdministration(c) PROVE Same
  BY <1>1, <1>2, <1>6
     DEF AccountAdministration, CreateUser, SetUserRoles, ResetPassword, SetUserActive,
         ChangeUser, UpdateUserPermissions
<1>7. ASSUME NEW c \in Clients, RoleAdministration(c) PROVE Same
  BY <1>1, <1>2, <1>7
     DEF RoleAdministration, CreateRole, UpdateRole, UpdateRolePermissions, DeleteRole
<1>8. ASSUME NEW c \in Clients, Recovering(c) PROVE Same
  BY <1>1, <1>8 DEF Recovering, IssueRecovery, RejectRecovery, Redeem
<1>9. ASSUME NEW c \in Clients, NEW x \in Sessions, RevokeSession(c, x) PROVE Same
  BY <1>3, <1>9 DEF RevokeSession
<1>10. ASSUME NEW c \in Clients, CompleteRecovery(c) PROVE Same
  BY <1>1, <1>2, <1>10 DEF CompleteRecovery
<1>11. ASSUME NEW u \in Users, NEW q \in Codes, RequestRecovery(u, q) PROVE Same
  BY <1>1, <1>11 DEF RequestRecovery
<1>12. ASSUME Time PROVE Same
  BY <1>1, <1>3, <1>12 DEF Time, LockLapses, SessionExpires, CodeLapses, HourPasses
<1>13. ASSUME UNCHANGED vars PROVE Same
  BY <1>1, <1>13 DEF vars
<1>14. Same \/ \E c \in Clients : LoginOpens(c, s)
  BY <1>4, <1>5, <1>6, <1>7, <1>8, <1>9, <1>10, <1>11, <1>12, <1>13, Zenon DEF Next
<1> QED BY <1>14 DEF Same

\* What a client does with an account began with a login to it or behind the guard.
WithAccount == {"login", "cleared", "opened", "request", "verified"}

LEMMA ClientSteps ==
  ASSUME TypeOK, [Next]_vars, NEW b \in Clients, client'[b].doing \in WithAccount
  PROVE  \/ client[b].doing \in WithAccount /\ client'[b].user = client[b].user
         \/ \E u \in Users, right \in BOOLEAN : Login(b, u, right)
         \/ \E s \in Sessions : Guard(b, s)
<1> DEFINE Same == client[b].doing \in WithAccount /\ client'[b].user = client[b].user
<1>0. client \in [Clients -> Client]
  BY DEF TypeOK
<1>1. ASSUME client' = client PROVE Same
  BY <1>1
<1>2. ASSUME NEW c \in Clients, Done(c) PROVE Same
  BY <1>0, <1>2 DEF Done, Idle, WithAccount
<1>3. ASSUME NEW c \in Clients, NEW activity, c # b,
             client' = [client EXCEPT ![c] = activity]
      PROVE  Same
  BY <1>0, <1>3
<1>4. ASSUME LoginClears(b) PROVE Same
  BY <1>0, <1>4 DEF LoginClears, WithAccount
<1>5. ASSUME NEW s \in Sessions, LoginOpens(b, s) PROVE Same
  BY <1>0, <1>5 DEF LoginOpens, WithAccount
<1>6. ASSUME VerifyPassword(b) PROVE Same
  BY <1>0, <1>6, ClientForms DEF VerifyPassword, WithAccount, Client, Idle
<1>7. ASSUME NEW q \in Codes, Redeem(b, q) PROVE FALSE
  BY <1>0, <1>7 DEF Redeem, Begin, WithAccount
<1> HIDE DEF Same
<1>8. ASSUME NEW c \in Clients, SigningIn(c)
      PROVE Same \/ \E u \in Users, right \in BOOLEAN : Login(b, u, right)
  <2>1. ASSUME NEW u \in Users, NEW right \in BOOLEAN, Login(c, u, right), c # b PROVE Same
    BY <1>3, <2>1 DEF Login, Begin
  <2>2. ASSUME LoginFails(c) \/ LoginAnswers(c) PROVE Same
    BY <1>2, <2>2 DEF LoginFails, LoginAnswers
  <2>3. ASSUME LoginClears(c) PROVE Same
    BY <1>3, <1>4, <2>3 DEF LoginClears
  <2>4. ASSUME NEW s \in Sessions, LoginOpens(c, s) PROVE Same
    BY <1>3, <1>5, <2>4 DEF LoginOpens
  <2> QED BY <1>8, <2>1, <2>2, <2>3, <2>4 DEF SigningIn
<1>9. ASSUME NEW c \in Clients, OwnAccount(c) PROVE Same \/ \E s \in Sessions : Guard(b, s)
  <2>1. ASSUME NEW s \in Sessions, Guard(c, s), c # b PROVE Same
    BY <1>3, <2>1 DEF Guard, Begin
  <2>2. ASSUME Answer(c) \/ Logout(c) \/ ChangePassword(c) PROVE Same
    BY <1>2, <2>2 DEF Answer, Logout, ChangePassword
  <2>3. ASSUME VerifyPassword(c) PROVE Same
    BY <1>3, <1>6, <2>3 DEF VerifyPassword
  <2> QED BY <1>9, <2>1, <2>2, <2>3 DEF OwnAccount
<1>10. ASSUME NEW c \in Clients, AccountAdministration(c) PROVE Same
  BY <1>2, <1>10
     DEF AccountAdministration, CreateUser, SetUserRoles, ResetPassword, SetUserActive,
         ChangeUser, UpdateUserPermissions
<1>11. ASSUME NEW c \in Clients, RoleAdministration(c) PROVE Same
  BY <1>2, <1>11
     DEF RoleAdministration, CreateRole, UpdateRole, UpdateRolePermissions, DeleteRole
<1>12. ASSUME NEW c \in Clients, Recovering(c) PROVE Same
  <2>1. ASSUME NEW q \in Codes, Redeem(c, q), c # b PROVE Same
    BY <1>3, <2>1 DEF Redeem, Begin
  <2> QED BY <1>2, <1>7, <1>12, <2>1 DEF Recovering, IssueRecovery, RejectRecovery
<1>13. ASSUME NEW c \in Clients, NEW x \in Sessions, RevokeSession(c, x) PROVE Same
  BY <1>2, <1>13 DEF RevokeSession
<1>14. ASSUME NEW c \in Clients, CompleteRecovery(c) PROVE Same
  BY <1>2, <1>14 DEF CompleteRecovery
<1>15. ASSUME NEW u \in Users, NEW q \in Codes, RequestRecovery(u, q) PROVE Same
  BY <1>1, <1>15 DEF RequestRecovery
<1>16. ASSUME Time PROVE Same
  BY <1>1, <1>16 DEF Time, LockLapses, SessionExpires, CodeLapses, HourPasses
<1>17. ASSUME UNCHANGED vars PROVE Same
  BY <1>1, <1>17 DEF vars
<1>18. Same \/ (\E u \in Users, right \in BOOLEAN : Login(b, u, right))
            \/ \E s \in Sessions : Guard(b, s)
  BY <1>8, <1>9, <1>10, <1>11, <1>12, <1>13, <1>14, <1>15, <1>16, <1>17, Zenon DEF Next
<1> QED BY <1>18, Zenon DEF Same

\* Accounts that have sessions or activities stay in the table.
LEMMA KnownKept ==
  ASSUME AccountsAssumption, TypeOK, Known, [Next]_vars
  PROVE  Known'
<1>1. ASSUME NEW s \in Sessions, session'[s] # Unused
      PROVE  account'[session'[s].user].status # "absent"
  <2>1. CASE session[s] # Unused /\ session'[s].user = session[s].user
    <3>1. session[s].user \in Users
      BY <2>1, SessionForm DEF Session
    <3> QED BY <2>1, <3>1, CreatedStays DEF Known
  <2>2. ASSUME NEW c \in Clients, LoginOpens(c, s)
        PROVE  account'[session'[s].user].status # "absent"
    <3>1. session'[s].user = client[c].user /\ client[c].user \in Users
      BY <2>2, ClientForms DEF LoginOpens, TypeOK
    <3>2. account[client[c].user].status # "absent"
      BY <2>2 DEF LoginOpens, Known
    <3> QED BY <3>1, <3>2, CreatedStays
  <2> QED BY <1>1, <2>1, <2>2, SessionSteps
<1>2. ASSUME NEW b \in Clients, client'[b].doing \in WithAccount
      PROVE  account'[client'[b].user].status # "absent"
  <2>1. CASE client[b].doing \in WithAccount /\ client'[b].user = client[b].user
    <3>1. client[b].user \in Users
      BY <2>1, ClientForms DEF WithAccount
    <3> QED BY <2>1, <3>1, CreatedStays DEF Known, WithAccount
  <2>2. ASSUME NEW u \in Users, NEW right \in BOOLEAN, Login(b, u, right)
        PROVE  account'[client'[b].user].status # "absent"
    BY <2>2, CreatedStays DEF Login, Begin, Exists, TypeOK
  <2>3. ASSUME NEW s \in Sessions, Guard(b, s)
        PROVE  account'[client'[b].user].status # "absent"
    <3>1. client'[b].user = session[s].user /\ session[s].user \in Users
      BY <2>3, SessionForm DEF Guard, Begin, Usable, Opened, TypeOK, Session
    <3>2. account[session[s].user].status # "absent"
      BY <2>3 DEF Guard, Usable
    <3> QED BY <3>1, <3>2, CreatedStays
  <2> QED BY <1>2, <2>1, <2>2, <2>3, ClientSteps
<1> QED BY <1>1, <1>2 DEF Known, WithAccount


-----------------------------------------------------------------------------
\* Sessions and their ground

\* The ground of a user is a function of the password, the roles, the overrides and
\* what the roles grant.
LEMMA SameGround ==
  ASSUME NEW u \in Users, account'[u].password = account[u].password,
         assigned'[u] = assigned[u], allow'[u] = allow[u], deny'[u] = deny[u], role' = role
  PROVE  GroundOf(u)' = GroundOf(u)
<1>1. ActiveRoles(u)' = ActiveRoles(u)
  BY DEF ActiveRoles
<1>2. \A o : RoleGrants(o)' = RoleGrants(o)
  BY DEF RoleGrants
<1>3. (UNION {RoleGrants(o) : o \in ActiveRoles(u)})' = UNION {RoleGrants(o) : o \in ActiveRoles(u)}
  BY <1>1, <1>2
<1>4. Effective(u)' = Effective(u)
  BY <1>3 DEF Effective
<1> QED BY <1>4 DEF GroundOf

\* A role says nothing about who does not hold it.
LEMMA RoleOfOthers ==
  ASSUME TypeOK, NEW u \in Users, NEW r \in Roles, r \notin assigned[u],
         \A o \in Roles \ {r} : role'[o] = role[o],
         UNCHANGED <<account, assigned, allow, deny>>
  PROVE  GroundOf(u)' = GroundOf(u)
<1>0. assigned[u] \subseteq Roles \ {r}
  BY DEF TypeOK, PolicyTypeOK
<1>1. ActiveRoles(u)' = ActiveRoles(u)
  BY <1>0 DEF ActiveRoles
<1>2. \A o \in ActiveRoles(u) : RoleGrants(o)' = RoleGrants(o)
  BY <1>0 DEF ActiveRoles, RoleGrants
<1>3. (UNION {RoleGrants(o) : o \in ActiveRoles(u)})' = UNION {RoleGrants(o) : o \in ActiveRoles(u)}
  BY <1>1, <1>2
<1>4. Effective(u)' = Effective(u)
  BY <1>3 DEF Effective
<1> QED BY <1>4 DEF GroundOf

\* Whoever moves the ground of an account closes its sessions in the same step.
LEMMA GroundSteps ==
  ASSUME AccountsAssumption, TypeOK, Holdings, [Next]_vars,
         NEW u \in Users, account[u].status # "absent"
  PROVE  GroundOf(u)' = GroundOf(u) \/ \E us : u \in us /\ CloseSessionsOf(us)
<1> DEFINE Goal == GroundOf(u)' = GroundOf(u) \/ \E us : u \in us /\ CloseSessionsOf(us)
<1>0. /\ account \in [Users -> Account] /\ assigned \in [Users -> SUBSET Roles]
      /\ allow \in [Users -> SUBSET Perms] /\ deny \in [Users -> SUBSET Perms]
      /\ role \in [Roles -> Role]
  BY DEF TypeOK, PolicyTypeOK
<1>1. ASSUME account'[u].password = account[u].password, UNCHANGED grants PROVE Goal
  BY <1>1, SameGround DEF grants
<1>2. ASSUME NEW us, CloseSessionsOf(us), u \in us PROVE Goal
  BY <1>2, Zenon
<1>3. ASSUME UNCHANGED account, UNCHANGED grants PROVE Goal
  BY <1>1, <1>3
<1>4. ASSUME NEW v \in Users, v # u, CloseSessionsOf({v}), UNCHANGED <<role>>,
             account'[u] = account[u], assigned'[u] = assigned[u],
             allow'[u] = allow[u], deny'[u] = deny[u]
      PROVE  Goal
  BY <1>4, SameGround
<1> HIDE DEF Goal
<1>5. ASSUME NEW c \in Clients, SigningIn(c) PROVE Goal
  <2>1. ASSUME LoginFails(c) PROVE Goal
    BY <2>1, <1>0, <1>1 DEF LoginFails, Account
  <2>2. ASSUME LoginClears(c) PROVE Goal
    BY <2>2, <1>0, <1>1 DEF LoginClears, Account
  <2> QED BY <1>3, <1>5, <2>1, <2>2 DEF SigningIn, Login, LoginOpens, LoginAnswers
<1>6. ASSUME NEW c \in Clients, OwnAccount(c) PROVE Goal
  <2>1. ASSUME ChangePassword(c) PROVE Goal
    <3>1. CASE client[c].user = u
      BY <2>1, <1>2, <3>1 DEF ChangePassword
    <3>2. CASE client[c].user # u
      <4>1. client[c].user \in Users
        BY <2>1, ClientForms DEF ChangePassword
      <4>2. account'[u] = account[u]
        BY <2>1, <1>0, <3>2, <4>1 DEF ChangePassword
      <4> QED BY <2>1, <1>1, <4>2 DEF ChangePassword
    <3> QED BY <3>1, <3>2
  <2> QED BY <1>3, <1>6, <2>1 DEF OwnAccount, Guard, Answer, Logout, VerifyPassword
<1>7. ASSUME NEW c \in Clients, AccountAdministration(c) PROVE Goal
  <2> SUFFICES ASSUME NEW v \in Users,
          \/ \E rs \in RoleChoices : CreateUser(c, v, rs)
          \/ \E rs \in RoleChoices : SetUserRoles(c, v, rs)
          \/ ResetPassword(c, v)
          \/ \E active \in BOOLEAN : SetUserActive(c, v, active)
          \/ \E change \in UserChanges : ChangeUser(c, v, change)
          \/ \E al, de \in GrantChoices : UpdateUserPermissions(c, v, al, de)
        PROVE Goal
    BY <1>7, Zenon DEF AccountAdministration
  <2>1. ASSUME NEW rs \in RoleChoices, CreateUser(c, v, rs) PROVE Goal
    <3>1. v # u
      BY <2>1 DEF CreateUser
    <3>2. account'[u] = account[u] /\ assigned'[u] = assigned[u]
      BY <2>1, <1>0, <3>1 DEF CreateUser
    <3>3. GroundOf(u)' = GroundOf(u)
      BY <2>1, <3>2, SameGround DEF CreateUser
    <3> QED BY <3>3 DEF Goal
  <2>2. CASE v = u
    <3>1. ASSUME CloseSessionsOf({u}) PROVE Goal
      BY <1>2, <3>1
    <3>2. ASSUME NEW active \in BOOLEAN, SetUserActive(c, v, active) PROVE Goal
      BY <3>2, <1>0, <1>1 DEF SetUserActive, Account
    <3> QED BY <2>1, <2>2, <3>1, <3>2
            DEF SetUserRoles, ResetPassword, ChangeUser, UpdateUserPermissions
  <2>3. CASE v # u
    <3>1. ASSUME NEW rs \in RoleChoices, SetUserRoles(c, v, rs) PROVE Goal
      BY <2>3, <3>1, <1>0, <1>4 DEF SetUserRoles
    <3>2. ASSUME ResetPassword(c, v) PROVE Goal
      BY <2>3, <3>2, <1>0, <1>1 DEF ResetPassword
    <3>3. ASSUME NEW active \in BOOLEAN, SetUserActive(c, v, active) PROVE Goal
      BY <2>3, <3>3, <1>0, <1>1 DEF SetUserActive
    <3>4. ASSUME NEW change \in UserChanges, ChangeUser(c, v, change) PROVE Goal
      BY <2>3, <3>4, <1>0, <1>1 DEF ChangeUser
    <3>5. ASSUME NEW al \in GrantChoices, NEW de \in GrantChoices,
                 UpdateUserPermissions(c, v, al, de)
          PROVE Goal
      BY <2>3, <3>5, <1>0, <1>4 DEF UpdateUserPermissions
    <3> QED BY <2>1, <3>1, <3>2, <3>3, <3>4, <3>5
  <2> QED BY <2>2, <2>3
<1>8. ASSUME NEW c \in Clients, RoleAdministration(c) PROVE Goal
  <2>0. UNCHANGED <<account, assigned, allow, deny>>
    BY <1>8 DEF RoleAdministration, CreateRole, UpdateRole, UpdateRolePermissions, DeleteRole
  <2>1. ASSUME NEW r \in Roles, CreateRole(c, r) PROVE Goal
    <3>1. r \notin assigned[u]
      BY <2>1 DEF CreateRole, Holdings
    <3>2. \A o \in Roles \ {r} : role'[o] = role[o]
      BY <2>1, <1>0 DEF CreateRole
    <3> QED BY <2>0, <3>1, <3>2, RoleOfOthers DEF Goal
  <2>2. ASSUME NEW r \in Roles, NEW active \in BOOLEAN, UpdateRole(c, r, active) PROVE Goal
    <3>1. CASE r \in assigned[u]
      BY <2>2, <3>1, <1>2 DEF UpdateRole, Holders
    <3>2. CASE r \notin assigned[u]
      <4>1. \A o \in Roles \ {r} : role'[o] = role[o]
        BY <2>2, <1>0 DEF UpdateRole
      <4> QED BY <2>0, <3>2, <4>1, RoleOfOthers DEF Goal
    <3> QED BY <3>1, <3>2
  <2>3. ASSUME NEW r \in Roles, NEW codes \in GrantChoices, UpdateRolePermissions(c, r, codes)
        PROVE  Goal
    <3>1. CASE r \in assigned[u]
      BY <2>3, <3>1, <1>2 DEF UpdateRolePermissions, Holders
    <3>2. CASE r \notin assigned[u]
      <4>1. \A o \in Roles \ {r} : role'[o] = role[o]
        BY <2>3, <1>0 DEF UpdateRolePermissions
      <4> QED BY <2>0, <3>2, <4>1, RoleOfOthers DEF Goal
    <3> QED BY <3>1, <3>2
  <2>4. ASSUME NEW r \in Roles, DeleteRole(c, r) PROVE Goal
    <3>1. r \notin assigned[u]
      BY <2>4 DEF DeleteRole, Holders
    <3>2. \A o \in Roles \ {r} : role'[o] = role[o]
      BY <2>4, <1>0 DEF DeleteRole
    <3> QED BY <2>0, <3>1, <3>2, RoleOfOthers DEF Goal
  <2> QED BY <1>8, <2>1, <2>2, <2>3, <2>4 DEF RoleAdministration
<1>9. ASSUME NEW c \in Clients, Recovering(c) PROVE Goal
  BY <1>3, <1>9 DEF Recovering, IssueRecovery, RejectRecovery, Redeem
<1>10. ASSUME NEW c \in Clients, NEW s \in Sessions, RevokeSession(c, s) PROVE Goal
  BY <1>3, <1>10 DEF RevokeSession
<1>11. ASSUME NEW c \in Clients, CompleteRecovery(c) PROVE Goal
  <2>1. CASE CodeIsValid(client[c].code)
    <3>1. PICK v : /\ account' = [account EXCEPT ![v].password = @ + 1, ![v].failures = 0,
                                              ![v].locked = FALSE]
                   /\ CloseSessionsOf({v})
      BY <1>11, <2>1, ZenonT(30) DEF CompleteRecovery
    <3>2. CASE v = u
      BY <1>2, <3>1, <3>2
    <3>3. CASE v # u
      <4>1. account'[u] = account[u]
        BY <3>1, <3>3, <1>0
      <4> QED BY <1>1, <1>11, <4>1 DEF CompleteRecovery
    <3> QED BY <3>2, <3>3
  <2>2. CASE ~CodeIsValid(client[c].code)
    BY <1>3, <1>11, <2>2 DEF CompleteRecovery
  <2> QED BY <2>1, <2>2
<1>12. ASSUME NEW v \in Users, NEW q \in Codes, RequestRecovery(v, q) PROVE Goal
  BY <1>3, <1>12 DEF RequestRecovery
<1>13. ASSUME Time PROVE Goal
  <2>1. ASSUME NEW v \in Users, LockLapses(v) PROVE Goal
    BY <2>1, <1>0, <1>1 DEF LockLapses, Account
  <2> QED BY <1>3, <1>13, <2>1 DEF Time, SessionExpires, CodeLapses, HourPasses
<1>14. ASSUME UNCHANGED vars PROVE Goal
  BY <1>3, <1>14 DEF vars, grants
<1>15. Goal
  BY <1>5, <1>6, <1>7, <1>8, <1>9, <1>10, <1>11, <1>12, <1>13, <1>14, Zenon DEF Next
<1> QED BY <1>15 DEF Goal

\* Every step leaves the open sessions on their ground: a session is inserted on the
\* ground of its moment, and what moves a ground closes the sessions on it.
LEMMA GroundedKept ==
  ASSUME AccountsAssumption, TypeOK, Holdings, Known, Grounded, [Next]_vars
  PROVE  Grounded'
<1>1. ASSUME NEW s \in Sessions, session'[s] # Unused, session'[s].open, NEW u,
             u = session'[s].user
      PROVE  session'[s].ground = GroundOf(u)'
  <2>1. ASSUME session[s] # Unused, u = session[s].user,
               session'[s].ground = session[s].ground, session[s].open
        PROVE  session'[s].ground = GroundOf(u)'
    <3>1. u \in Users /\ account[u].status # "absent"
      BY <2>1, SessionForm DEF Session, Known
    <3>2. session[s].ground = GroundOf(u)
      BY <2>1 DEF Grounded, Opened
    <3>3. ASSUME NEW us, u \in us, CloseSessionsOf(us) PROVE FALSE
      BY <1>1, <2>1, <3>3, SessionForm DEF CloseSessionsOf, Session
    <3>4. GroundOf(u)' = GroundOf(u)
      BY <3>1, <3>3, GroundSteps
    <3> QED BY <2>1, <3>2, <3>4
  <2>2. ASSUME NEW c \in Clients, LoginOpens(c, s) PROVE session'[s].ground = GroundOf(u)'
    <3>1. u = client[c].user /\ session'[s].ground = GroundOf(u) /\ u \in Users
      BY <1>1, <2>2, ClientForms DEF LoginOpens, TypeOK
    <3>2. GroundOf(u)' = GroundOf(u)
      BY <2>2, <3>1, SameGround DEF LoginOpens, grants
    <3> QED BY <3>1, <3>2
  <2> QED BY <1>1, <2>1, <2>2, SessionSteps
<1> QED BY <1>1 DEF Grounded, Opened


-----------------------------------------------------------------------------
\* Wrong passwords

\* Only a new login puts a client in the state of having read the account.
LEMMA LoginsBegin ==
  ASSUME TypeOK, [Next]_vars, NEW b \in Clients, client'[b].doing = "login"
  PROVE  \/ client'[b] = client[b]
         \/ \E u \in Users, right \in BOOLEAN : Login(b, u, right)
<1> DEFINE Same == client'[b] = client[b]
<1>0. client \in [Clients -> Client]
  BY DEF TypeOK
<1>1. ASSUME client' = client PROVE Same
  BY <1>1
<1>2. ASSUME NEW c \in Clients, Done(c) PROVE Same
  BY <1>0, <1>2 DEF Done, Idle
<1>3. ASSUME NEW c \in Clients, NEW activity, c # b \/ activity.doing # "login",
             client' = [client EXCEPT ![c] = activity]
      PROVE  Same
  BY <1>0, <1>3
<1>4. ASSUME NEW c \in Clients, VerifyPassword(c) PROVE Same
  <2>1. client'[c].doing = "verified"
    BY <1>0, <1>4, ClientForms DEF VerifyPassword, Client, Idle
  <2>2. c # b
    BY <2>1
  <2> QED BY <1>0, <1>4, <2>2 DEF VerifyPassword
<1> HIDE DEF Same
<1>5. ASSUME NEW c \in Clients, SigningIn(c)
      PROVE Same \/ \E u \in Users, right \in BOOLEAN : Login(b, u, right)
  <2>1. ASSUME NEW u \in Users, NEW right \in BOOLEAN, Login(c, u, right), c # b PROVE Same
    BY <1>3, <2>1 DEF Login, Begin
  <2>2. ASSUME LoginFails(c) \/ LoginAnswers(c) PROVE Same
    BY <1>2, <2>2 DEF LoginFails, LoginAnswers
  <2>3. ASSUME LoginClears(c) PROVE Same
    BY <1>3, <2>3 DEF LoginClears
  <2>4. ASSUME NEW s \in Sessions, LoginOpens(c, s) PROVE Same
    BY <1>3, <2>4 DEF LoginOpens
  <2> QED BY <1>5, <2>1, <2>2, <2>3, <2>4 DEF SigningIn
<1>6. ASSUME NEW c \in Clients, OwnAccount(c) PROVE Same
  <2>1. ASSUME NEW s \in Sessions, Guard(c, s) PROVE Same
    BY <1>3, <2>1 DEF Guard, Begin
  <2>2. ASSUME Answer(c) \/ Logout(c) \/ ChangePassword(c) PROVE Same
    BY <1>2, <2>2 DEF Answer, Logout, ChangePassword
  <2> QED BY <1>4, <1>6, <2>1, <2>2 DEF OwnAccount
<1>7. ASSUME NEW c \in Clients, AccountAdministration(c) PROVE Same
  BY <1>2, <1>7
     DEF AccountAdministration, CreateUser, SetUserRoles, ResetPassword, SetUserActive,
         ChangeUser, UpdateUserPermissions
<1>8. ASSUME NEW c \in Clients, RoleAdministration(c) PROVE Same
  BY <1>2, <1>8
     DEF RoleAdministration, CreateRole, UpdateRole, UpdateRolePermissions, DeleteRole
<1>9. ASSUME NEW c \in Clients, Recovering(c) PROVE Same
  <2>1. ASSUME NEW q \in Codes, Redeem(c, q) PROVE Same
    BY <1>3, <2>1 DEF Redeem, Begin
  <2> QED BY <1>2, <1>9, <2>1 DEF Recovering, IssueRecovery, RejectRecovery
<1>10. ASSUME NEW c \in Clients, NEW x \in Sessions, RevokeSession(c, x) PROVE Same
  BY <1>2, <1>10 DEF RevokeSession
<1>11. ASSUME NEW c \in Clients, CompleteRecovery(c) PROVE Same
  BY <1>2, <1>11 DEF CompleteRecovery
<1>12. ASSUME NEW u \in Users, NEW q \in Codes, RequestRecovery(u, q) PROVE Same
  BY <1>1, <1>12 DEF RequestRecovery
<1>13. ASSUME Time PROVE Same
  BY <1>1, <1>13 DEF Time, LockLapses, SessionExpires, CodeLapses, HourPasses
<1>14. ASSUME UNCHANGED vars PROVE Same
  BY <1>1, <1>14 DEF vars
<1>15. Same \/ \E u \in Users, right \in BOOLEAN : Login(b, u, right)
  BY <1>5, <1>6, <1>7, <1>8, <1>9, <1>10, <1>11, <1>12, <1>13, <1>14, Zenon DEF Next
<1> QED BY <1>15 DEF Same

\* The counter and the lock of an account stay, start over, or see one more failure.
LEMMA CounterSteps ==
  ASSUME AccountsAssumption, TypeOK, [Next]_vars, NEW u \in Users
  PROVE  \/ /\ account'[u].locked = account[u].locked
            /\ account'[u].failures = account[u].failures /\ tries'[u] = tries[u]
         \/ ~account'[u].locked /\ tries'[u] = 0
         \/ \E c \in Clients : LoginFails(c) /\ client[c].user = u
<1> DEFINE Same == /\ account'[u].locked = account[u].locked
                   /\ account'[u].failures = account[u].failures /\ tries'[u] = tries[u]
           Anew == ~account'[u].locked /\ tries'[u] = 0
<1>0. account \in [Users -> Account] /\ tries \in [Users -> Nat]
  BY DEF TypeOK, PolicyTypeOK
<1>1. ASSUME UNCHANGED <<account, tries>> PROVE Same
  BY <1>1
<1>2. ASSUME NEW v, account' = [account EXCEPT ![v].failures = 0, ![v].locked = FALSE],
             tries' = [tries EXCEPT ![v] = 0]
      PROVE  Same \/ Anew
  <2>1. CASE v = u
    BY <1>0, <1>2, <2>1 DEF Account
  <2>2. CASE v # u
    BY <1>0, <1>2, <2>2
  <2> QED BY <2>1, <2>2
<1>3. ASSUME NEW v, account' = [account EXCEPT ![v].password = @ + 1, ![v].failures = 0,
                                               ![v].locked = FALSE],
             tries' = [tries EXCEPT ![v] = 0]
      PROVE  Same \/ Anew
  <2>1. CASE v = u
    BY <1>0, <1>3, <2>1 DEF Account
  <2>2. CASE v # u
    BY <1>0, <1>3, <2>2
  <2> QED BY <2>1, <2>2
<1>4. ASSUME NEW v, NEW t, account' = [account EXCEPT ![v].status = t], tries' = tries PROVE Same
  BY <1>0, <1>4 DEF Account
<1>5. ASSUME NEW v, account' = [account EXCEPT ![v].password = @ + 1], tries' = tries PROVE Same
  BY <1>0, <1>5 DEF Account
<1>6. ASSUME NEW v, account' = [account EXCEPT ![v].status = "active", ![v].password = @ + 1],
             tries' = tries
      PROVE  Same
  BY <1>0, <1>6 DEF Account
<1>7. ASSUME NEW v, account' = [account EXCEPT ![v].locked = FALSE],
             tries' = [tries EXCEPT ![v] = 0]
      PROVE  Same \/ Anew
  <2>1. CASE v = u
    BY <1>0, <1>7, <2>1 DEF Account
  <2>2. CASE v # u
    BY <1>0, <1>7, <2>2
  <2> QED BY <2>1, <2>2
<1>8. ASSUME NEW c \in Clients, LoginFails(c), client[c].user # u PROVE Same
  BY <1>0, <1>8 DEF LoginFails, Account
<1> DEFINE Goal == \/ Same \/ Anew
                   \/ \E c \in Clients : LoginFails(c) /\ client[c].user = u
<1> HIDE DEF Same, Anew
<1>9. ASSUME NEW c \in Clients, SigningIn(c) PROVE Goal
  <2>1. ASSUME LoginClears(c) PROVE Goal
    BY <1>2, <2>1 DEF LoginClears
  <2> QED BY <1>1, <1>8, <1>9, <2>1 DEF SigningIn, Login, LoginOpens, LoginAnswers
<1>10. ASSUME NEW c \in Clients, OwnAccount(c) PROVE Goal
  <2>1. ASSUME ChangePassword(c) PROVE Goal
    BY <1>5, <2>1 DEF ChangePassword
  <2> QED BY <1>1, <1>10, <2>1 DEF OwnAccount, Guard, Answer, Logout, VerifyPassword
<1>11. ASSUME NEW c \in Clients, AccountAdministration(c) PROVE Goal
  <2> SUFFICES ASSUME NEW v \in Users,
          \/ \E rs \in RoleChoices : CreateUser(c, v, rs)
          \/ \E rs \in RoleChoices : SetUserRoles(c, v, rs)
          \/ ResetPassword(c, v)
          \/ \E active \in BOOLEAN : SetUserActive(c, v, active)
          \/ \E change \in UserChanges : ChangeUser(c, v, change)
          \/ \E al, de \in GrantChoices : UpdateUserPermissions(c, v, al, de)
        PROVE Goal
    BY <1>11, Zenon DEF AccountAdministration
  <2>1. ASSUME NEW rs \in RoleChoices, CreateUser(c, v, rs) PROVE Goal
    BY <1>6, <2>1 DEF CreateUser
  <2>2. ASSUME ResetPassword(c, v) PROVE Goal
    BY <1>3, <2>2 DEF ResetPassword
  <2>3. ASSUME NEW active \in BOOLEAN, SetUserActive(c, v, active) PROVE Goal
    BY <1>4, <2>3 DEF SetUserActive
  <2>4. ASSUME NEW change \in UserChanges, ChangeUser(c, v, change) PROVE Goal
    BY <1>4, <2>4 DEF ChangeUser
  <2> QED BY <1>1, <2>1, <2>2, <2>3, <2>4 DEF SetUserRoles, UpdateUserPermissions
<1>12. ASSUME NEW c \in Clients, RoleAdministration(c) PROVE Goal
  BY <1>1, <1>12
     DEF RoleAdministration, CreateRole, UpdateRole, UpdateRolePermissions, DeleteRole
<1>13. ASSUME NEW c \in Clients, Recovering(c) PROVE Goal
  BY <1>1, <1>13 DEF Recovering, IssueRecovery, RejectRecovery, Redeem
<1>14. ASSUME NEW c \in Clients, NEW s \in Sessions, RevokeSession(c, s) PROVE Goal
  BY <1>1, <1>14 DEF RevokeSession
<1>15. ASSUME NEW c \in Clients, CompleteRecovery(c) PROVE Goal
  <2>1. CASE CodeIsValid(client[c].code)
    <3>1. PICK v : /\ account' = [account EXCEPT ![v].password = @ + 1, ![v].failures = 0,
                                                 ![v].locked = FALSE]
                   /\ tries' = [tries EXCEPT ![v] = 0]
      BY <1>15, <2>1, ZenonT(30) DEF CompleteRecovery
    <3> QED BY <1>3, <3>1
  <2>2. CASE ~CodeIsValid(client[c].code)
    BY <1>1, <1>15, <2>2 DEF CompleteRecovery
  <2> QED BY <2>1, <2>2
<1>16. ASSUME NEW v \in Users, NEW q \in Codes, RequestRecovery(v, q) PROVE Goal
  BY <1>1, <1>16 DEF RequestRecovery
<1>17. ASSUME Time PROVE Goal
  <2>1. ASSUME NEW v \in Users, LockLapses(v) PROVE Goal
    BY <1>7, <2>1 DEF LockLapses
  <2> QED BY <1>1, <1>17, <2>1 DEF Time, SessionExpires, CodeLapses, HourPasses
<1>18. ASSUME UNCHANGED vars PROVE Goal
  BY <1>1, <1>18 DEF vars
<1> HIDE DEF Goal
<1>19. Goal
  BY <1>9, <1>10, <1>11, <1>12, <1>13, <1>14, <1>15, <1>16, <1>17, <1>18, Zenon DEF Next
<1> QED BY <1>19 DEF Goal, Same, Anew

\* A set without one of its members has fewer.
LEMMA OneLess ==
  ASSUME NEW S, NEW T, NEW x, IsFiniteSet(S), x \in S, x \notin T, T \subseteq S
  PROVE  Cardinality(T) <= Cardinality(S) - 1
<1>1. IsFiniteSet(S \ {x}) /\ Cardinality(S \ {x}) = Cardinality(S) - 1
  BY FS_RemoveElement
<1>2. T \subseteq S \ {x}
  OBVIOUS
<1>3. Cardinality(T) <= Cardinality(S \ {x})
  BY <1>1, <1>2, FS_Subset
<1> QED BY <1>1, <1>3

\* Every step keeps the count of wrong passwords within the lock: the failure that
\* raises the counter to LockAfter - 1 locks, and afterwards each failure uses up a
\* login under way.
LEMMA CountedKept ==
  ASSUME AccountsAssumption, TypeOK, TypeOK', Counted, [Next]_vars
  PROVE  Counted'
<1> SUFFICES ASSUME NEW u \in Users
             PROVE  /\ ~account'[u].locked =>
                         tries'[u] < LockAfter - 1 /\ tries'[u] <= account'[u].failures
                    /\ account'[u].locked =>
                         tries'[u] + Cardinality(Guesses(u)')
                           < LockAfter - 1 + Cardinality(Clients)
  BY DEF Counted
<1>0. /\ account \in [Users -> Account] /\ tries \in [Users -> Nat]
      /\ LockAfter \in Nat \ {0, 1} /\ IsFiniteSet(Clients)
      /\ account[u].failures \in Nat /\ account[u].locked \in BOOLEAN
  BY DEF TypeOK, PolicyTypeOK, Account, AccountsAssumption
<1>1. Guesses(u) \subseteq Clients /\ Guesses(u)' \subseteq Clients
  BY DEF Guesses
<1>2. /\ IsFiniteSet(Guesses(u)) /\ IsFiniteSet(Guesses(u)')
      /\ Cardinality(Guesses(u)) \in Nat /\ Cardinality(Guesses(u)') \in Nat
      /\ Cardinality(Guesses(u)) <= Cardinality(Clients)
      /\ Cardinality(Guesses(u)') <= Cardinality(Clients)
      /\ Cardinality(Clients) \in Nat
  BY <1>0, <1>1, FS_Subset, FS_CardinalityType
<1>3. account[u].locked => Guesses(u)' \subseteq Guesses(u)
  <2>1. SUFFICES ASSUME account[u].locked, NEW b \in Guesses(u)' PROVE b \in Guesses(u)
    OBVIOUS
  <2>2. b \in Clients /\ client'[b].doing = "login" /\ client'[b].user = u /\ ~client'[b].right
    BY <2>1 DEF Guesses
  <2>3. CASE client'[b] = client[b]
    BY <2>2, <2>3 DEF Guesses
  <2>4. ASSUME NEW v \in Users, NEW right \in BOOLEAN, Login(b, v, right) PROVE FALSE
    BY <2>1, <2>2, <2>4 DEF Login, Begin, TypeOK
  <2> QED BY <2>2, <2>3, <2>4, LoginsBegin
<1>4. CASE /\ account'[u].locked = account[u].locked
           /\ account'[u].failures = account[u].failures /\ tries'[u] = tries[u]
  <2>1. account[u].locked => Cardinality(Guesses(u)') <= Cardinality(Guesses(u))
    BY <1>2, <1>3, FS_Subset
  <2> QED BY <1>0, <1>2, <1>4, <2>1 DEF Counted
<1>5. CASE ~account'[u].locked /\ tries'[u] = 0
  <2>1. account'[u].failures \in Nat
    BY DEF TypeOK, PolicyTypeOK, Account
  <2> QED BY <1>0, <1>5, <2>1
<1>6. ASSUME NEW c \in Clients, LoginFails(c), client[c].user = u
      PROVE  /\ ~account'[u].locked =>
                  tries'[u] < LockAfter - 1 /\ tries'[u] <= account'[u].failures
             /\ account'[u].locked =>
                  tries'[u] + Cardinality(Guesses(u)') < LockAfter - 1 + Cardinality(Clients)
  <2>1. /\ account'[u].failures = account[u].failures + 1
        /\ account'[u].locked <=> (account[u].locked \/ account[u].failures + 2 >= LockAfter)
        /\ tries'[u] = tries[u] + 1 /\ tries[u] \in Nat
    BY <1>0, <1>6 DEF LoginFails, Account
  <2>2. c \notin Guesses(u)' /\ c \in Guesses(u)
    BY <1>6 DEF LoginFails, Done, Idle, Guesses, TypeOK
  <2>3. CASE ~account[u].locked
    <3>1. Cardinality(Guesses(u)') < Cardinality(Clients)
      <4>1. Cardinality(Guesses(u)') <= Cardinality(Clients) - 1
        BY <1>0, <1>1, <2>2, OneLess
      <4> QED BY <1>2, <4>1
    <3>2. tries[u] < LockAfter - 1 /\ tries[u] <= account[u].failures
      BY <2>3 DEF Counted
    <3> QED BY <1>0, <1>2, <2>1, <3>1, <3>2
  <2>4. CASE account[u].locked
    <3>1. Cardinality(Guesses(u)') <= Cardinality(Guesses(u)) - 1
      BY <1>2, <1>3, <2>2, <2>4, OneLess
    <3>2. tries[u] + Cardinality(Guesses(u)) < LockAfter - 1 + Cardinality(Clients)
      BY <2>4 DEF Counted
    <3> QED BY <1>0, <1>2, <2>1, <2>4, <3>1, <3>2
  <2> QED BY <2>3, <2>4
<1> QED BY <1>4, <1>5, <1>6, CounterSteps


-----------------------------------------------------------------------------
\* The invariant and what follows from it

\* The invariant holds of what the seed leaves.
LEMMA InitHolds ==
  ASSUME AccountsAssumption, InitAssumption, Init
  PROVE  AInv
<1>1. PolicyTypeOK
  BY DEF Init, AccountsAssumption, PolicyTypeOK
<1>2. session \in [Sessions -> Session \cup {Unused}]
  <2>1. ASSUME NEW s \in Sessions, InitSession[s] # NoUser
        PROVE  [user |-> InitSession[s], open |-> TRUE, held |-> TRUE,
                ground |-> GroundOf(InitSession[s])] \in Session
    <3>1. InitSession[s] \in Users
      BY <2>1 DEF AccountsAssumption
    <3>2. GroundOf(InitSession[s]) \in Ground
      BY <1>1, <3>1, PolicyGround
    <3> QED BY <3>1, <3>2 DEF Session
  <2> QED BY <2>1 DEF Init
<1>3. TypeOK
  BY <1>1, <1>2 DEF TypeOK, Init, Client, Code, NoCode
<1>4. Superior /\ Holdings
  BY DEF Init, InitAssumption, Superior, Holdings
<1>5. ASSUME NEW s \in Sessions, session[s] # Unused
      PROVE  /\ InitSession[s] \in Users /\ InitSession[s] # NoUser
             /\ session[s].user = InitSession[s]
             /\ session[s].ground = GroundOf(InitSession[s])
  BY <1>5 DEF Init, AccountsAssumption
<1>6. Known
  BY <1>5 DEF Known, Init, InitAssumption, Idle
<1>7. Grounded
  BY <1>5 DEF Grounded, Opened
<1>8. Owned
  BY DEF Owned, Init, NoCode
<1>9. Counted
  <2>1. \A u \in Users : Guesses(u) = {}
    BY DEF Guesses, Init, Idle
  <2>2. Cardinality({}) = 0 /\ Cardinality(Clients) \in Nat
    BY FS_EmptySet, FS_CardinalityType DEF AccountsAssumption
  <2>3. \A u \in Users : account[u].failures \in Nat
    BY <1>1 DEF PolicyTypeOK, Account
  <2>4. \A u \in Users : tries[u] = 0
    BY DEF Init
  <2>5. LockAfter \in Nat \ {0, 1}
    BY DEF AccountsAssumption
  <2>6. \A u \in Users : Cardinality(Guesses(u)) = 0
    BY <2>1, <2>2
  <2> QED BY <2>2, <2>3, <2>4, <2>5, <2>6 DEF Counted
<1> QED BY <1>3, <1>4, <1>6, <1>7, <1>8, <1>9 DEF AInv

\* Every step keeps the invariant.
LEMMA StepKeeps ==
  ASSUME AccountsAssumption, AInv, [Next]_vars
  PROVE  AInv'
<1>1. TypeOK' /\ Superior' /\ Holdings' /\ Owned' /\ Known' /\ Grounded'
  BY TypesKept, SuperiorKept, HoldingsKept, OwnedKept, KnownKept, GroundedKept DEF AInv
<1>2. Counted'
  BY <1>1, CountedKept DEF AInv
<1> QED BY <1>1, <1>2 DEF AInv

\* The invariant always holds.
LEMMA Invariant == Spec => []AInv
<1>1. Init => AInv
  BY InitHolds, AccountsAssumption, InitAssumption
<1>2. AInv /\ [Next]_vars => AInv'
  BY StepKeeps, AccountsAssumption
<1> QED BY <1>1, <1>2, PTL DEF Spec

\* Rows, sessions, codes and activities keep their types, whatever the users, roles,
\* clients and bounds.
THEOREM AccountsTyped == Spec => []TypeOK
<1>1. AInv => TypeOK
  BY DEF AInv
<1> QED BY <1>1, Invariant, PTL

\* A session is good only on the password, roles and overrides it was opened on: all
\* handlers that move one close the sessions (admin.service.ts:2183-2299,
\* access-control.service.ts:631-637).
THEOREM SessionsStandOnTheirGround == Spec => []SessionsKeepTheirGround
<1>1. AInv => SessionsKeepTheirGround
  BY DEF AInv, Grounded, SessionsKeepTheirGround, Usable
<1> QED BY <1>1, Invariant, PTL

\* The lock bounds the wrong passwords that are tried, whatever logins overlap: at most
\* LockAfter - 2 and one for each login under way (auth.service.ts:47-68), since the
\* statement that locks adds to a counter that it has raised already.
THEOREM GuessesStayBounded == Spec => []GuessesAreBounded
<1>1. AInv => GuessesAreBounded
  <2> SUFFICES ASSUME AInv, NEW u \in Users
               PROVE  tries[u] < LockAfter - 1 + Cardinality(Clients)
    BY DEF GuessesAreBounded
  <2>1. /\ LockAfter \in Nat /\ IsFiniteSet(Clients) /\ Cardinality(Clients) \in Nat
        /\ tries[u] \in Nat /\ account[u].locked \in BOOLEAN
    BY AccountsAssumption, FS_CardinalityType
       DEF AccountsAssumption, AInv, TypeOK, PolicyTypeOK, Account
  <2>2. Guesses(u) \subseteq Clients
    BY DEF Guesses
  <2>3. Cardinality(Guesses(u)) \in Nat
    BY <2>1, <2>2, FS_Subset, FS_CardinalityType
  <2> QED BY <2>1, <2>3 DEF AInv, Counted
<1> QED BY <1>1, Invariant, PTL

\* A role that is switched off counts 0 in the list of accounts and nothing in the
\* policy, which gives the same level: no level is below 0.
LEMMA ShownLevelIs ==
  ASSUME TypeOK, Superior, NEW u \in Users
  PROVE  ShownLevel(u) = Authority(u)
<1> DEFINE Held == {r \in assigned[u] : role[r].exists}
           Worth(r) == IF role[r].active THEN role[r].level ELSE 0
           All == {Worth(r) : r \in Held}
           Active == {role[r].level : r \in ActiveRoles(u)}
<1>1. /\ \A r \in assigned[u] : role[r] \in Role /\ role[r].level <= role[Super].level
      /\ role[Super].level \in Nat
  BY AccountsAssumption
     DEF TypeOK, PolicyTypeOK, Superior, Role, AccountsAssumption, PolicyAssumption
<1>2. \A r \in ActiveRoles(u) : r \in Held /\ Worth(r) = role[r].level
  BY DEF ActiveRoles
<1>3. \A r \in Held : Worth(r) = 0 \/ r \in ActiveRoles(u)
  BY DEF ActiveRoles
<1>4. All \subseteq 0..role[Super].level
  BY <1>1 DEF Role
<1>5. Active \subseteq 0..role[Super].level
  BY <1>1 DEF Role, ActiveRoles
<1>6. Active \subseteq All
  BY <1>2
<1>7. \A l \in All : l = 0 \/ l \in Active
  BY <1>3
<1> HIDE DEF All, Active
<1>8. Maximum(All) = Maximum(Active)
  <2>1. /\ Maximum(All) \in 0..role[Super].level
        /\ All # {} => Maximum(All) \in All
        /\ \A l \in All : l <= Maximum(All)
    BY <1>1, <1>4, MaximumIs, Zenon
  <2>2. /\ Maximum(Active) \in 0..role[Super].level
        /\ Active # {} => Maximum(Active) \in Active
        /\ \A l \in Active : l <= Maximum(Active)
    BY <1>1, <1>5, MaximumIs, Zenon
  <2>3. Maximum(Active) <= Maximum(All)
    BY <1>6, <2>1, <2>2 DEF Maximum
  <2>4. Maximum(All) <= Maximum(Active)
    BY <1>7, <2>1, <2>2 DEF Maximum
  <2> QED BY <2>1, <2>2, <2>3, <2>4
<1> QED BY <1>8 DEF ShownLevel, Authority, All, Active

\* The list of accounts offers to manage those that the policy lets manage, though it
\* counts a role that is switched off as 0, and an account's page shows the permissions
\* its next request carries, though it lets an override replace what the roles grant
\* (admin.service.ts:1945-1962, access-control.service.ts:335-370 against
\* authorization-policy.service.ts:65-93, auth.service.ts:111-252).  The second needs
\* the invariant that no code is both allowed and denied to one user.
THEOREM ScreensOfferWhatIsAccepted == Spec => []ScreensAgreeWithPolicy
<1>1. AInv => ScreensAgreeWithPolicy
  <2> SUFFICES ASSUME AInv, NEW u \in Users
               PROVE  /\ Exists(u) => \A actor \in Users :
                                        ShownManageable(actor, u) <=> CanManageUser(actor, u)
                      /\ ShownEffective(u) = Effective(u)
    BY Zenon DEF ScreensAgreeWithPolicy
  <2>1. Exists(u) => \A actor \in Users :
                       ShownManageable(actor, u) <=> CanManageUser(actor, u)
    <3>1. ShownLevel(u) = Authority(u)
      BY ShownLevelIs DEF AInv
    <3> QED BY <3>1 DEF ShownManageable, CanManageUser
  <2>2. ShownEffective(u) = Effective(u)
    <3>1. Effective(u) \subseteq Perms
      BY AccountsAssumption, GroundTyped DEF AInv
    <3>2. allow[u] \cap deny[u] = {} /\ allow[u] \subseteq Perms
      BY DEF AInv, Holdings, TypeOK, PolicyTypeOK
    <3>3. ASSUME NEW p \in Perms PROVE p \in ShownEffective(u) <=> p \in Effective(u)
      BY <3>2 DEF ShownEffective, Effective
    <3>4. ShownEffective(u) \subseteq Perms
      BY DEF ShownEffective
    <3> QED BY <3>1, <3>3, <3>4
  <2> QED BY <2>1, <2>2
<1> QED BY <1>1, Invariant, PTL


-----------------------------------------------------------------------------
\* Authority

\* No step touches an account with SUPER but its holder's change of password.
LEMMA SuperStep ==
  ASSUME AccountsAssumption, AInv, [Next]_vars, NEW u \in Users, Protected(u)
  PROVE  /\ account'[u].status = account[u].status
         /\ allow'[u] = allow[u] /\ deny'[u] = deny[u]
         /\ account'[u].password # account[u].password =>
              \E c \in Clients : client[c].doing = "verified" /\ client[c].user = u
<1> DEFINE Same == account'[u].status = account[u].status
                   /\ account'[u].password = account[u].password
           Goal == /\ account'[u].status = account[u].status
                   /\ account'[u].password # account[u].password =>
                        \E c \in Clients : client[c].doing = "verified" /\ client[c].user = u
<1>0. TypeOK /\ Superior /\ Holdings /\ Owned /\ account \in [Users -> Account]
  BY DEF AInv, TypeOK, PolicyTypeOK
<1>1. ASSUME account' = account PROVE Goal
  BY <1>1
<1>2. ASSUME Same PROVE Goal
  BY <1>2
<1>3. ASSUME account'[u] = account[u] PROVE Goal
  BY <1>3
<1>4. ASSUME NEW c \in Clients, ChangePassword(c) PROVE Goal
  <2>1. CASE client[c].user = u
    <3>1. account'[u].status = account[u].status
      BY <1>0, <1>4 DEF ChangePassword, Account
    <3> QED BY <1>4, <2>1, <3>1 DEF ChangePassword
  <2>2. CASE client[c].user # u
    BY <1>0, <1>4, <2>2 DEF ChangePassword
  <2> QED BY <2>1, <2>2
<1> HIDE DEF Goal
<1>5. ASSUME NEW c \in Clients, NEW v \in Users, client[c].doing = "request",
             CanManageUser(client[c].user, v)
      PROVE  v # u
  <2>1. client[c].user \in Users
    BY <1>0, <1>5, ClientForms
  <2>2. ~Protected(v)
    BY <1>0, <1>5, <2>1, NobodyManagesSuper
  <2> QED BY <2>2
<1>6. ASSUME NEW c \in Clients, SigningIn(c) PROVE Goal
  <2>1. ASSUME LoginFails(c) PROVE Goal
    BY <1>0, <1>2, <2>1 DEF LoginFails, Account
  <2>2. ASSUME LoginClears(c) PROVE Goal
    BY <1>0, <1>2, <2>2 DEF LoginClears, Account
  <2> QED BY <1>1, <1>6, <2>1, <2>2 DEF SigningIn, Login, LoginOpens, LoginAnswers
<1>7. ASSUME NEW c \in Clients, OwnAccount(c) PROVE Goal
  BY <1>1, <1>4, <1>7 DEF OwnAccount, Guard, Answer, Logout, VerifyPassword
<1>8. ASSUME NEW c \in Clients, AccountAdministration(c) PROVE Goal
  <2> SUFFICES ASSUME NEW v \in Users,
          \/ \E rs \in RoleChoices : CreateUser(c, v, rs)
          \/ \E rs \in RoleChoices : SetUserRoles(c, v, rs)
          \/ ResetPassword(c, v)
          \/ \E active \in BOOLEAN : SetUserActive(c, v, active)
          \/ \E change \in UserChanges : ChangeUser(c, v, change)
          \/ \E al, de \in GrantChoices : UpdateUserPermissions(c, v, al, de)
        PROVE Goal
    BY <1>8, Zenon DEF AccountAdministration
  <2>1. ASSUME NEW rs \in RoleChoices, CreateUser(c, v, rs) PROVE Goal
    <3>1. v # u
      BY <1>0, <2>1 DEF CreateUser, Holdings, Protected
    <3> QED BY <1>0, <1>3, <2>1, <3>1 DEF CreateUser
  <2>2. ASSUME ResetPassword(c, v) PROVE Goal
    BY <1>0, <1>3, <1>5, <2>2 DEF ResetPassword, Permitted
  <2>3. ASSUME NEW active \in BOOLEAN, SetUserActive(c, v, active) PROVE Goal
    BY <1>0, <1>3, <1>5, <2>3 DEF SetUserActive, Permitted
  <2>4. ASSUME NEW change \in UserChanges, ChangeUser(c, v, change) PROVE Goal
    BY <1>0, <1>3, <1>5, <2>4 DEF ChangeUser, Permitted
  <2> QED BY <1>1, <2>1, <2>2, <2>3, <2>4 DEF SetUserRoles, UpdateUserPermissions
<1>9. ASSUME NEW c \in Clients, RoleAdministration(c) PROVE Goal
  BY <1>1, <1>9
     DEF RoleAdministration, CreateRole, UpdateRole, UpdateRolePermissions, DeleteRole
<1>10. ASSUME NEW c \in Clients, Recovering(c) PROVE Goal
  BY <1>1, <1>10 DEF Recovering, IssueRecovery, RejectRecovery, Redeem
<1>11. ASSUME NEW c \in Clients, NEW s \in Sessions, RevokeSession(c, s) PROVE Goal
  BY <1>1, <1>11 DEF RevokeSession
<1>12. ASSUME NEW c \in Clients, CompleteRecovery(c) PROVE Goal
  <2> DEFINE q == client[c].code
  <2>1. CASE CodeIsValid(q)
    <3>1. account' = [account EXCEPT ![code[q].user].password = @ + 1,
                                     ![code[q].user].failures = 0,
                                     ![code[q].user].locked = FALSE]
      BY <1>12, <2>1, ZenonT(30) DEF CompleteRecovery
    <3>2. q \in Codes
      BY <1>0, <1>12, ClientForms DEF CompleteRecovery
    <3>3. code[q].user # u
      BY <1>0, <2>1, <3>2 DEF CodeIsValid, Owned
    <3> QED BY <1>0, <1>3, <3>1, <3>3
  <2>2. CASE ~CodeIsValid(q)
    BY <1>1, <1>12, <2>2 DEF CompleteRecovery
  <2> QED BY <2>1, <2>2
<1>13. ASSUME NEW v \in Users, NEW q \in Codes, RequestRecovery(v, q) PROVE Goal
  BY <1>1, <1>13 DEF RequestRecovery
<1>14. ASSUME Time PROVE Goal
  <2>1. ASSUME NEW v \in Users, LockLapses(v) PROVE Goal
    BY <1>0, <1>2, <2>1 DEF LockLapses, Account
  <2> QED BY <1>1, <1>14, <2>1 DEF Time, SessionExpires, CodeLapses, HourPasses
<1>15. ASSUME UNCHANGED vars PROVE Goal
  BY <1>1, <1>15 DEF vars
<1>16. Goal
  BY <1>6, <1>7, <1>8, <1>9, <1>10, <1>11, <1>12, <1>13, <1>14, <1>15, Zenon DEF Next
<1>17. allow'[u] = allow[u] /\ deny'[u] = deny[u]
  <2>1. ASSUME NEW c \in Clients, NEW v \in Users, NEW al \in GrantChoices,
               NEW de \in GrantChoices, UpdateUserPermissions(c, v, al, de)
        PROVE  allow'[u] = allow[u] /\ deny'[u] = deny[u]
    <3>1. v # u
      BY <1>5, <2>1 DEF UpdateUserPermissions, Permitted
    <3> QED BY <1>0, <2>1, <3>1 DEF UpdateUserPermissions, TypeOK, PolicyTypeOK
  <2> QED BY <2>1, HoldingSteps
<1> QED BY <1>16, <1>17 DEF Goal

\* No sequence of administrative calls makes, unmakes or alters a holder of SUPER
\* (authorization-policy.service.ts:65-128, 195-226).
THEOREM SuperStaysOutOfReach == Spec => SuperOutOfReach
<1> DEFINE Step ==
      \A u \in Users :
        /\ Protected(u)' = Protected(u)
        /\ Protected(u) =>
             /\ account'[u].status = account[u].status
             /\ allow'[u] = allow[u] /\ deny'[u] = deny[u]
             /\ account'[u].password # account[u].password =>
                  \E c \in Clients : client[c].doing = "verified" /\ client[c].user = u
<1>1. AInv /\ [Next]_vars => [Step]_vars
  <2>1. ASSUME AInv, [Next]_vars, NEW u \in Users PROVE Protected(u)' = Protected(u)
    <3>1. Protected(u)' <=> Protected(u)
      BY <2>1, ProtectedStays, AccountsAssumption DEF AInv
    <3> QED BY <3>1 DEF Protected
  <2> QED BY <2>1, SuperStep, AccountsAssumption
<1>2. Spec => [][Step]_vars
  BY <1>1, Invariant, PTL DEF Spec
<1> QED BY <1>2 DEF SuperOutOfReach


\* What a step makes of an authority is the level of a role that is active after it.
LEMMA AuthorityNext ==
  ASSUME AccountsAssumption, TypeOK', Superior', NEW u \in Users
  PROVE  /\ Authority(u)' \in Nat
         /\ Authority(u)' = 0 \/ \E r \in ActiveRoles(u)' : Authority(u)' = role'[r].level
<1> DEFINE levels == {role'[r].level : r \in ActiveRoles(u)'}
           top == role'[Super].level
<1>1. top \in Nat /\ Super \in Roles
  BY DEF AccountsAssumption, PolicyAssumption, TypeOK, PolicyTypeOK, Role
<1>2. ActiveRoles(u)' \subseteq Roles
  BY DEF ActiveRoles, TypeOK, PolicyTypeOK
<1>3. levels \subseteq 0..top
  BY <1>1, <1>2 DEF Superior, TypeOK, PolicyTypeOK, Role
<1>4. Authority(u)' = Maximum(levels)
  BY DEF Authority, Maximum
<1> HIDE DEF levels, top
<1>5. Maximum(levels) \in 0..top /\ (levels # {} => Maximum(levels) \in levels)
  BY <1>1, <1>3, MaximumIs, Zenon
<1>6. levels = {} => Maximum(levels) = 0
  BY DEF Maximum
<1>7. Authority(u)' \in Nat
  BY <1>1, <1>4, <1>5
<1>8. Authority(u)' # 0 => Authority(u)' \in levels
  BY <1>4, <1>5, <1>6
<1> QED BY <1>7, <1>8 DEF levels

\* Authority rises in requests of others only, who stand above what it becomes.
LEMMA AuthorityStep ==
  ASSUME AccountsAssumption, AInv, AInv', [Next]_vars,
         NEW u \in Users, Authority(u)' > Authority(u)
  PROVE  \E c \in Clients : /\ client[c].doing = "request" /\ client'[c] = Idle
                            /\ client[c].user # u
                            /\ Authority(client[c].user) > Authority(u)'
<1> DEFINE Above(c) == /\ client[c].doing = "request" /\ client'[c] = Idle
                       /\ client[c].user # u
                       /\ Authority(client[c].user) > Authority(u)'
<1>0. /\ TypeOK /\ Superior /\ Holdings /\ Known /\ TypeOK' /\ Superior'
      /\ assigned \in [Users -> SUBSET Roles] /\ role \in [Roles -> Role]
      /\ client \in [Clients -> Client]
  BY DEF AInv, TypeOK, PolicyTypeOK
<1>1. /\ Authority(u) \in Nat
      /\ \A r \in ActiveRoles(u) : role[r].level <= Authority(u)
  BY <1>0, AuthorityIs DEF AccountsAssumption, PolicyAssumption, Role
<1>2. PICK r \in ActiveRoles(u)' : Authority(u)' = role'[r].level
  BY <1>0, <1>1, AuthorityNext
<1>3. r \in Roles /\ r \in assigned'[u] /\ role'[r].exists /\ role'[r].active
  BY <1>0, <1>2 DEF ActiveRoles, TypeOK, PolicyTypeOK
<1>4. ASSUME r \in ActiveRoles(u), role'[r].level = role[r].level PROVE FALSE
  BY <1>0, <1>1, <1>2, <1>3, <1>4 DEF Role
<1>5. \A c \in Clients : Done(c) => client'[c] = Idle
  BY <1>0 DEF Done
<1>6. CASE role' = role
  <2>1. assigned' # assigned
    BY <1>4, <1>6, <1>2 DEF ActiveRoles
  <2>2. PICK c \in Clients, v \in Users, rs \in RoleChoices :
          CreateUser(c, v, rs) \/ SetUserRoles(c, v, rs)
    BY <2>1, HoldingSteps
  <2>3. v = u /\ r \in rs
    <3>1. CASE v # u
      <4>1. assigned'[u] = assigned[u]
        BY <1>0, <2>2, <3>1 DEF CreateUser, SetUserRoles
      <4> QED BY <1>3, <1>4, <1>6, <4>1 DEF ActiveRoles
    <3>2. CASE v = u
      BY <1>0, <1>3, <2>2, <3>2 DEF CreateUser, SetUserRoles
    <3> QED BY <3>1, <3>2
  <2>4. CanAssign(client[c].user, rs) /\ client[c].doing = "request" /\ Done(c)
    BY <2>2 DEF CreateUser, SetUserRoles, Permitted
  <2>5. role[r].level < Authority(client[c].user)
    BY <2>3, <2>4 DEF CanAssign
  <2>6. client[c].user # u
    <3>1. CASE CreateUser(c, v, rs)
      BY <1>0, <2>3, <2>4, <3>1 DEF CreateUser, Known
    <3>2. CASE SetUserRoles(c, v, rs)
      BY <2>3, <3>2 DEF SetUserRoles, CanManageUser
    <3> QED BY <2>2, <3>1, <3>2
  <2>7. Authority(client[c].user) \in Nat
    BY <1>0, <2>4, ClientForms, AuthorityIs DEF AccountsAssumption, PolicyAssumption, Role
  <2>8. Above(c)
    BY <1>0, <1>2, <1>3, <1>5, <1>6, <2>4, <2>5, <2>6, <2>7 DEF Role
  <2> QED BY <2>8
<1>7. ASSUME NEW c \in Clients, RoleAdministration(c) PROVE \E b \in Clients : Above(b)
  <2>0. assigned' = assigned
    BY <1>7 DEF RoleAdministration, CreateRole, UpdateRole, UpdateRolePermissions, DeleteRole
  <2>1. r \in assigned[u] /\ role[r].exists
    BY <1>0, <1>3, <2>0 DEF Holdings
  <2>2. ASSUME NEW o \in Roles, CreateRole(c, o) PROVE FALSE
    <3>1. o # r
      BY <2>1, <2>2 DEF CreateRole
    <3>2. role'[r] = role[r]
      BY <1>0, <1>3, <2>2, <3>1 DEF CreateRole
    <3> QED BY <1>3, <1>4, <2>1, <3>2 DEF ActiveRoles
  <2>3. ASSUME NEW o \in Roles, NEW codes \in GrantChoices, UpdateRolePermissions(c, o, codes)
        PROVE  FALSE
    <3>1. role'[r].exists = role[r].exists /\ role'[r].active = role[r].active
          /\ role'[r].level = role[r].level
      <4>1. CASE o = r
        <5>1. role'[r] = [role[r] EXCEPT !.grants = codes] /\ role[r] \in Role
          BY <1>0, <1>3, <2>3, <4>1 DEF UpdateRolePermissions
        <5>2. \A a \in Role : LET b == [a EXCEPT !.grants = codes]
                              IN  b.exists = a.exists /\ b.active = a.active /\ b.level = a.level
          BY DEF Role
        <5> QED BY <5>1, <5>2
      <4>2. CASE o # r
        BY <1>0, <1>3, <2>3, <4>2 DEF UpdateRolePermissions
      <4> QED BY <4>1, <4>2
    <3> QED BY <1>3, <1>4, <2>1, <3>1 DEF ActiveRoles
  <2>4. ASSUME NEW o \in Roles, DeleteRole(c, o) PROVE FALSE
    <3>1. o # r
      BY <2>1, <2>4 DEF DeleteRole, Holders
    <3>2. role'[r] = role[r]
      BY <1>0, <1>3, <2>4, <3>1 DEF DeleteRole
    <3> QED BY <1>3, <1>4, <2>1, <3>2 DEF ActiveRoles
  <2>5. ASSUME NEW o \in Roles, NEW active \in BOOLEAN, UpdateRole(c, o, active) PROVE Above(c)
    <3>1. o = r
      <4>1. CASE o # r
        <5>1. role'[r] = role[r]
          BY <1>0, <1>3, <2>5, <4>1 DEF UpdateRole
        <5> QED BY <1>3, <1>4, <2>1, <5>1 DEF ActiveRoles
      <4> QED BY <4>1
    <3>2. role'[r].level = role[r].level
      BY <1>0, <1>3, <2>5 DEF UpdateRole, Role
    <3>3. client[c].doing = "request" /\ Authority(client[c].user) > role[r].level /\ Done(c)
      BY <2>5, <3>1 DEF UpdateRole, Permitted, CanManageRole
    <3>4. client[c].user # u
      <4>1. role[r].level \in Nat
        BY <1>0, <1>3 DEF Role
      <4> QED BY <1>1, <1>2, <3>2, <3>3, <4>1
    <3> QED BY <1>2, <1>5, <3>2, <3>3, <3>4
  <2> HIDE DEF Above
  <2>6. Above(c)
    BY <1>7, <2>2, <2>3, <2>4, <2>5 DEF RoleAdministration
  <2> QED BY <2>6
<1> QED BY <1>6, <1>7, RoleSteps

\* Authority rises only by the request of somebody else who has more than it becomes
\* (authorization-policy.service.ts:186-226).
THEOREM AuthorityComesFromAbove == Spec => AuthorityIsGivenFromAbove
<1> DEFINE Step ==
      \A u \in Users :
        Authority(u)' > Authority(u) =>
          \E c \in Clients : /\ client[c].doing = "request" /\ client'[c] = Idle
                             /\ client[c].user # u
                             /\ Authority(client[c].user) > Authority(u)'
<1>1. AInv /\ AInv' /\ [Next]_vars => [Step]_vars
  BY AuthorityStep, AccountsAssumption
<1>2. Spec => [][Step]_vars
  BY <1>1, Invariant, PTL DEF Spec
<1> QED BY <1>2 DEF AuthorityIsGivenFromAbove


-----------------------------------------------------------------------------
\* Recovery codes

\* A code that was not issued has not lapsed, and no password is older than the code
\* that was issued for it.
Printed ==
  \A q \in Codes :
    /\ code[q].status \in {"NONE", "PENDING"} => ~code[q].lapsed
    /\ code[q].status = "ISSUED" => code[q].print <= account[code[q].user].password

StateMap == [q \in Codes |-> CodeState(q)]
OwnerMap == [q \in Codes |-> code[q].user]
PasswordMap == [u \in Users |-> account[u].password]

RInv == TypeOK /\ Owned /\ Printed

\* What the types say of one recovery code.
LEMMA CodeRow ==
  ASSUME TypeOK, NEW q \in Codes
  PROVE  /\ code \in [Codes -> Code] /\ code[q] \in Code
         /\ code[q].status \in {"NONE", "PENDING", "ISSUED", "COMPLETED", "REJECTED", "EXPIRED"}
         /\ code[q].print \in Nat /\ code[q].lapsed \in BOOLEAN
BY DEF TypeOK, Code

\* A password is a number, of the times it was set.
LEMMA PasswordIs ==
  ASSUME TypeOK, NEW u \in Users
  PROVE  account[u].password \in Nat
BY DEF TypeOK, PolicyTypeOK, Account

\* While codes and passwords stay, nothing happens.
LEMMA NothingHappens ==
  ASSUME RInv, code' = code, \A u \in Users : account'[u].password = account[u].password
  PROVE  Printed' /\ UNCHANGED <<StateMap, OwnerMap, PasswordMap>>
<1>1. \A q \in Codes : code[q].status = "ISSUED" => code[q].user \in Users
  BY DEF RInv, Owned
<1>2. Printed'
  BY <1>1 DEF RInv, Printed
<1>3. \A q \in Codes : CodeState(q)' = CodeState(q)
  BY <1>1 DEF CodeState
<1> QED BY <1>2, <1>3 DEF StateMap, OwnerMap, PasswordMap

\* A password set in any way but by a code outruns the codes of its owner.
LEMMA PasswordChanges ==
  ASSUME RInv, code' = code, NEW v \in Users,
         account'[v].password = account[v].password + 1,
         \A u \in Users \ {v} : account'[u].password = account[u].password
  PROVE  Printed' /\ OneTime!Change(v)
<1>0. \A u \in Users : account[u].password \in Nat
  BY PasswordIs DEF RInv
<1>1. \A q \in Codes : code[q].status = "ISSUED" =>
        /\ code[q].user \in Users /\ code[q].print \in Nat
        /\ code[q].print <= account[code[q].user].password
  BY CodeRow DEF RInv, Owned, Printed
<1>2. Printed'
  BY <1>0, <1>1 DEF RInv, Printed
<1>3. ASSUME NEW q \in Codes
      PROVE  CodeState(q)' = IF CodeState(q) = "good" /\ code[q].user = v THEN "void"
                             ELSE CodeState(q)
  <2>1. CASE code[q].status = "ISSUED" /\ code[q].user = v
    <3>1. code[q].print # account'[code[q].user].password
      BY <1>0, <1>1, <2>1
    <3> QED BY <2>1, <3>1 DEF CodeState
  <2>2. CASE code[q].status = "ISSUED" /\ code[q].user # v
    BY <1>1, <2>2 DEF CodeState
  <2>3. CASE code[q].status # "ISSUED"
    BY <2>3 DEF CodeState
  <2> QED BY <2>1, <2>2, <2>3
<1>4. StateMap' = [q \in Codes |-> IF StateMap[q] = "good" /\ OwnerMap[q] = v THEN "void"
                                   ELSE StateMap[q]]
  BY <1>3 DEF StateMap, OwnerMap
<1>5. PasswordMap' = [PasswordMap EXCEPT ![v] = @ + 1]
  BY DEF PasswordMap
<1>6. OwnerMap' = OwnerMap
  BY DEF OwnerMap
<1> QED BY <1>2, <1>4, <1>5, <1>6
   DEF OneTime!Change, OneTime!Outrun, StateMap, OwnerMap, PasswordMap


\* One code moves on while the passwords stay.
LEMMA OneCodeMoves ==
  ASSUME RInv, \A u \in Users : account'[u].password = account[u].password,
         NEW q \in Codes, NEW k, k.user = code[q].user, code' = [code EXCEPT ![q] = k],
         k.status \in {"NONE", "PENDING"} => ~k.lapsed,
         k.status = "ISSUED" =>
           k.user \in Users /\ k.print <= account[k.user].password
  PROVE  /\ Printed'
         /\ StateMap' = [StateMap EXCEPT ![q] = CodeState(q)']
         /\ UNCHANGED <<OwnerMap, PasswordMap>>
<1>0. code \in [Codes -> Code]
  BY DEF RInv, TypeOK
<1>1. \A p \in Codes : code[p].status = "ISSUED" => code[p].user \in Users
  BY DEF RInv, Owned
<1>2. code'[q] = k /\ \A p \in Codes \ {q} : code'[p] = code[p]
  BY <1>0
<1>3. Printed'
  BY <1>1, <1>2 DEF RInv, Printed
<1>4. \A p \in Codes \ {q} : CodeState(p)' = CodeState(p)
  BY <1>1, <1>2 DEF CodeState
<1>5. StateMap' = [StateMap EXCEPT ![q] = CodeState(q)']
  BY <1>4 DEF StateMap
<1>6. OwnerMap' = OwnerMap
  BY <1>2 DEF OwnerMap
<1>7. PasswordMap' = PasswordMap
  BY DEF PasswordMap
<1> QED BY <1>3, <1>5, <1>6, <1>7

\* Issuing a code is Issue: it carries the print of the password of its moment.
LEMMA IssueMaps ==
  ASSUME RInv, NEW c \in Clients, NEW q \in Codes, IssueRecovery(c, q)
  PROVE  Printed' /\ OneTime!Issue(q)
<1> DEFINE one == [code[q] EXCEPT !.status = "ISSUED"]
           k == [one EXCEPT !.print = account[code[q].user].password]
<1>1. code \in [Codes -> Code] /\ code[q] \in Code /\ code[q].user \in Users
  BY DEF RInv, TypeOK, IssueRecovery, Owned
<1>2. /\ k.user = code[q].user /\ k.status = "ISSUED" /\ k.lapsed = code[q].lapsed
      /\ k.print = account[code[q].user].password
  BY <1>1 DEF Code
<1>3. code' = [code EXCEPT ![q] = k]
  BY <1>1 DEF IssueRecovery
<1>4. account' = account /\ code[q].status = "PENDING" /\ ~code[q].lapsed
  BY DEF IssueRecovery, RInv, Printed
<1>5. account[code[q].user].password \in Nat
  BY <1>1, PasswordIs DEF RInv
<1>6. code'[q] = k
  BY <1>1, <1>3
<1> HIDE DEF k
<1>7. /\ Printed' /\ StateMap' = [StateMap EXCEPT ![q] = CodeState(q)']
      /\ UNCHANGED <<OwnerMap, PasswordMap>>
  <2>1. k.print <= account[k.user].password /\ k.user \in Users
    BY <1>1, <1>2, <1>5
  <2>2. k.status \in {"NONE", "PENDING"} => ~k.lapsed
    BY <1>2
  <2> QED BY <1>2, <1>3, <1>4, <2>1, <2>2, OneCodeMoves
<1>8. CodeState(q) = "asked" /\ CodeState(q)' = "good"
  BY <1>2, <1>4, <1>6 DEF CodeState
<1> QED BY <1>7, <1>8 DEF OneTime!Issue, StateMap, OwnerMap, PasswordMap

\* Rejecting a request is Refuse.
LEMMA RejectMaps ==
  ASSUME RInv, NEW c \in Clients, NEW q \in Codes, RejectRecovery(c, q)
  PROVE  Printed' /\ OneTime!Refuse(q)
<1> DEFINE k == [code[q] EXCEPT !.status = "REJECTED"]
<1>1. code \in [Codes -> Code] /\ code[q] \in Code
  BY DEF RInv, TypeOK
<1>2. k.user = code[q].user /\ k.status = "REJECTED"
  BY <1>1 DEF Code
<1>3. code' = [code EXCEPT ![q] = k] /\ account' = account /\ code[q].status = "PENDING"
  BY DEF RejectRecovery
<1>4. code'[q] = k
  BY <1>1, <1>3
<1> HIDE DEF k
<1>5. /\ Printed' /\ StateMap' = [StateMap EXCEPT ![q] = CodeState(q)']
      /\ UNCHANGED <<OwnerMap, PasswordMap>>
  BY <1>2, <1>3, OneCodeMoves
<1>6. CodeState(q) = "asked" /\ CodeState(q)' = "void"
  BY <1>2, <1>3, <1>4 DEF CodeState
<1> QED BY <1>5, <1>6 DEF OneTime!Refuse, StateMap, OwnerMap, PasswordMap

\* A code that lapses is refused, unless it was void already.
LEMMA LapseMaps ==
  ASSUME RInv, NEW q \in Codes, CodeLapses(q)
  PROVE  /\ Printed'
         /\ OneTime!Refuse(q) \/ UNCHANGED <<StateMap, OwnerMap, PasswordMap>>
<1> DEFINE k == [code[q] EXCEPT !.lapsed = TRUE]
<1>1. /\ code \in [Codes -> Code] /\ code[q] \in Code
      /\ code[q].user \in Users /\ code[q].print <= account[code[q].user].password
  BY DEF RInv, TypeOK, CodeLapses, Owned, Printed
<1>2. k.user = code[q].user /\ k.status = "ISSUED" /\ k.lapsed /\ k.print = code[q].print
  BY <1>1 DEF Code, CodeLapses
<1>3. code' = [code EXCEPT ![q] = k] /\ account' = account /\ code[q].status = "ISSUED"
  BY DEF CodeLapses
<1>4. code'[q] = k
  BY <1>1, <1>3
<1> HIDE DEF k
<1>5. /\ Printed' /\ StateMap' = [StateMap EXCEPT ![q] = CodeState(q)']
      /\ UNCHANGED <<OwnerMap, PasswordMap>>
  BY <1>1, <1>2, <1>3, OneCodeMoves
<1>6. CodeState(q) \in {"good", "void"} /\ CodeState(q)' = "void"
  BY <1>2, <1>3, <1>4 DEF CodeState
<1>7. CASE CodeState(q) = "good"
  BY <1>5, <1>6, <1>7 DEF OneTime!Refuse, StateMap, OwnerMap, PasswordMap
<1>8. CASE CodeState(q) = "void"
  BY <1>5, <1>6, <1>8 DEF StateMap
<1> QED BY <1>6, <1>7, <1>8

\* The hour between two requests of a user is not seen by the abstract code.
LEMMA HourMaps ==
  ASSUME RInv, NEW q \in Codes, HourPasses(q)
  PROVE  Printed' /\ UNCHANGED <<StateMap, OwnerMap, PasswordMap>>
<1> DEFINE k == [code[q] EXCEPT !.recent = FALSE]
<1>1. /\ code \in [Codes -> Code] /\ code[q] \in Code
      /\ code[q].status = "ISSUED" =>
           code[q].user \in Users /\ code[q].print <= account[code[q].user].password
      /\ code[q].status \in {"NONE", "PENDING"} => ~code[q].lapsed
  BY DEF RInv, TypeOK, Owned, Printed
<1>2. /\ k.user = code[q].user /\ k.status = code[q].status /\ k.lapsed = code[q].lapsed
      /\ k.print = code[q].print
  BY <1>1 DEF Code
<1>3. code' = [code EXCEPT ![q] = k] /\ account' = account
  BY DEF HourPasses
<1>4. code'[q] = k
  BY <1>1, <1>3
<1> HIDE DEF k
<1>5. /\ Printed' /\ StateMap' = [StateMap EXCEPT ![q] = CodeState(q)']
      /\ UNCHANGED <<OwnerMap, PasswordMap>>
  BY <1>1, <1>2, <1>3, OneCodeMoves
<1>6. CodeState(q)' = CodeState(q)
  BY <1>2, <1>3, <1>4 DEF CodeState
<1> QED BY <1>5, <1>6 DEF StateMap

\* Asking again lets lapsed codes expire, which are void already.
LEMMA RequestMaps ==
  ASSUME RInv, NEW u \in Users, NEW q \in Codes, RequestRecovery(u, q)
  PROVE  /\ Printed'
         /\ OneTime!Ask(q, u) \/ UNCHANGED <<StateMap, OwnerMap, PasswordMap>>
<1> DEFINE mine == {p \in Codes : code[p].user = u}
           lapsed == {p \in mine : code[p].status = "ISSUED" /\ code[p].lapsed}
           expired == [p \in Codes |-> IF p \in lapsed THEN [code[p] EXCEPT !.status = "EXPIRED"]
                                       ELSE code[p]]
           asked == [NoCode EXCEPT !.user = u, !.status = "PENDING", !.recent = TRUE]
<1>0. code \in [Codes -> Code] /\ account' = account /\ code[q] = NoCode
  BY DEF RInv, TypeOK, RequestRecovery
<1>1. code' = expired \/ code' = [expired EXCEPT ![q] = asked]
  BY Zenon DEF RequestRecovery
<1>2. asked.user = u /\ asked.status = "PENDING" /\ asked.lapsed = FALSE
  BY DEF NoCode
<1>3. q \notin lapsed /\ expired[q] = NoCode
  BY <1>0 DEF NoCode
<1>4. \A p \in Codes : expired[p].user = code[p].user
  BY <1>0 DEF Code
<1>5. \A p \in Codes : p \notin lapsed => expired[p] = code[p]
  OBVIOUS
<1>6. \A p \in lapsed : /\ expired[p].status = "EXPIRED"
                        /\ code[p].status = "ISSUED" /\ code[p].lapsed
  BY <1>0 DEF Code
<1> HIDE DEF expired, asked
<1>7. \A p \in Codes : code'[p] = expired[p] \/ (p = q /\ code'[p] = asked)
  <2>1. expired = [p \in Codes |-> expired[p]]
    BY DEF expired
  <2> QED BY <1>1, <2>1
<1>8. Printed'
  <2> SUFFICES ASSUME NEW p \in Codes
               PROVE  /\ code'[p].status \in {"NONE", "PENDING"} => ~code'[p].lapsed
                      /\ code'[p].status = "ISSUED" =>
                           code'[p].print <= account'[code'[p].user].password
    BY DEF Printed
  <2>1. CASE p \in lapsed
    BY <1>2, <1>6, <1>7, <2>1
  <2>2. CASE p \notin lapsed
    BY <1>0, <1>2, <1>5, <1>7, <2>2 DEF RInv, Printed
  <2> QED BY <2>1, <2>2
<1>9. \A p \in Codes \ {q} : CodeState(p)' = CodeState(p)
  <2> SUFFICES ASSUME NEW p \in Codes \ {q} PROVE CodeState(p)' = CodeState(p)
    OBVIOUS
  <2>1. CASE p \in lapsed
    BY <1>6, <1>7, <2>1 DEF CodeState
  <2>2. CASE p \notin lapsed
    BY <1>0, <1>5, <1>7, <2>2 DEF CodeState
  <2> QED BY <2>1, <2>2
<1>10. PasswordMap' = PasswordMap
  BY <1>0 DEF PasswordMap
<1>11. CodeState(q) = "unused"
  BY <1>0 DEF CodeState, NoCode
<1>12. CASE code'[q] = asked
  <2>1. CodeState(q)' = "asked"
    BY <1>2, <1>12 DEF CodeState
  <2>2. StateMap' = [StateMap EXCEPT ![q] = "asked"]
    BY <1>9, <2>1 DEF StateMap
  <2>3. OwnerMap' = [OwnerMap EXCEPT ![q] = u]
    BY <1>2, <1>4, <1>7, <1>12 DEF OwnerMap
  <2> QED BY <1>8, <1>10, <1>11, <2>2, <2>3 DEF OneTime!Ask, StateMap, OwnerMap, PasswordMap
<1>13. CASE code'[q] # asked
  <2>1. code'[q] = code[q]
    BY <1>0, <1>3, <1>7, <1>13
  <2>2. CodeState(q)' = CodeState(q)
    BY <1>0, <2>1 DEF CodeState
  <2>3. StateMap' = StateMap
    BY <1>9, <2>2 DEF StateMap
  <2>4. OwnerMap' = OwnerMap
    BY <1>4, <1>7, <2>1 DEF OwnerMap
  <2> QED BY <1>8, <1>10, <2>3, <2>4
<1> QED BY <1>12, <1>13

\* What becomes of a code that a step leaves alone: it goes on unless it is issued, or if
\* the password it was issued for does; an issued one is void once that is another.
LEMMA CodeGoesOn ==
  ASSUME NEW p \in Codes, code'[p] = code[p],
         \/ code[p].status # "ISSUED"
         \/ account'[code[p].user].password = account[code[p].user].password
  PROVE  CodeState(p)' = CodeState(p)
<1>1. CASE code[p].status # "ISSUED"
  BY <1>1 DEF CodeState
<1>2. CASE account'[code[p].user].password = account[code[p].user].password
  BY <1>2 DEF CodeState
<1> QED BY <1>1, <1>2

LEMMA CodeOutrun ==
  ASSUME NEW p \in Codes, code'[p] = code[p], code[p].status = "ISSUED",
         code[p].print # account'[code[p].user].password
  PROVE  CodeState(p)' = "void"
BY DEF CodeState

LEMMA GoodIsIssued ==
  ASSUME NEW p \in Codes, CodeState(p) = "good"
  PROVE  code[p].status = "ISSUED"
BY DEF CodeState

LEMMA BelowIsNotNext ==
  ASSUME NEW m \in Nat, NEW n \in Nat, m <= n
  PROVE  m # n + 1 /\ m <= n + 1
OBVIOUS

\* The code sets the password and is used; other codes of the account are outrun.
LEMMA UseMaps ==
  ASSUME RInv, NEW q \in Codes, CodeIsValid(q), NEW u \in Users, u = code[q].user,
         account' = [account EXCEPT ![u].password = @ + 1, ![u].failures = 0,
                                    ![u].locked = FALSE],
         code' = [code EXCEPT ![q].status = "COMPLETED", ![q].print = 0]
  PROVE  Printed' /\ OneTime!Use(q)
<1> DEFINE one == [code[q] EXCEPT !.status = "COMPLETED"]
           k == [one EXCEPT !.print = 0]
<1>0. code \in [Codes -> Code] /\ account \in [Users -> Account]
  BY DEF RInv, TypeOK, PolicyTypeOK
<1>1. code' = [code EXCEPT ![q] = k] /\ k.user = u /\ k.status = "COMPLETED"
  BY <1>0 DEF Code
<1>2. code'[q] = k /\ \A p \in Codes \ {q} : code'[p] = code[p]
  BY <1>0, <1>1
<1>3. /\ account'[u].password = account[u].password + 1
      /\ \A v \in Users \ {u} : account'[v].password = account[v].password
  BY <1>0 DEF Account
<1>4. \A v \in Users : account[v].password \in Nat
  BY PasswordIs DEF RInv
<1>5. \A p \in Codes : code[p].status = "ISSUED" =>
        /\ code[p].user \in Users /\ code[p].print \in Nat
        /\ code[p].print <= account[code[p].user].password
  BY CodeRow DEF RInv, Owned, Printed
<1> HIDE DEF k
<1>6. Printed'
  <2> SUFFICES ASSUME NEW p \in Codes \ {q}
               PROVE  /\ code'[p].status \in {"NONE", "PENDING"} => ~code'[p].lapsed
                      /\ code'[p].status = "ISSUED" =>
                           code'[p].print <= account'[code'[p].user].password
    BY <1>1, <1>2 DEF Printed
  <2>1. code'[p] = code[p]
    BY <1>2
  <2>2. code[p].status \in {"NONE", "PENDING"} => ~code[p].lapsed
    BY DEF RInv, Printed
  <2>3. ASSUME code[p].status = "ISSUED" PROVE code[p].print <= account'[code[p].user].password
    <3>1. /\ code[p].user \in Users /\ code[p].print \in Nat
          /\ code[p].print <= account[code[p].user].password
      BY <1>5, <2>3
    <3>2. CASE code[p].user = u
      <4>1. account[u].password \in Nat /\ account'[u].password = account[u].password + 1
        BY <1>3, <1>4
      <4>2. code[p].print <= account[u].password
        BY <3>1, <3>2
      <4>3. code[p].print <= account[u].password + 1
        BY <3>1, <4>1, <4>2, BelowIsNotNext, Zenon
      <4> QED BY <3>2, <4>1, <4>3, Zenon
    <3>3. CASE code[p].user # u
      BY <1>3, <3>1, <3>3
    <3> QED BY <3>2, <3>3
  <2> QED BY <2>1, <2>2, <2>3, Zenon
<1>7. ASSUME NEW p \in Codes \ {q}
      PROVE  CodeState(p)' = IF CodeState(p) = "good" /\ code[p].user = u THEN "void"
                             ELSE CodeState(p)
  <2>0. code'[p] = code[p]
    BY <1>2
  <2>1. CASE code[p].status = "ISSUED" /\ code[p].user = u
    <3>1. code[p].print # account'[code[p].user].password
      <4>1. code[p].print \in Nat /\ code[p].print <= account[u].password
        BY <1>5, <2>1
      <4>2. account[u].password \in Nat /\ account'[u].password = account[u].password + 1
        BY <1>3, <1>4
      <4>3. code[p].print # account[u].password + 1
        BY <4>1, <4>2, BelowIsNotNext, Zenon
      <4> QED BY <2>1, <4>2, <4>3, Zenon
    <3>2. CodeState(p)' = "void"
      BY <2>0, <2>1, <3>1, CodeOutrun, Zenon
    <3>3. CodeState(p) # "good" => CodeState(p) = "void"
      BY <2>1 DEF CodeState
    <3> QED BY <2>1, <3>2, <3>3, Zenon
  <2>2. CASE code[p].status = "ISSUED" /\ code[p].user # u
    <3>1. account'[code[p].user].password = account[code[p].user].password
      <4>1. code[p].user \in Users \ {u}
        BY <1>5, <2>2
      <4> QED BY <1>3, <4>1, Zenon
    <3> QED BY <2>0, <2>2, <3>1, CodeGoesOn, Zenon
  <2>3. CASE code[p].status # "ISSUED"
    <3>1. CodeState(p)' = CodeState(p)
      BY <2>0, <2>3, CodeGoesOn, Zenon
    <3> QED BY <2>3, <3>1, GoodIsIssued, Zenon
  <2> QED BY <2>1, <2>2, <2>3
<1>8. CodeState(q) = "good" /\ CodeState(q)' = "used"
  BY <1>1, <1>2 DEF CodeState, CodeIsValid
<1>9. StateMap' = [[p \in Codes |-> IF StateMap[p] = "good" /\ OwnerMap[p] = u THEN "void"
                                    ELSE StateMap[p]] EXCEPT ![q] = "used"]
  BY <1>7, <1>8 DEF StateMap, OwnerMap
<1>10. PasswordMap' = [PasswordMap EXCEPT ![u] = @ + 1]
  BY <1>3 DEF PasswordMap
<1>11. OwnerMap' = OwnerMap
  BY <1>1, <1>2 DEF OwnerMap
<1>12. OwnerMap[q] = u /\ StateMap[q] = "good"
  BY <1>8 DEF OwnerMap, StateMap
<1> QED BY <1>6, <1>9, <1>10, <1>11, <1>12
        DEF OneTime!Use, OneTime!Outrun, StateMap, OwnerMap, PasswordMap

\* A redemption sets the password with a code that is good in the same step, or does
\* nothing: the second look, under the lock, is what makes it so.
LEMMA RedemptionMaps ==
  ASSUME RInv, NEW c \in Clients, CompleteRecovery(c)
  PROVE  /\ Printed'
         /\ \/ \E q \in Codes : OneTime!Use(q)
            \/ UNCHANGED <<StateMap, OwnerMap, PasswordMap>>
<1>1. PICK q \in Codes : q = client[c].code
  BY ClientForms DEF RInv, CompleteRecovery
<1>2. CASE ~CodeIsValid(q)
  <2>1. account' = account /\ code' = code
    BY <1>1, <1>2 DEF CompleteRecovery
  <2> QED BY <2>1, NothingHappens
<1>3. CASE CodeIsValid(q)
  <2>1. PICK u \in Users : u = code[q].user
    BY <1>3 DEF CodeIsValid, RInv, Owned
  <2>2. /\ account' = [account EXCEPT ![u].password = @ + 1, ![u].failures = 0,
                                      ![u].locked = FALSE]
        /\ code' = [code EXCEPT ![q].status = "COMPLETED", ![q].print = 0]
    BY <1>1, <1>3, <2>1, ZenonT(30) DEF CompleteRecovery
  <2> QED BY <1>3, <2>1, <2>2, UseMaps, Zenon
<1> QED BY <1>2, <1>3


\* Every step of Accounts is a step of OneTimeCode or leaves its variables alone.
LEMMA StepMaps ==
  ASSUME RInv, [Next]_vars
  PROVE  /\ Printed'
         /\ OneTime!Next \/ UNCHANGED <<StateMap, OwnerMap, PasswordMap>>
<1> DEFINE Goal == /\ Printed'
                   /\ OneTime!Next \/ UNCHANGED <<StateMap, OwnerMap, PasswordMap>>
<1>0. account \in [Users -> Account] /\ TypeOK
  BY DEF RInv, TypeOK, PolicyTypeOK
<1>1. ASSUME code' = code, \A u \in Users : account'[u].password = account[u].password PROVE Goal
  BY <1>1, NothingHappens
<1>2. ASSUME account' = account, code' = code PROVE Goal
  BY <1>1, <1>2
<1>3. ASSUME NEW v \in Users, code' = code,
             account'[v].password = account[v].password + 1,
             \A u \in Users \ {v} : account'[u].password = account[u].password
      PROVE  Goal
  <2>1. Printed' /\ OneTime!Change(v)
    BY <1>3, PasswordChanges
  <2> QED BY <2>1 DEF OneTime!Next
<1>4. ASSUME NEW q \in Codes, Printed',
             OneTime!Issue(q) \/ OneTime!Refuse(q) \/ OneTime!Use(q)
      PROVE  Goal
  BY <1>4 DEF OneTime!Next
<1>5. ASSUME NEW q \in Codes, NEW u \in Users, Printed', OneTime!Ask(q, u) PROVE Goal
  BY <1>5 DEF OneTime!Next
<1>6. ASSUME Printed', UNCHANGED <<StateMap, OwnerMap, PasswordMap>> PROVE Goal
  BY <1>6
<1> HIDE DEF Goal
<1>7. ASSUME NEW c \in Clients, SigningIn(c) PROVE Goal
  <2>1. ASSUME LoginFails(c) PROVE Goal
    <3>1. \A u \in Users : account'[u].password = account[u].password
      BY <1>0, <2>1 DEF LoginFails, Account
    <3> QED BY <1>1, <2>1, <3>1 DEF LoginFails
  <2>2. ASSUME LoginClears(c) PROVE Goal
    <3>1. \A u \in Users : account'[u].password = account[u].password
      BY <1>0, <2>2 DEF LoginClears, Account
    <3> QED BY <1>1, <2>2, <3>1 DEF LoginClears
  <2> QED BY <1>2, <1>7, <2>1, <2>2 DEF SigningIn, Login, LoginOpens, LoginAnswers
<1>8. ASSUME NEW c \in Clients, OwnAccount(c) PROVE Goal
  <2>1. ASSUME ChangePassword(c) PROVE Goal
    <3>1. PICK v \in Users : v = client[c].user
      BY <1>0, <2>1, ClientForms DEF ChangePassword
    <3>2. /\ account'[v].password = account[v].password + 1
          /\ \A u \in Users \ {v} : account'[u].password = account[u].password
      BY <1>0, <2>1, <3>1 DEF ChangePassword, Account
    <3> QED BY <1>3, <2>1, <3>2 DEF ChangePassword
  <2> QED BY <1>2, <1>8, <2>1 DEF OwnAccount, Guard, Answer, Logout, VerifyPassword
<1>9. ASSUME NEW c \in Clients, AccountAdministration(c) PROVE Goal
  <2> SUFFICES ASSUME NEW v \in Users,
          \/ \E rs \in RoleChoices : CreateUser(c, v, rs)
          \/ \E rs \in RoleChoices : SetUserRoles(c, v, rs)
          \/ ResetPassword(c, v)
          \/ \E active \in BOOLEAN : SetUserActive(c, v, active)
          \/ \E change \in UserChanges : ChangeUser(c, v, change)
          \/ \E al, de \in GrantChoices : UpdateUserPermissions(c, v, al, de)
        PROVE Goal
    BY <1>9, Zenon DEF AccountAdministration
  <2>1. ASSUME NEW rs \in RoleChoices, CreateUser(c, v, rs) PROVE Goal
    <3>1. /\ account'[v].password = account[v].password + 1
          /\ \A u \in Users \ {v} : account'[u].password = account[u].password
      BY <1>0, <2>1 DEF CreateUser, Account
    <3> QED BY <1>3, <2>1, <3>1 DEF CreateUser
  <2>2. ASSUME ResetPassword(c, v) PROVE Goal
    <3>1. /\ account'[v].password = account[v].password + 1
          /\ \A u \in Users \ {v} : account'[u].password = account[u].password
      BY <1>0, <2>2 DEF ResetPassword, Account
    <3> QED BY <1>3, <2>2, <3>1 DEF ResetPassword
  <2>3. ASSUME NEW active \in BOOLEAN, SetUserActive(c, v, active) PROVE Goal
    <3>1. \A u \in Users : account'[u].password = account[u].password
      BY <1>0, <2>3 DEF SetUserActive, Account
    <3> QED BY <1>1, <2>3, <3>1 DEF SetUserActive
  <2>4. ASSUME NEW change \in UserChanges, ChangeUser(c, v, change) PROVE Goal
    <3>1. \A u \in Users : account'[u].password = account[u].password
      BY <1>0, <2>4 DEF ChangeUser, Account
    <3> QED BY <1>1, <2>4, <3>1 DEF ChangeUser
  <2> QED BY <1>2, <2>1, <2>2, <2>3, <2>4 DEF SetUserRoles, UpdateUserPermissions
<1>10. ASSUME NEW c \in Clients, RoleAdministration(c) PROVE Goal
  BY <1>2, <1>10
     DEF RoleAdministration, CreateRole, UpdateRole, UpdateRolePermissions, DeleteRole
<1>11. ASSUME NEW c \in Clients, Recovering(c) PROVE Goal
  <2>1. ASSUME NEW q \in Codes, IssueRecovery(c, q) PROVE Goal
    BY <1>4, <2>1, IssueMaps
  <2>2. ASSUME NEW q \in Codes, RejectRecovery(c, q) PROVE Goal
    BY <1>4, <2>2, RejectMaps
  <2> QED BY <1>2, <1>11, <2>1, <2>2 DEF Recovering, Redeem
<1>12. ASSUME NEW c \in Clients, NEW s \in Sessions, RevokeSession(c, s) PROVE Goal
  BY <1>2, <1>12 DEF RevokeSession
<1>13. ASSUME NEW c \in Clients, CompleteRecovery(c) PROVE Goal
  BY <1>4, <1>6, <1>13, RedemptionMaps
<1>14. ASSUME NEW u \in Users, NEW q \in Codes, RequestRecovery(u, q) PROVE Goal
  BY <1>5, <1>6, <1>14, RequestMaps
<1>15. ASSUME Time PROVE Goal
  <2>1. ASSUME NEW v \in Users, LockLapses(v) PROVE Goal
    <3>1. \A u \in Users : account'[u].password = account[u].password
      BY <1>0, <2>1 DEF LockLapses, Account
    <3> QED BY <1>1, <2>1, <3>1 DEF LockLapses
  <2>2. ASSUME NEW q \in Codes, CodeLapses(q) PROVE Goal
    BY <1>4, <1>6, <2>2, LapseMaps
  <2>3. ASSUME NEW q \in Codes, HourPasses(q) PROVE Goal
    BY <1>6, <2>3, HourMaps
  <2> QED BY <1>2, <1>15, <2>1, <2>2, <2>3 DEF Time, SessionExpires
<1>16. ASSUME UNCHANGED vars PROVE Goal
  BY <1>2, <1>16 DEF vars
<1>17. Goal
  BY <1>7, <1>8, <1>9, <1>10, <1>11, <1>12, <1>13, <1>14, <1>15, <1>16, Zenon DEF Next
<1> QED BY <1>17 DEF Goal

\* Recovery implements OneTimeCode: one redemption of a code sets the password, and none
\* after the password was changed otherwise (password-recovery.service.ts:149-187).
THEOREM RecoveryImplementsOneTimeCode == Spec => RecoveryKeepsItsPromise
<1>1. Init => OneTime!Init /\ Printed
  <2> SUFFICES ASSUME Init PROVE OneTime!Init /\ Printed
    OBVIOUS
  <2>1. \A q \in Codes : code[q] = NoCode
    BY DEF Init
  <2>2. \A q \in Codes : CodeState(q) = "unused"
    BY <2>1 DEF CodeState, NoCode
  <2>3. PolicyTypeOK
    BY InitHolds, AccountsAssumption, InitAssumption DEF AInv, TypeOK
  <2>4. \A u \in Users : account[u].password \in Nat
    BY <2>3 DEF PolicyTypeOK, Account
  <2> QED BY <2>1, <2>2, <2>4 DEF OneTime!Init, Printed, NoCode
<1>2. AInv /\ Printed /\ [Next]_vars => Printed' /\ [OneTime!Next]_(OneTime!codeVars)
  <2> SUFFICES ASSUME AInv, Printed, [Next]_vars
               PROVE  Printed' /\ [OneTime!Next]_(OneTime!codeVars)
    OBVIOUS
  <2>1. RInv
    BY DEF AInv, RInv
  <2>2. Printed' /\ (OneTime!Next \/ UNCHANGED <<StateMap, OwnerMap, PasswordMap>>)
    BY <2>1, StepMaps
  <2> QED BY <2>2 DEF OneTime!codeVars, StateMap, OwnerMap, PasswordMap
<1> QED BY <1>1, <1>2, Invariant, PTL DEF Spec, RecoveryKeepsItsPromise, OneTime!Spec
=============================================================================
