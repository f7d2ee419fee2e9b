----------------------------- MODULE AccessPolicy -----------------------------
(***************************************************************************)
(* Roles, grants and authority: who holds which permission, and what an    *)
(* administrator may do to another account or to a role.                   *)
(*                                                                         *)
(* The checks are state predicates over the rows they read.  What the      *)
(* administration screens announce is computed by other queries of the     *)
(* code; it is defined here next to the checks it has to agree with.       *)
(* Legacy permission codes are left out: migration 12 moved every role to  *)
(* the second permission model, in which their grants have no effect.      *)
(***************************************************************************)
EXTENDS Naturals, FiniteSets

CONSTANTS
  Users, Roles,
  Super,         \* the protected role SUPER
  SystemRoles,   \* roles with is_system
  Perms          \* permission_definitions: active, not legacy, scope ALL

ASSUME PolicyAssumption == Super \in SystemRoles /\ SystemRoles \subseteq Roles

VARIABLES
  account,    \* users: state, password, failed logins and lock
  assigned,   \* user_roles
  allow,      \* user_permission_overrides with effect ALLOW
  deny,       \* user_permission_overrides with effect DENY
  role        \* roles and role_permissions

policyVars == <<account, assigned, allow, deny, role>>

\* users.password_hash is salted, so every setting is a value never seen before:
\* a password is the number of times it was set.
Account ==
  [status : {"absent", "active", "disabled", "deleted"},
   password : Nat, failures : Nat, locked : BOOLEAN]

Role == [exists : BOOLEAN, active : BOOLEAN, level : Nat, grants : SUBSET Perms]

PolicyTypeOK ==
  /\ account \in [Users -> Account]
  /\ assigned \in [Users -> SUBSET Roles]
  /\ allow \in [Users -> SUBSET Perms]
  /\ deny \in [Users -> SUBSET Perms]
  /\ role \in [Roles -> Role]

-----------------------------------------------------------------------------
\* What a user holds

Maximum(levels) == IF levels = {} THEN 0 ELSE CHOOSE l \in levels : \A k \in levels : k <= l

ActiveRoles(u) == {r \in assigned[u] : role[r].exists /\ role[r].active}

\* actorAuthority, userAuthority
Authority(u) == Maximum({role[r].level : r \in ActiveRoles(u)})

\* EFFECTIVE_ROLE_GRANTS_SQL: SUPER inherits the whole active catalogue.
RoleGrants(r) == IF r = Super THEN Perms ELSE role[r].grants

\* Mutant: grants of roles that are switched off count too.
EffectiveOfAnyRole(u) ==
  ((UNION {RoleGrants(r) : r \in {x \in assigned[u] : role[x].exists}}) \cup allow[u]) \ deny[u]

\* userById: grants of the active roles and direct allowances, less what is denied.
Effective(u) == ((UNION {RoleGrants(r) : r \in ActiveRoles(u)}) \cup allow[u]) \ deny[u]

Exists(u) == account[u].status \in {"active", "disabled"}

-----------------------------------------------------------------------------
\* What an administrator may do

\* Mutant: the levels are not compared.
CanManageWhoever(actor, u) == actor # u /\ Exists(u)

\* assertCanManageUser
CanManageUser(actor, u) ==
  actor # u /\ Exists(u) /\ Authority(actor) > Authority(u)

Protected(u) == Super \in assigned[u]

\* assertProtectedAdministratorRemains: the last active SUPER stays one.
AdministratorRemains(u) ==
  Protected(u) => Cardinality({v \in Users : account[v].status = "active" /\ Protected(v)}) > 1

\* assertCanManageRole
CanManageRole(actor, r) ==
  role[r].exists /\ r # Super /\ Authority(actor) > role[r].level

\* Mutant: a role at the administrator's own level may be handed out.
CanAssignUpToOwnLevel(actor, rs) ==
  \A r \in rs : role[r].exists /\ role[r].active /\ r # Super
                /\ role[r].level <= Authority(actor)

\* assertRequestedRolesAssignable
CanAssign(actor, rs) ==
  \A r \in rs : role[r].exists /\ role[r].active /\ r # Super
                /\ role[r].level < Authority(actor)

\* assertGrantablePermissions, against the permissions the request carries
Grantable(carried, codes) == codes \subseteq carried

\* customRoleAuthority
CustomLevel(actor) ==
  LET below == IF Authority(actor) = 0 THEN 0 ELSE Authority(actor) - 1
      capped == IF below > 100 THEN 100 ELSE below
  IN  IF capped < 10 THEN 10 ELSE capped

-----------------------------------------------------------------------------
\* What the screens announce

\* users(): of all the roles of the account, one that is switched off counting as 0
ShownLevel(u) ==
  Maximum({IF role[r].active THEN role[r].level ELSE 0 :
             r \in {x \in assigned[u] : role[x].exists}})

\* canManage of users()
ShownManageable(actor, u) == actor # u /\ Authority(actor) > ShownLevel(u)

\* userPermissions: the override of a code, if any, replaces what roles grant.
ShownEffective(u) ==
  {p \in Perms :
     IF p \in allow[u] \cup deny[u] THEN p \in allow[u]
     ELSE \E r \in ActiveRoles(u) : p \in RoleGrants(r)}
=============================================================================
