SPECIFICATION Spec
CONSTANTS
  root = root
  admin = admin
  clerk = clerk
  custom = custom
  sysadmin = sysadmin
  s1 = s1
  s2 = s2
  Super = super
  Users <- MCUsers
  Roles <- MCRoles
  SystemRoles <- MCSystemRoles
  Perms <- MCPerms
  c1 = c1
  c2 = c2
  Clients <- MCClients
  Sessions <- MCSessions
  Codes = {q1}
  RoleChoices <- MCRoleChoices
  GrantChoices <- MCGrantChoices
  LockAfter = 3
  MaxStarts = 4
  InitAccount <- MCInitAccount
  InitAssigned <- MCInitAssigned
  InitRole <- MCInitRole
  InitSession <- MCInitSession
  NoUser = nobody
INVARIANTS
  TypeOK
  SessionsKeepTheirGround
  GuessesAreBounded
  ScreensAgreeWithPolicy
PROPERTIES
  RecoveryKeepsItsPromise
  SuperOutOfReach
  AuthorityIsGivenFromAbove
CHECK_DEADLOCK FALSE
SYMMETRY MCSymmetry
