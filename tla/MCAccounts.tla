----------------------------- MODULE MCAccounts -----------------------------
(***************************************************************************)
(* A SUPER and a system administrator, the latter signed in, and a clerk   *)
(* whose account is still to be created.                                   *)
(***************************************************************************)
EXTENDS Accounts, TLC

CONSTANTS root, admin, clerk, custom, sysadmin, s1, s2, c1, c2

MCRoles == {Super, sysadmin, custom}
MCSystemRoles == {Super, sysadmin}
MCUsers == {root, admin, clerk}
MCSessions == {s1, s2}
MCClients == {c1, c2}
MCSymmetry == Permutations(MCClients)

AdminCodes ==
  {"user.create", "user.roles.manage", "user.reset_password", "user.enable", "user.disable",
   "user.delete", "user.permissions.manage", "user.sessions.revoke", "role.create",
   "role.update", "role.permissions.manage", "role.delete"}
MCPerms == AdminCodes \cup {"legislation.view"}

Person(status) ==
  [status |-> status, password |-> IF status = "absent" THEN 0 ELSE 1,
   failures |-> 0, locked |-> FALSE]
MCInitAccount == [u \in MCUsers |-> Person(IF u = clerk THEN "absent" ELSE "active")]
MCInitAssigned ==
  [u \in MCUsers |-> IF u = root THEN {Super} ELSE IF u = admin THEN {sysadmin} ELSE {}]
MCInitRole ==
  [r \in MCRoles |->
     [exists |-> TRUE, active |-> TRUE,
      level |-> IF r = Super THEN 1000 ELSE IF r = sysadmin THEN 800 ELSE 100,
      grants |-> IF r = sysadmin THEN AdminCodes ELSE {"legislation.view"}]]
MCInitSession == [s \in MCSessions |-> IF s = s1 THEN admin ELSE NoUser]

MCRoleChoices == {{}, {custom}, {sysadmin}}
MCGrantChoices == {{}, {"legislation.view"}}
=============================================================================
