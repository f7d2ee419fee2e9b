----------------------------- MODULE OneTimeCode -----------------------------
(***************************************************************************)
(* What the recovery of passwords promises: a code is asked for, issued    *)
(* once and good for one new password, unless the password changes         *)
(* otherwise first.  A code that was used, refused or outrun never becomes *)
(* good again.                                                             *)
(***************************************************************************)
EXTENDS Naturals

CONSTANTS Users, Codes, NoUser

VARIABLES
  state,      \* where each code is in its life
  owner,      \* whose it is, once asked for
  password    \* how often each user's password was set

codeVars == <<state, owner, password>>

\* The good codes of a user are outrun by any new password.
Outrun(u) ==
  [q \in Codes |-> IF state[q] = "good" /\ owner[q] = u THEN "void" ELSE state[q]]

Init ==
  /\ state = [q \in Codes |-> "unused"]
  /\ owner = [q \in Codes |-> NoUser]
  /\ password \in [Users -> Nat]

Ask(q, u) ==
  /\ state[q] = "unused"
  /\ state' = [state EXCEPT ![q] = "asked"]
  /\ owner' = [owner EXCEPT ![q] = u]
  /\ password' = password

Issue(q) ==
  /\ state[q] = "asked"
  /\ state' = [state EXCEPT ![q] = "good"]
  /\ UNCHANGED <<owner, password>>

Refuse(q) ==
  /\ state[q] \in {"asked", "good"}
  /\ state' = [state EXCEPT ![q] = "void"]
  /\ UNCHANGED <<owner, password>>

\* The code sets the password; other codes of the user are outrun.
Use(q) ==
  /\ state[q] = "good"
  /\ state' = [Outrun(owner[q]) EXCEPT ![q] = "used"]
  /\ password' = [password EXCEPT ![owner[q]] = @ + 1]
  /\ owner' = owner

\* The password is set in any other way.
Change(u) ==
  /\ password' = [password EXCEPT ![u] = @ + 1]
  /\ state' = Outrun(u)
  /\ owner' = owner

Next ==
  \/ \E q \in Codes, u \in Users : Ask(q, u)
  \/ \E q \in Codes : Issue(q) \/ Refuse(q) \/ Use(q)
  \/ \E u \in Users : Change(u)

Spec == Init /\ [][Next]_codeVars
=============================================================================
