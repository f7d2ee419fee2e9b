---------------------------- MODULE MigrationProofs ----------------------------
(***************************************************************************)
(* Proofs about Migrations for every use of the newer columns and tables,  *)
(* every set of old grants, and any number of migrations run, broken off   *)
(* and reverted.  The lemmas about the scripts come first: whose column a  *)
(* statement adds or drops, what it asks before, which codes it writes.    *)
(* Then the invariants: MigrationInv of rows and runner, SchemaStands of   *)
(* the columns that a recorded migration has left, AccessStands of the     *)
(* grants that migration 12 has converted.                                 *)
(***************************************************************************)
EXTENDS Migrations, WellFoundedInduction, TLAPS

\* Of some natural numbers one is the least.
LEMMA LeastIs ==
  ASSUME NEW S, S \subseteq Nat, S # {}
  PROVE  \E m \in S : \A k \in S : m <= k
<1>1. PICK m \in S : \A n \in S : ~(<<n, m>> \in OpToRel(<, Nat))
  <2> DEFINE less == OpToRel(<, Nat)
  <2>1. IsWellFoundedOn(less, Nat)
    BY NatLessThanWellFounded
  <2> HIDE DEF less
  <2>2. \E m \in S : \A n \in S : ~(<<n, m>> \in less)
    BY <2>1, WFMin
  <2> QED BY <2>2 DEF less
<1>2. \A n \in S : m <= n
  <2>1. SUFFICES ASSUME NEW n \in S, n < m PROVE FALSE
    OBVIOUS
  <2>2. OpToRel(<, Nat) = {ss \in Nat \X Nat : ss[1] < ss[2]}
    BY Zenon DEF OpToRel
  <2>3. <<n, m>> \in {ss \in Nat \X Nat : ss[1] < ss[2]}
    BY <2>1
  <2> QED BY <2>2, <2>3, <1>1, Zenon
<1> QED BY <1>2

-----------------------------------------------------------------------------
\* A migration is a list of statements.
List(s) == \E n \in Nat : DOMAIN s = 1..n /\ s = [i \in 1..n |-> s[i]] /\ Len(s) = n

\* Every statement of a migration that writes rows writes codes that are defined, and
\* those it grants are defined before.
WritesForward(s) ==
  \A i \in DOMAIN s : s[i].kind = "dml" =>
    \/ s[i].rows \in {"define", "upsert"} /\ s[i].arg \subseteq Codes
    \/ s[i].rows = "mark" /\ s[i].arg = LegacyOnly
    \/ s[i].rows = "grant" /\ s[i].arg = OldRoleMap
         /\ \E j \in 1..(i - 1) : s[j] = Write("define", OldCodes)
    \/ s[i].rows \in {"save", "direct"}
    \/ s[i].rows = "convert" /\ s[i].arg \in Roles
         /\ \E j \in 1..(i - 1) : s[j] = Write("upsert", Canonical)

\* A revert takes codes away or restores the rows that were saved.
WritesBackward(s) ==
  \A i \in DOMAIN s : s[i].kind = "dml" => s[i].rows \in {"undefine", "empty", "restore"}

\* The migration that makes a column, a table or an index: 9 for what was there before,
\* 0 for a row that is deleted.
Owner(table, what) ==
  IF what = "deleted" THEN 0
  ELSE IF <<table, what>> \in {<<"articles", "uq_article_label">>, <<"source_documents", "sha256">>}
       THEN 9
  ELSE IF \/ what \in {"edit_revision", "revision trigger"}
          \/ table = "password_recovery_requests" THEN 17
  ELSE IF \/ table \in {"permission_definitions_backup", "role_permissions_backup", "roles_backup"}
          \/ what \in {"authority_level", "permission_model_version", "is_legacy"}
          \/ <<table, what>> = <<"permission_definitions", "is_system">> THEN 12
  ELSE IF table \in {"user_roles", "roles", "permission_definitions", "role_permissions",
                     "user_permission_overrides"} THEN 10
  ELSE IF table = "articles" THEN 13
  ELSE IF table \in {"source_import_attachments", "legislation_source_documents"} THEN 14
  ELSE IF table \in {"gazette_issues", "search_synonym_sets"} THEN 16
  ELSE IF table = "source_documents" THEN 18
  ELSE 15
Own(u) == Owner(u[1], u[2])
Lost(number) == {u \in Before10 : number = (IF u = OldHash THEN 18 ELSE 13)}

\* A migration adds what is its own and drops only a key of before; a revert drops what
\* the migration added and restores that key.
Adds(s, number) ==
  \A i \in DOMAIN s : s[i].kind = "ddl" =>
    (\A u \in s[i].add : Own(u) = number) /\ s[i].drop \subseteq Lost(number)
TakesBack(s, number) ==
  \A i \in DOMAIN s : s[i].kind = "ddl" =>
    (\A u \in s[i].drop : Own(u) = number) /\ s[i].add \subseteq Lost(number)

\* After migration 12 codes are only defined, and a revert only takes back such codes;
\* the revert of migration 10 writes nothing.
Defines(s, number) ==
  number \notin {10, 12} => \A i \in DOMAIN s : s[i].kind = "dml" => s[i].rows = "define"
Undefines(s, number) ==
  number # 12 => \A i \in DOMAIN s : s[i].kind = "dml" =>
    number # 10 /\ s[i].rows = "undefine" /\ s[i].arg \cap Grantable = {}

\* What a revert drops it has asked about.
AsksFirst(s) ==
  \A i \in DOMAIN s : s[i].kind = "ddl" =>
    \A u \in s[i].drop \cap AdministrativeState : \E j \in 1..(i - 1) : u \in s[j].refusedBy

\* A statement that may refuse comes before every other that commits.
RefusesEarly(s) ==
  \A i \in DOMAIN s : s[i].refusedBy # {} =>
    /\ \A j \in 1..(i - 1) : s[j].kind # "ddl"
    /\ s[i].kind = "ddl" => \A j \in 1..(i - 1) : s[j].kind # "dml"

TurnsBack(s, number) ==
  List(s) /\ WritesBackward(s) /\ TakesBack(s, number) /\ Undefines(s, number)
Reverts(s, number) == TurnsBack(s, number) /\ AsksFirst(s) /\ RefusesEarly(s)

Proceeds(s, number) == List(s) /\ WritesForward(s) /\ Adds(s, number) /\ Defines(s, number)

\* Codes that are defined since migration 12 are new.
LEMMA NewCodes == (LifecycleCodes \cup SetCodes) \cap Grantable = {}
BY DEF LifecycleCodes, ContentCodes, SourceCodes, ScreenCodes, EditCodes, SetCodes, Grantable,
       OldCodes, Canonical

LEMMA LostIs ==
  /\ Lost(13) = {<<"articles", "uq_article_label">>} /\ Lost(18) = {OldHash}
  /\ \A n : Lost(n) \subseteq Before10 /\ (n \notin {13, 18} => Lost(n) = {})
  /\ \A u \in Before10 : Own(u) = 9
<1>1. OldHash # <<"articles", "uq_article_label">>
  BY DEF OldHash
<1>2. Own(OldHash) = 9 /\ Own(<<"articles", "uq_article_label">>) = 9
  BY DEF Own, Owner, OldHash
<1>3. Lost(13) = {<<"articles", "uq_article_label">>} /\ Lost(18) = {OldHash}
  BY <1>1 DEF Lost, Before10
<1>4. \A n : Lost(n) \subseteq Before10 /\ (n \notin {13, 18} => Lost(n) = {})
  BY DEF Lost
<1> QED BY <1>2, <1>3, <1>4 DEF Before10

LEMMA Joined ==
  ASSUME NEW m \in Nat, NEW n \in Nat, NEW s, NEW t,
         s = [i \in 1..m |-> s[i]], t = [i \in 1..n |-> t[i]]
  PROVE  /\ Len(s) = m /\ Len(t) = n
         /\ DOMAIN (s \o t) = 1..(m + n) /\ Len(s \o t) = m + n
         /\ s \o t = [i \in 1..(m + n) |-> (s \o t)[i]]
         /\ \A i \in 1..m : (s \o t)[i] = s[i]
         /\ \A i \in (m + 1)..(m + n) : (s \o t)[i] = t[i - m]
<1> DEFINE S == {s[i] : i \in 1..m} \cup {t[i] : i \in 1..n}
<1>1. s \in Seq(S) /\ Len(s) = m
  BY Z3
<1>2. t \in Seq(S) /\ Len(t) = n
  OBVIOUS
<1> HIDE DEF S
<1>3. s \o t \in Seq(S)
  BY <1>1, <1>2
<1> QED BY <1>1, <1>2, <1>3

LEMMA LifecycleTablesAre ==
  /\ Range(LifecycleTables) =
       {"legislations", "amendment_operations", "legislation_types", "users", "favorites"}
  /\ Range(Tables16) = {"gazette_issues", "search_synonym_sets"}
  /\ Len(LifecycleTables) = 5 /\ \A i \in 1..5 : LifecycleTables[i] \in Range(LifecycleTables)
  /\ \A t : State(t) \subseteq {"is_active", "deleted_at"}
<1>1. DOMAIN LifecycleTables = 1..5 /\ DOMAIN Tables16 = 1..2
  BY DEF LifecycleTables, Tables16
<1>2. Range(LifecycleTables) = {LifecycleTables[i] : i \in 1..5}
  BY <1>1 DEF Range
<1>3. Range(Tables16) = {Tables16[i] : i \in 1..2}
  BY <1>1 DEF Range
<1>4. Range(LifecycleTables) =
       {"legislations", "amendment_operations", "legislation_types", "users", "favorites"}
  BY <1>2 DEF LifecycleTables
<1>5. Range(Tables16) = {"gazette_issues", "search_synonym_sets"}
  BY <1>3 DEF Tables16
<1>6. Len(LifecycleTables) = 5
  BY DEF LifecycleTables
<1>7. \A t : State(t) \subseteq {"is_active", "deleted_at"}
  BY DEF State
<1> QED BY <1>2, <1>4, <1>5, <1>6, <1>7

\* What administrators leave is in the tables of migrations 14 to 17, in those of roles
\* and grants, or in the way of a key or a row that a revert would restore.
LEMMA StateIs ==
  ASSUME NEW u \in AdministrativeState
  PROVE  /\ u = <<u[1], u[2]>>
         /\ \/ u[1] \in {"legislations", "amendment_operations", "legislation_types", "users",
                         "favorites"}
                 /\ u[2] \in {"is_active", "deleted_at"} /\ u[2] \in State(u[1])
            \/ u[1] = "amendment_operations" /\ u[2] \in {"replacement_from", "proposed_sort_key"}
            \/ u[1] \in {"gazette_issues", "search_synonym_sets"}
                 /\ u[2] \in {"is_active", "deleted_at"}
            \/ u[1] = "password_recovery_requests" /\ u[2] = "table"
            \/ u[1] = "roles" /\ u[2] \in {"deleted", "is_active", "authority_level"}
            \/ u[1] = "user_roles" /\ u[2] = "assigned_by"
            \/ u[1] \in {"role_permissions", "user_permission_overrides"} /\ u[2] = "table"
            \/ u[1] = "articles" /\ u[2] = "repeated label"
            \/ u[1] = "source_documents" /\ u[2] = "second copy"
            \/ u[1] \in {"source_import_attachments", "legislation_source_documents"}
                 /\ u[2] = "table"
<1>1. ASSUME NEW c \in {"is_active", "deleted_at"}, u \in Withdrawn(c)
      PROVE  /\ u = <<u[1], u[2]>> /\ u[2] = c /\ u[2] \in State(u[1])
             /\ u[1] \in {"legislations", "amendment_operations", "legislation_types", "users",
                          "favorites"}
  <2>1. u \in Range(LifecycleTables) \X {c} /\ c \in State(u[1])
    BY <1>1 DEF Withdrawn
  <2> QED BY <2>1, LifecycleTablesAre
<1>2. CASE u \in Withdrawn("deleted_at") \/ u \in Withdrawn("is_active")
  BY <1>1, <1>2
<1>3. CASE u \in {"amendment_operations"} \X Pieces
  <2>1. u = <<u[1], u[2]>> /\ u[1] = "amendment_operations" /\ u[2] \in Pieces
    BY <1>3
  <2> QED BY <2>1 DEF Pieces
<1>4. CASE u \in Range(Tables16) \X {"is_active", "deleted_at"}
  <2>1. u = <<u[1], u[2]>> /\ u[1] \in Range(Tables16) /\ u[2] \in {"is_active", "deleted_at"}
    BY <1>4
  <2> QED BY <2>1, LifecycleTablesAre
<1>5. CASE u \in {<<"password_recovery_requests", "table">>, <<"roles", "deleted">>,
          <<"articles", "repeated label">>, <<"source_documents", "second copy">>,
          <<"source_import_attachments", "table">>, <<"legislation_source_documents", "table">>}
  <2>1. CASE u = <<"password_recovery_requests", "table">>
    BY <2>1
  <2>2. CASE u = <<"roles", "deleted">>
    BY <2>2
  <2>3. CASE u = <<"articles", "repeated label">>
    BY <2>3
  <2>4. CASE u = <<"source_documents", "second copy">>
    BY <2>4
  <2>5. CASE u = <<"source_import_attachments", "table">>
    BY <2>5
  <2>6. CASE u = <<"legislation_source_documents", "table">>
    BY <2>6
  <2> QED BY <2>1, <2>2, <2>3, <2>4, <2>5, <2>6, <1>5
<1>6. CASE u \in RoleState
  <2>1. CASE u = <<"roles", "is_active">>
    BY <2>1
  <2>2. CASE u = <<"roles", "authority_level">>
    BY <2>2
  <2>3. CASE u = <<"user_roles", "assigned_by">>
    BY <2>3
  <2>4. CASE u = <<"role_permissions", "table">>
    BY <2>4
  <2>5. CASE u = <<"user_permission_overrides", "table">>
    BY <2>5
  <2> QED BY <2>1, <2>2, <2>3, <2>4, <2>5, <1>6 DEF RoleState, GrantsMade
<1> QED BY <1>2, <1>3, <1>4, <1>5, <1>6 DEF AdministrativeState

LEMMA NoState ==
  \A u \in AdministrativeState :
    u[2] \in {"is_active", "deleted_at", "replacement_from", "proposed_sort_key", "table",
              "deleted", "repeated label", "second copy", "authority_level", "assigned_by"}
BY StateIs

LEMMA LifecycleOwners ==
  /\ \A t \in Range(LifecycleTables) : \A c \in State(t) : Owner(t, c) = 15
  /\ \A t \in Range(Tables16) : \A c \in State(t) : Owner(t, c) = 16
  /\ \A c \in Pieces : Owner("amendment_operations", c) = 15
  /\ Owner("amendments", "revision") = 15
<1>1. \A t \in {"legislations", "amendment_operations", "legislation_types", "users", "favorites"},
         c \in {"is_active", "deleted_at"} : Owner(t, c) = 15
  BY DEF Owner
<1>2. \A t \in {"gazette_issues", "search_synonym_sets"}, c \in {"is_active", "deleted_at"} :
        Owner(t, c) = 16
  BY DEF Owner
<1>3. \A c \in Pieces : Owner("amendment_operations", c) = 15
  BY DEF Pieces, Owner
<1>4. Owner("amendments", "revision") = 15
  BY DEF Owner
<1> QED BY <1>1, <1>2, <1>3, <1>4, LifecycleTablesAre

LEMMA RevisedOwner ==
  ASSUME NEW t, NEW i
  PROVE  Own(Revised(t, i)) = 17
<1>1. Revised(t, i) = <<t, "edit_revision">> \/ Revised(t, i) = <<t, "revision trigger">>
  BY DEF Revised
<1>2. Owner(t, "edit_revision") = 17 /\ Owner(t, "revision trigger") = 17
  BY DEF Owner
<1>3. Own(<<t, "edit_revision">>) = 17 /\ Own(<<t, "revision trigger">>) = 17
  BY <1>2 DEF Own
<1> QED BY <1>1, <1>3

\* Migration 10 drops what administrators have set of roles and grants, and asks nothing.
LEMMA Reverts10 == TurnsBack(Down10, 10) /\ RefusesEarly(Down10)
<1>1. DOMAIN Down10 = 1..5 /\ Down10 = [i \in 1..5 |-> Down10[i]] /\ Len(Down10) = 5
  BY DEF Down10
<1>2. \A i \in 1..5 : /\ Down10[i].kind = "ddl" /\ Down10[i].add = {} /\ Down10[i].refusedBy = {}
  BY DEF Down10, Drop, Alter
<1>3. \A i \in 1..5 : \A u \in Down10[i].drop : Own(u) = 10
  <2>1. /\ Down10[1].drop = {"user_roles"} \X {"assigned_by"}
        /\ Down10[2].drop = {"roles"} \X {"is_system", "is_active"}
        /\ Down10[3].drop = {"user_permission_overrides"} \X {"table"}
        /\ Down10[4].drop = {"role_permissions"} \X {"table"}
        /\ Down10[5].drop = {"permission_definitions"} \X {"table"}
    BY DEF Down10, Drop, Alter
  <2>2. /\ Owner("user_roles", "assigned_by") = 10
        /\ Owner("roles", "is_system") = 10 /\ Owner("roles", "is_active") = 10
        /\ Owner("user_permission_overrides", "table") = 10
        /\ Owner("role_permissions", "table") = 10 /\ Owner("permission_definitions", "table") = 10
    BY DEF Owner
  <2>3. \A i \in 1..5 : i \in {1, 2, 3, 4, 5}
    OBVIOUS
  <2> QED BY <2>1, <2>2, <2>3 DEF Own
<1> QED BY <1>1, <1>2, <1>3
        DEF TurnsBack, List, WritesBackward, TakesBack, Undefines, RefusesEarly

LEMMA Reverts13 == Reverts(Down13, 13)
<1>1. DOMAIN Down13 = 1..1 /\ Down13 = [i \in 1..1 |-> Down13[i]] /\ Len(Down13) = 1
  BY DEF Down13
<1>2. /\ Down13[1].kind = "ddl" /\ Down13[1].drop = {<<"articles", "idx_article_label">>}
      /\ Down13[1].add = {<<"articles", "uq_article_label">>}
  BY DEF Down13, Alter
<1>3. Down13[1].drop \cap AdministrativeState = {}
  <2>1. <<"articles", "idx_article_label">>[2] = "idx_article_label"
    OBVIOUS
  <2> QED BY <2>1, <1>2, NoState
<1>4. \A i \in 1..1 : i = 1 /\ 1..(i - 1) = {}
  OBVIOUS
<1>5. \A u \in Down13[1].drop : Own(u) = 13
  <2>1. Owner("articles", "idx_article_label") = 13
    BY DEF Owner
  <2> QED BY <1>2, <2>1 DEF Own
<1>6. Down13[1].add \subseteq Lost(13)
  BY <1>2, LostIs
<1> QED BY <1>1, <1>2, <1>3, <1>4, <1>5, <1>6
        DEF Reverts, TurnsBack, List, WritesBackward, TakesBack, Undefines, AsksFirst, RefusesEarly

\* Migration 14 drops tables in use.
LEMMA Reverts14 == TurnsBack(Down14, 14) /\ RefusesEarly(Down14)
<1>1. DOMAIN Down14 = 1..2 /\ Down14 = [i \in 1..2 |-> Down14[i]] /\ Len(Down14) = 2
  BY DEF Down14
<1>2. /\ \A i \in 1..2 : Down14[i].kind = "ddl" /\ Down14[i].add = {} /\ Down14[i].refusedBy = {}
      /\ Down14[1].drop = {"legislation_source_documents"} \X {"table"}
      /\ Down14[2].drop = {"source_import_attachments"} \X {"table"}
  BY DEF Down14, Drop, Alter
<1>3. \A i \in 1..2 : \A u \in Down14[i].drop : Own(u) = 14
  <2>1. /\ Owner("source_import_attachments", "table") = 14
        /\ Owner("legislation_source_documents", "table") = 14
    BY DEF Owner
  <2> QED BY <1>2, <2>1 DEF Own
<1> QED BY <1>1, <1>2, <1>3 DEF TurnsBack, List, WritesBackward, TakesBack, Undefines, RefusesEarly

\* Migration 18 has dropped the new key before it learns that it cannot restore the old.
LEMMA Reverts18 == TurnsBack(Down18, 18) /\ AsksFirst(Down18)
<1>1. DOMAIN Down18 = 1..2 /\ Down18 = [i \in 1..2 |-> Down18[i]] /\ Len(Down18) = 2
  BY DEF Down18
<1>2. \A i \in 1..2 : /\ Down18[i].kind = "ddl" /\ Down18[i].add \subseteq {OldHash}
                      /\ Down18[i].drop \subseteq {NewHash}
  <2>1. Down18[1].kind = "ddl" /\ Down18[1].add = {} /\ Down18[1].drop = {NewHash}
    BY DEF Down18, Alter
  <2>2. Down18[2].kind = "ddl" /\ Down18[2].add = {OldHash} /\ Down18[2].drop = {}
    BY DEF Down18, Alter
  <2> QED BY <2>1, <2>2
<1>3. {NewHash} \cap AdministrativeState = {} /\ Own(NewHash) = 18
  <2>1. NewHash[1] = "source_documents" /\ NewHash[2] = "uq_source_sha256_active"
    BY DEF NewHash
  <2> QED BY <2>1, NoState DEF Own, Owner
<1>4. {OldHash} \subseteq Lost(18)
  BY LostIs
<1> QED BY <1>1, <1>2, <1>3, <1>4
        DEF TurnsBack, List, WritesBackward, TakesBack, Undefines, AsksFirst

\* The revert of migration 12, statement by statement: the rows first, in one transaction.
LEMMA Down12Is ==
  /\ DOMAIN Down12 = 1..7 /\ Len(Down12) = 7 /\ Down12 = [i \in 1..7 |-> Down12[i]]
  /\ Down12[1].kind = "dml" /\ Down12[1].rows = "empty" /\ Down12[1].refusedBy = {}
  /\ Down12[2].kind = "dml" /\ Down12[2].rows = "restore"
  /\ \A i \in 3..7 : Down12[i].kind = "ddl" /\ Down12[i].add = {} /\ Down12[i].refusedBy = {}
  /\ Down12[3].drop = {"roles"} \X {"authority_level", "permission_model_version"}
  /\ Down12[4].drop = {"permission_definitions"} \X {"is_system", "is_legacy"}
  /\ Down12[5].drop = {"roles_backup"} \X {"table"}
  /\ Down12[6].drop = {"role_permissions_backup"} \X {"table"}
  /\ Down12[7].drop = {"permission_definitions_backup"} \X {"table"}
<1> DEFINE first == <<Write("empty", "all"),
                      [Write("restore", "all") EXCEPT !.refusedBy = {<<"roles", "deleted">>}],
                      Drop("roles", {"authority_level", "permission_model_version"}),
                      Drop("permission_definitions", {"is_system", "is_legacy"})>>
           rest == Each(LAMBDA t : Drop(t, {"table"}), Backwards(Backups))
<1>1. first = [i \in 1..4 |-> first[i]]
  OBVIOUS
<1>2. rest = [i \in 1..3 |-> rest[i]]
  BY DEF Each, Backwards, Backups
<1>3. /\ rest[1] = Drop("roles_backup", {"table"})
      /\ rest[2] = Drop("role_permissions_backup", {"table"})
      /\ rest[3] = Drop("permission_definitions_backup", {"table"})
  BY DEF Each, Backwards, Backups
<1> HIDE DEF rest
<1>4. /\ \A i \in 1..3 : rest[i].kind = "ddl" /\ rest[i].add = {} /\ rest[i].refusedBy = {}
      /\ rest[1].drop = {"roles_backup"} \X {"table"}
      /\ rest[2].drop = {"role_permissions_backup"} \X {"table"}
      /\ rest[3].drop = {"permission_definitions_backup"} \X {"table"}
  BY <1>3 DEF Drop, Alter
<1>5. /\ first[1].kind = "dml" /\ first[1].rows = "empty" /\ first[1].refusedBy = {}
      /\ first[2].kind = "dml" /\ first[2].rows = "restore"
      /\ first[3].kind = "ddl" /\ first[3].add = {} /\ first[3].refusedBy = {}
      /\ first[3].drop = {"roles"} \X {"authority_level", "permission_model_version"}
      /\ first[4].kind = "ddl" /\ first[4].add = {} /\ first[4].refusedBy = {}
      /\ first[4].drop = {"permission_definitions"} \X {"is_system", "is_legacy"}
  BY DEF Write, Drop, Alter
<1> HIDE DEF first
<1>6. Down12 = first \o rest
  BY DEF Down12, first, rest
<1>7. /\ DOMAIN Down12 = 1..7 /\ Len(Down12) = 7 /\ Down12 = [i \in 1..7 |-> Down12[i]]
      /\ \A i \in 1..4 : Down12[i] = first[i]
      /\ \A i \in 5..7 : Down12[i] = rest[i - 4]
  BY <1>1, <1>2, <1>6, Joined
<1>8. /\ Down12[1] = first[1] /\ Down12[2] = first[2] /\ Down12[3] = first[3]
      /\ Down12[4] = first[4] /\ Down12[5] = rest[1] /\ Down12[6] = rest[2]
      /\ Down12[7] = rest[3]
  BY <1>7
<1>9. \A i \in 3..7 : i \in {3, 4, 5, 6, 7}
  OBVIOUS
<1> QED BY <1>4, <1>5, <1>7, <1>8, <1>9

\* Migration 12 drops the levels of the roles, and asks nothing before.
LEMMA Reverts12 == TurnsBack(Down12, 12) /\ RefusesEarly(Down12)
<1>1. \A i \in 3..7 : i \in {3, 4, 5, 6, 7}
  OBVIOUS
<1>2. \A i \in 3..7 : \A u \in Down12[i].drop : Own(u) = 12
  <2>1. /\ Owner("roles", "authority_level") = 12
        /\ Owner("roles", "permission_model_version") = 12
        /\ Owner("permission_definitions", "is_system") = 12
        /\ Owner("permission_definitions", "is_legacy") = 12
        /\ Owner("roles_backup", "table") = 12 /\ Owner("role_permissions_backup", "table") = 12
        /\ Owner("permission_definitions_backup", "table") = 12
    BY DEF Owner
  <2> QED BY <1>1, <2>1, Down12Is DEF Own
<1>3. 1..7 = {1} \cup {2} \cup 3..7 /\ \A j \in 1..(2 - 1) : j = 1
  OBVIOUS
<1> QED BY <1>2, <1>3, Down12Is
        DEF TurnsBack, List, WritesBackward, TakesBack, Undefines, RefusesEarly

LEMMA Reverts15 == Reverts(Down15, 15)
<1> DEFINE then == <<Drop("amendments", {"revision"}), Write("undefine", LifecycleCodes),
                     Drop("amendment_operations", Pieces)>>
           rest == Each(LAMBDA t : Drop(t, State(t)), Backwards(LifecycleTables))
           asked == Withdrawn("deleted_at") \cup Withdrawn("is_active")
                      \cup {"amendment_operations"} \X Pieces
<1>1. Looks15 = [i \in 1..3 |-> Looks15[i]]
  BY DEF Looks15
<1>2. then = [i \in 1..3 |-> then[i]]
  OBVIOUS
<1>3. /\ rest = [i \in 1..5 |-> rest[i]]
      /\ \A i \in 1..5 : rest[i] = Drop(LifecycleTables[6 - i], State(LifecycleTables[6 - i]))
  BY DEF Each, Backwards, LifecycleTables
<1> HIDE DEF rest
<1>4. /\ \A i \in 1..3 : Looks15[i].kind = "look"
      /\ Looks15[1].refusedBy = Withdrawn("deleted_at")
      /\ Looks15[2].refusedBy = Withdrawn("is_active")
      /\ Looks15[3].refusedBy = {"amendment_operations"} \X Pieces
  BY DEF Looks15, Look
<1>5. /\ then[1].kind = "ddl" /\ then[1].add = {} /\ then[1].refusedBy = {}
      /\ then[1].drop = {"amendments"} \X {"revision"}
      /\ then[2].kind = "dml" /\ then[2].rows = "undefine" /\ then[2].refusedBy = {}
      /\ then[2].arg = LifecycleCodes
      /\ then[3].kind = "ddl" /\ then[3].add = {} /\ then[3].refusedBy = {}
      /\ then[3].drop = {"amendment_operations"} \X Pieces
  BY DEF Write, Drop, Alter
<1>6. \A i \in 1..5 :
        /\ rest[i].kind = "ddl" /\ rest[i].add = {} /\ rest[i].refusedBy = {}
        /\ rest[i].drop = {LifecycleTables[6 - i]} \X State(LifecycleTables[6 - i])
  BY <1>3 DEF Drop, Alter
<1> HIDE DEF then
<1>7. Down15 = (Looks15 \o then) \o rest
  BY DEF Down15, then, rest
<1>8. /\ Looks15 \o then = [i \in 1..6 |-> (Looks15 \o then)[i]]
      /\ \A i \in 1..3 : (Looks15 \o then)[i] = Looks15[i]
      /\ \A i \in 4..6 : (Looks15 \o then)[i] = then[i - 3]
  BY <1>1, <1>2, Joined
<1>9. /\ DOMAIN Down15 = 1..11 /\ Len(Down15) = 11 /\ Down15 = [i \in 1..11 |-> Down15[i]]
      /\ \A i \in 1..6 : Down15[i] = (Looks15 \o then)[i]
      /\ \A i \in 7..11 : Down15[i] = rest[i - 6]
  <2> DEFINE asks == Looks15 \o then
  <2>1. asks = [i \in 1..6 |-> asks[i]]
    BY <1>8
  <2>2. Down15 = asks \o rest
    BY <1>7
  <2> HIDE DEF asks
  <2>3. /\ DOMAIN (asks \o rest) = 1..11 /\ Len(asks \o rest) = 11
        /\ asks \o rest = [i \in 1..11 |-> (asks \o rest)[i]]
        /\ \A i \in 1..6 : (asks \o rest)[i] = asks[i]
        /\ \A i \in 7..11 : (asks \o rest)[i] = rest[i - 6]
    BY <1>3, <2>1, Joined
  <2> QED BY <2>2, <2>3 DEF asks
<1>10. /\ Down15[1] = Looks15[1] /\ Down15[2] = Looks15[2] /\ Down15[3] = Looks15[3]
       /\ Down15[4] = then[1] /\ Down15[5] = then[2] /\ Down15[6] = then[3]
  BY <1>8, <1>9
<1>11. ASSUME NEW i \in 7..11
       PROVE  /\ Down15[i].kind = "ddl" /\ Down15[i].add = {} /\ Down15[i].refusedBy = {}
              /\ Down15[i].drop \cap AdministrativeState \subseteq asked
              /\ \A u \in Down15[i].drop : Own(u) = 15
  <2>1. i - 6 \in 1..5 /\ Down15[i] = rest[i - 6]
    BY <1>9
  <2>2. PICK t \in Range(LifecycleTables) : Down15[i].drop = {t} \X State(t)
    <3>1. 6 - (i - 6) \in 1..5
      BY <2>1
    <3> QED BY <2>1, <3>1, <1>6, LifecycleTablesAre
  <2>3. ASSUME NEW u \in {t} \X State(t) PROVE u \in asked
    <3>1. u = <<t, u[2]>> /\ u[2] \in State(t) /\ u[1] = t
      BY <2>3
    <3>2. u[2] \in {"is_active", "deleted_at"}
      BY <3>1, LifecycleTablesAre
    <3>3. u \in Range(LifecycleTables) \X {u[2]} /\ u[2] \in State(u[1])
      BY <3>1
    <3>4. u \in Withdrawn(u[2])
      BY <3>3 DEF Withdrawn
    <3> QED BY <3>2, <3>4
  <2>4. \A u \in {t} \X State(t) : Own(u) = 15
    BY LifecycleOwners DEF Own
  <2> QED BY <2>1, <2>2, <2>3, <2>4, <1>6
<1>12. Down15[4].drop \cap AdministrativeState = {}
  <2>1. \A u \in {"amendments"} \X {"revision"} : u[2] = "revision"
    OBVIOUS
  <2> QED BY <2>1, <1>5, <1>10, NoState
<1>13. \A u \in asked : \E j \in 1..3 : u \in Down15[j].refusedBy
  BY <1>4, <1>10
<1> HIDE DEF asked
<1>14. \A i \in 1..11 : Down15[i].kind = "ddl" =>
         i \in 4..11 /\ Down15[i].drop \cap AdministrativeState \subseteq asked
  <2>1. Down15[6].drop \subseteq asked
    BY <1>5, <1>10 DEF asked
  <2>2. \A i \in 1..11 : i \in {1, 2, 3, 4, 5, 6} \/ i \in 7..11
    OBVIOUS
  <2> QED BY <2>1, <2>2, <1>4, <1>5, <1>10, <1>11, <1>12
<1>15. AsksFirst(Down15)
  <2>1. \A i \in 4..11 : \A j \in 1..3 : j \in 1..(i - 1)
    OBVIOUS
  <2> QED BY <2>1, <1>9, <1>13, <1>14 DEF AsksFirst
<1>16. WritesBackward(Down15)
  <2>1. \A i \in 1..11 : i \in {1, 2, 3, 4, 5, 6} \/ i \in 7..11
    OBVIOUS
  <2> QED BY <2>1, <1>4, <1>5, <1>9, <1>10, <1>11 DEF WritesBackward
<1>17. RefusesEarly(Down15)
  <2>1. \A i \in 1..11 : Down15[i].refusedBy # {} => i \in 1..3
    <3>1. \A i \in 1..11 : i \in {1, 2, 3, 4, 5, 6} \/ i \in 7..11
      OBVIOUS
    <3> QED BY <3>1, <1>5, <1>10, <1>11
  <2>2. \A i \in 1..3 : Down15[i].kind = "look"
    BY <1>4, <1>10
  <2>3. \A i \in 1..3 : \A j \in 1..(i - 1) : j \in 1..3
    OBVIOUS
  <2> QED BY <2>1, <2>2, <2>3, <1>9 DEF RefusesEarly
<1>18. TakesBack(Down15, 15)
  <2>1. \A i \in 1..11 : i \in {1, 2, 3, 4, 5, 6} \/ i \in 7..11
    OBVIOUS
  <2>2. /\ \A u \in {"amendments"} \X {"revision"} : Own(u) = 15
        /\ \A u \in {"amendment_operations"} \X Pieces : Own(u) = 15
    BY LifecycleOwners DEF Own
  <2> QED BY <2>1, <2>2, <1>4, <1>5, <1>9, <1>10, <1>11 DEF TakesBack
<1>19. Undefines(Down15, 15)
  <2>1. \A i \in 1..11 : i \in {1, 2, 3, 4, 5, 6} \/ i \in 7..11
    OBVIOUS
  <2>2. LifecycleCodes \cap Grantable = {}
    BY NewCodes
  <2> QED BY <2>1, <2>2, <1>4, <1>5, <1>9, <1>10, <1>11 DEF Undefines
<1> QED BY <1>9, <1>15, <1>16, <1>17, <1>18, <1>19 DEF Reverts, TurnsBack, List

LEMMA Reverts16 == Reverts(Down16, 16)
<1> DEFINE first == <<Look(Range(Tables16) \X {"is_active", "deleted_at"}),
                      Write("undefine", SetCodes)>>
           rest == Each(LAMBDA t : Drop(t, State(t)), Tables16)
           asked == Range(Tables16) \X {"is_active", "deleted_at"}
<1>1. first = [i \in 1..2 |-> first[i]]
  OBVIOUS
<1>2. /\ rest = [i \in 1..2 |-> rest[i]]
      /\ \A i \in 1..2 : rest[i] = Drop(Tables16[i], State(Tables16[i]))
  BY DEF Each, Tables16
<1> HIDE DEF rest
<1>3. /\ first[1].kind = "look" /\ first[1].refusedBy = asked
      /\ first[2].kind = "dml" /\ first[2].rows = "undefine" /\ first[2].refusedBy = {}
      /\ first[2].arg = SetCodes
  BY DEF Look, Write
<1>4. \A i \in 1..2 : /\ rest[i].kind = "ddl" /\ rest[i].add = {} /\ rest[i].refusedBy = {}
                      /\ rest[i].drop = {Tables16[i]} \X State(Tables16[i])
  BY <1>2 DEF Drop, Alter
<1>5. \A i \in 1..2 : rest[i].drop \subseteq asked
  <2>1. TAKE i \in 1..2
  <2>2. Tables16[i] \in Range(Tables16)
    <3>1. DOMAIN Tables16 = 1..2
      BY DEF Tables16
    <3> QED BY <3>1 DEF Range
  <2>3. State(Tables16[i]) \subseteq {"is_active", "deleted_at"}
    BY LifecycleTablesAre
  <2> QED BY <2>2, <2>3, <1>4
<1> HIDE DEF first, asked
<1>6. Down16 = first \o rest
  BY DEF Down16, first, rest
<1>7. /\ DOMAIN Down16 = 1..4 /\ Len(Down16) = 4 /\ Down16 = [i \in 1..4 |-> Down16[i]]
      /\ \A i \in 1..2 : Down16[i] = first[i]
      /\ \A i \in 3..4 : Down16[i] = rest[i - 2]
  BY <1>1, <1>2, <1>6, Joined
<1>8. \A i \in 1..2 : i + 2 \in 3..4 /\ (i + 2) - 2 = i
  OBVIOUS
<1>9. Down16[1] = first[1] /\ Down16[2] = first[2] /\ Down16[3] = rest[1] /\ Down16[4] = rest[2]
  BY <1>7, <1>8
<1>10. \A i \in 1..4 : i \in {1, 2, 3, 4}
  OBVIOUS
<1>11. 1 \in 1..(3 - 1) /\ 1 \in 1..(4 - 1) /\ 1..(1 - 1) = {}
  OBVIOUS
<1>12. AsksFirst(Down16)
  BY <1>3, <1>4, <1>5, <1>7, <1>9, <1>10, <1>11 DEF AsksFirst
<1>13. WritesBackward(Down16)
  BY <1>3, <1>4, <1>7, <1>9, <1>10 DEF WritesBackward
<1>14. RefusesEarly(Down16)
  BY <1>3, <1>4, <1>7, <1>9, <1>10, <1>11 DEF RefusesEarly
<1>15. \A i \in 1..2 : \A u \in rest[i].drop : Own(u) = 16
  <2>1. \A i \in 1..2 : Tables16[i] \in Range(Tables16)
    BY LifecycleTablesAre DEF Tables16
  <2> QED BY <2>1, <1>4, LifecycleOwners DEF Own
<1>16. TakesBack(Down16, 16)
  BY <1>3, <1>4, <1>7, <1>9, <1>10, <1>15 DEF TakesBack
<1>17. Undefines(Down16, 16)
  <2>1. SetCodes \cap Grantable = {}
    BY NewCodes
  <2> QED BY <2>1, <1>3, <1>4, <1>7, <1>9, <1>10 DEF Undefines
<1> QED BY <1>7, <1>12, <1>13, <1>14, <1>16, <1>17 DEF Reverts, TurnsBack, List

LEMMA Reverts17 == Reverts(Down17, 17)
<1> DEFINE first == <<Look({<<"password_recovery_requests", "table">>}),
                      Drop("password_recovery_requests", {"table", "triggers"})>>
           rest == InTurn(LAMBDA t, i : Alter({Revised(t, 3 - i)}, {}), Backwards(Tables17))
<1>1. first = [i \in 1..2 |-> first[i]]
  OBVIOUS
<1>2. /\ rest = [k \in 1..6 |-> rest[k]]
      /\ \A k \in 1..6 :
           rest[k] = Alter({Revised(Backwards(Tables17)[(k + 1) \div 2], 3 - (2 - (k % 2)))}, {})
  <2>1. 2 * Len(Backwards(Tables17)) = 6
    BY DEF Backwards, Tables17
  <2> QED BY <2>1 DEF InTurn
<1> HIDE DEF rest
<1>3. /\ first[1].kind = "look" /\ first[1].refusedBy = {<<"password_recovery_requests", "table">>}
      /\ first[2].kind = "ddl" /\ first[2].add = {} /\ first[2].refusedBy = {}
      /\ first[2].drop = {"password_recovery_requests"} \X {"table", "triggers"}
  BY DEF Look, Drop, Alter
<1>4. \A t, i : Revised(t, i)[2] \in {"edit_revision", "revision trigger"}
  BY DEF Revised
<1>5. \A k \in 1..6 : /\ rest[k].kind = "ddl" /\ rest[k].add = {} /\ rest[k].refusedBy = {}
                      /\ \A u \in rest[k].drop : u[2] \in {"edit_revision", "revision trigger"}
                      /\ \A u \in rest[k].drop : Own(u) = 17
  <2>1. TAKE k \in 1..6
  <2> DEFINE it == Revised(Backwards(Tables17)[(k + 1) \div 2], 3 - (2 - (k % 2)))
  <2>2. it[2] \in {"edit_revision", "revision trigger"} /\ Own(it) = 17
    BY <1>4, RevisedOwner
  <2>3. rest[k] = Alter({it}, {})
    BY <1>2
  <2> HIDE DEF it
  <2>4. /\ rest[k].kind = "ddl" /\ rest[k].add = {} /\ rest[k].refusedBy = {}
        /\ rest[k].drop = {it}
    BY <2>3 DEF Alter
  <2> QED BY <2>2, <2>4
<1> HIDE DEF first
<1>6. Down17 = first \o rest
  BY DEF Down17, first, rest
<1>7. /\ DOMAIN Down17 = 1..8 /\ Len(Down17) = 8 /\ Down17 = [i \in 1..8 |-> Down17[i]]
      /\ \A i \in 1..2 : Down17[i] = first[i]
      /\ \A i \in 3..8 : Down17[i] = rest[i - 2]
  BY <1>1, <1>2, <1>6, Joined
<1>8. \A i \in 3..8 :
        /\ Down17[i].kind = "ddl" /\ Down17[i].add = {} /\ Down17[i].refusedBy = {}
        /\ Down17[i].drop \cap AdministrativeState = {}
        /\ \A u \in Down17[i].drop : Own(u) = 17
  <2>1. TAKE i \in 3..8
  <2>2. i - 2 \in 1..6 /\ Down17[i] = rest[i - 2]
    BY <1>7
  <2> QED BY <2>2, <1>5, NoState
<1>9. first[2].drop \cap AdministrativeState \subseteq {<<"password_recovery_requests", "table">>}
  <2>1. SUFFICES ASSUME NEW u \in {"password_recovery_requests"} \X {"table", "triggers"},
                        u \in AdministrativeState
                 PROVE  u = <<"password_recovery_requests", "table">>
    BY <1>3
  <2>2. \/ u = <<"password_recovery_requests", "table">>
       \/ u = <<"password_recovery_requests", "triggers">>
    BY <2>1
  <2>3. <<"password_recovery_requests", "triggers">>[2] = "triggers"
    OBVIOUS
  <2> QED BY <2>1, <2>2, <2>3, NoState
<1>10. \A i \in 1..8 : i \in {1, 2} \cup 3..8
  OBVIOUS
<1>11. 1 \in 1..(2 - 1) /\ 1..(1 - 1) = {}
  OBVIOUS
<1>12. AsksFirst(Down17)
  BY <1>3, <1>7, <1>8, <1>9, <1>10, <1>11 DEF AsksFirst
<1>13. WritesBackward(Down17)
  BY <1>3, <1>7, <1>8, <1>10 DEF WritesBackward
<1>14. RefusesEarly(Down17)
  BY <1>3, <1>7, <1>8, <1>10, <1>11 DEF RefusesEarly
<1>15. TakesBack(Down17, 17)
  <2>1. \A u \in first[2].drop : Own(u) = 17
    BY <1>3 DEF Own, Owner
  <2> QED BY <2>1, <1>3, <1>7, <1>8, <1>10 DEF TakesBack
<1>16. Undefines(Down17, 17)
  BY <1>3, <1>7, <1>8, <1>10 DEF Undefines
<1> QED BY <1>7, <1>12, <1>13, <1>14, <1>15, <1>16 DEF Reverts, TurnsBack, List

LEMMA Proceeds10 == Proceeds(Up10, 10)
<1>1. DOMAIN Up10 = 1..7 /\ Up10 = [i \in 1..7 |-> Up10[i]] /\ Len(Up10) = 7
  BY DEF Up10
<1>2. /\ \A i \in 1..5 : Up10[i].kind = "ddl" /\ Up10[i].drop = {}
      /\ Up10[1].add = {"permission_definitions"} \X {"table"}
      /\ Up10[2].add = {"role_permissions"} \X {"table"}
      /\ Up10[3].add = {"user_permission_overrides"} \X {"table"}
      /\ Up10[4].add = {"roles"} \X {"is_system", "is_active"}
      /\ Up10[5].add = {"user_roles"} \X {"assigned_by"}
  BY DEF Up10, Add, Alter
<1>3. Up10[6] = Write("define", OldCodes) /\ Up10[7] = Write("grant", OldRoleMap)
  BY DEF Up10
<1>4. /\ Up10[6].kind = "dml" /\ Up10[6].rows = "define" /\ Up10[6].arg = OldCodes
      /\ Up10[7].kind = "dml" /\ Up10[7].rows = "grant" /\ Up10[7].arg = OldRoleMap
  BY <1>3 DEF Write
<1>5. OldCodes \subseteq Codes
  BY DEF Codes, Grantable
<1>6. \A i \in 1..7 : i \in 1..5 \/ i = 6 \/ i = 7
  OBVIOUS
<1>7. 6 \in 1..(7 - 1)
  OBVIOUS
<1>8. \A i \in 1..5 : \A u \in Up10[i].add : Own(u) = 10
  <2>1. /\ Owner("user_roles", "assigned_by") = 10
        /\ Owner("roles", "is_system") = 10 /\ Owner("roles", "is_active") = 10
        /\ Owner("user_permission_overrides", "table") = 10
        /\ Owner("role_permissions", "table") = 10 /\ Owner("permission_definitions", "table") = 10
    BY DEF Owner
  <2>2. \A i \in 1..5 : i \in {1, 2, 3, 4, 5}
    OBVIOUS
  <2> QED BY <1>2, <2>1, <2>2 DEF Own
<1>9. Adds(Up10, 10) /\ Defines(Up10, 10)
  BY <1>1, <1>2, <1>4, <1>6, <1>8 DEF Adds, Defines
<1> QED BY <1>1, <1>2, <1>3, <1>4, <1>5, <1>6, <1>7, <1>9 DEF Proceeds, List, WritesForward

\* Migration 12, statement by statement: copies and columns first, then the rows.
LEMMA Up12Is ==
  /\ DOMAIN Up12 = 1..12 /\ Len(Up12) = 12 /\ Up12 = [i \in 1..12 |-> Up12[i]]
  /\ \A i \in {1, 2, 3, 5, 6} : Up12[i].kind = "ddl" /\ Up12[i].drop = {}
  /\ Up12[1].add = {"permission_definitions_backup"} \X {"table"}
  /\ Up12[2].add = {"role_permissions_backup"} \X {"table"}
  /\ Up12[3].add = {"roles_backup"} \X {"table"}
  /\ Up12[4].kind = "dml" /\ Up12[4].rows = "save"
  /\ Up12[5].add = {"permission_definitions"} \X {"is_system", "is_legacy"}
  /\ Up12[6].add = {"roles"} \X {"authority_level", "permission_model_version"}
  /\ Up12[7].kind = "dml" /\ Up12[7].rows = "mark" /\ Up12[7].arg = LegacyOnly
  /\ Up12[8] = Write("upsert", Canonical)
  /\ Up12[8].kind = "dml" /\ Up12[8].rows = "upsert" /\ Up12[8].arg = Canonical
  /\ \A i \in {9, 10, 11} : Up12[i].kind = "dml" /\ Up12[i].rows = "convert"
  /\ Up12[9].arg = "CUSTOM" /\ Up12[10].arg = "LEGAL_REVIEWER" /\ Up12[11].arg = "SYSTEM_ADMIN"
  /\ Up12[12].kind = "dml" /\ Up12[12].rows = "direct"
<1> DEFINE copies == Each(LAMBDA t : Add(t, {"table"}), Backups)
           then == <<Write("save", "all"),
                     Add("permission_definitions", {"is_system", "is_legacy"}),
                     Add("roles", {"authority_level", "permission_model_version"}),
                     Write("mark", LegacyOnly), Write("upsert", Canonical)>>
           converts == Each(LAMBDA r : Write("convert", r),
                            <<"CUSTOM", "LEGAL_REVIEWER", "SYSTEM_ADMIN">>)
           last == <<Write("direct", "all")>>
<1>1. /\ copies = [i \in 1..3 |-> copies[i]]
      /\ \A i \in 1..3 : copies[i].kind = "ddl" /\ copies[i].drop = {}
      /\ copies[1].add = {"permission_definitions_backup"} \X {"table"}
      /\ copies[2].add = {"role_permissions_backup"} \X {"table"}
      /\ copies[3].add = {"roles_backup"} \X {"table"}
  <2>1. /\ copies = [i \in 1..3 |-> copies[i]]
        /\ \A i \in 1..3 : copies[i] = Add(Backups[i], {"table"})
    BY DEF Each, Backups
  <2>2. /\ Backups[1] = "permission_definitions_backup"
        /\ Backups[2] = "role_permissions_backup" /\ Backups[3] = "roles_backup"
    BY DEF Backups
  <2> HIDE DEF copies
  <2> QED BY <2>1, <2>2 DEF Add, Alter
<1>2. then = [i \in 1..5 |-> then[i]]
  OBVIOUS
<1>3. /\ then[1].kind = "dml" /\ then[1].rows = "save"
      /\ then[2].kind = "ddl" /\ then[2].drop = {}
      /\ then[2].add = {"permission_definitions"} \X {"is_system", "is_legacy"}
      /\ then[3].kind = "ddl" /\ then[3].drop = {}
      /\ then[3].add = {"roles"} \X {"authority_level", "permission_model_version"}
      /\ then[4].kind = "dml" /\ then[4].rows = "mark" /\ then[4].arg = LegacyOnly
      /\ then[5] = Write("upsert", Canonical)
      /\ then[5].kind = "dml" /\ then[5].rows = "upsert" /\ then[5].arg = Canonical
  BY DEF Write, Add, Alter
<1>4. /\ converts = [i \in 1..3 |-> converts[i]]
      /\ \A i \in 1..3 : converts[i].kind = "dml" /\ converts[i].rows = "convert"
      /\ converts[1].arg = "CUSTOM" /\ converts[2].arg = "LEGAL_REVIEWER"
      /\ converts[3].arg = "SYSTEM_ADMIN"
  <2>1. /\ converts = [i \in 1..3 |-> converts[i]]
        /\ \A i \in 1..3 :
             converts[i] = Write("convert", <<"CUSTOM", "LEGAL_REVIEWER", "SYSTEM_ADMIN">>[i])
    BY DEF Each
  <2> HIDE DEF converts
  <2> QED BY <2>1 DEF Write
<1>5. last = [i \in 1..1 |-> last[i]] /\ last[1].kind = "dml" /\ last[1].rows = "direct"
  BY DEF Write
<1> HIDE DEF copies, then, converts, last
<1> DEFINE two == copies \o then
           three == two \o converts
<1>6. Up12 = three \o last
  BY DEF Up12, copies, then, converts, last
<1>7. /\ two = [i \in 1..8 |-> two[i]]
      /\ \A i \in 1..3 : two[i] = copies[i]
      /\ \A i \in 4..8 : two[i] = then[i - 3]
  BY <1>1, <1>2, Joined
<1> HIDE DEF two
<1>8. /\ three = [i \in 1..11 |-> three[i]]
      /\ \A i \in 1..8 : three[i] = two[i]
      /\ \A i \in 9..11 : three[i] = converts[i - 8]
  BY <1>4, <1>7, Joined
<1> HIDE DEF three
<1>9. /\ DOMAIN Up12 = 1..12 /\ Len(Up12) = 12 /\ Up12 = [i \in 1..12 |-> Up12[i]]
      /\ \A i \in 1..11 : Up12[i] = three[i]
      /\ \A i \in 12..12 : Up12[i] = last[i - 11]
  BY <1>5, <1>6, <1>8, Joined
<1>10. Up12[1] = copies[1] /\ Up12[2] = copies[2] /\ Up12[3] = copies[3]
  BY <1>7, <1>8, <1>9
<1>11. /\ Up12[4] = then[1] /\ Up12[5] = then[2] /\ Up12[6] = then[3] /\ Up12[7] = then[4]
       /\ Up12[8] = then[5]
  BY <1>7, <1>8, <1>9
<1>12. Up12[9] = converts[1] /\ Up12[10] = converts[2] /\ Up12[11] = converts[3]
  BY <1>8, <1>9
<1>13. Up12[12] = last[1]
  BY <1>9
<1> QED BY <1>1, <1>3, <1>4, <1>5, <1>9, <1>10, <1>11, <1>12, <1>13

LEMMA Proceeds12 == Proceeds(Up12, 12)
<1>1. \A i \in 1..12 : i \in {1, 2, 3, 5, 6} \/ i \in {4, 7, 8, 9, 10, 11, 12}
  OBVIOUS
<1>2. /\ Owner("roles", "authority_level") = 12
      /\ Owner("roles", "permission_model_version") = 12
      /\ Owner("permission_definitions", "is_system") = 12
      /\ Owner("permission_definitions", "is_legacy") = 12
      /\ Owner("roles_backup", "table") = 12 /\ Owner("role_permissions_backup", "table") = 12
      /\ Owner("permission_definitions_backup", "table") = 12
  BY DEF Owner
<1>3. \A i \in {1, 2, 3, 5, 6} : \A u \in Up12[i].add : Own(u) = 12
  BY <1>2, Up12Is DEF Own
<1>4. Adds(Up12, 12) /\ Defines(Up12, 12)
  BY <1>1, <1>3, Up12Is DEF Adds, Defines
<1>5. Canonical \subseteq Codes
  BY DEF Codes, Grantable
<1>6. \A i \in {9, 10, 11} : 8 \in 1..(i - 1) /\ Up12[i].arg \in Roles
  BY Up12Is DEF Roles
<1>7. WritesForward(Up12)
  BY <1>1, <1>5, <1>6, Up12Is DEF WritesForward
<1> QED BY <1>4, <1>7, Up12Is DEF Proceeds, List

LEMMA Proceeds15 == Proceeds(Up15, 15)
<1> DEFINE first == <<Add("amendments", {"revision"})>>
           tables == Each(LAMBDA t : Add(t, State(t)), LifecycleTables)
           last == <<Add("amendment_operations", Pieces), Write("define", LifecycleCodes)>>
           both == first \o tables
<1>1. /\ first = [i \in 1..1 |-> first[i]] /\ first[1].kind = "ddl" /\ first[1].drop = {}
      /\ \A u \in first[1].add : Own(u) = 15
  <2>1. /\ first = [i \in 1..1 |-> first[i]] /\ first[1].kind = "ddl" /\ first[1].drop = {}
        /\ first[1].add = {"amendments"} \X {"revision"}
    BY DEF Add, Alter
  <2> HIDE DEF first
  <2> QED BY <2>1, LifecycleOwners DEF Own
<1>2. /\ tables = [i \in 1..5 |-> tables[i]]
      /\ \A i \in 1..5 : /\ tables[i].kind = "ddl" /\ tables[i].drop = {}
                         /\ \A u \in tables[i].add : Own(u) = 15
  <2>1. /\ tables = [i \in 1..5 |-> tables[i]]
        /\ \A i \in 1..5 : tables[i] = Add(LifecycleTables[i], State(LifecycleTables[i]))
    BY DEF Each, LifecycleTables
  <2> HIDE DEF tables
  <2>2. \A i \in 1..5 : /\ tables[i].kind = "ddl" /\ tables[i].drop = {}
                        /\ tables[i].add = {LifecycleTables[i]} \X State(LifecycleTables[i])
    BY <2>1 DEF Add, Alter
  <2> QED BY <2>1, <2>2, LifecycleTablesAre, LifecycleOwners DEF Own
<1>3. /\ last = [i \in 1..2 |-> last[i]] /\ last[1].kind = "ddl" /\ last[1].drop = {}
      /\ \A u \in last[1].add : Own(u) = 15
      /\ last[2].kind = "dml" /\ last[2].rows = "define" /\ last[2].arg = LifecycleCodes
  <2>1. /\ last = [i \in 1..2 |-> last[i]] /\ last[1].kind = "ddl" /\ last[1].drop = {}
        /\ last[1].add = {"amendment_operations"} \X Pieces
        /\ last[2].kind = "dml" /\ last[2].rows = "define" /\ last[2].arg = LifecycleCodes
    BY DEF Write, Add, Alter
  <2> HIDE DEF last
  <2> QED BY <2>1, LifecycleOwners DEF Own
<1> HIDE DEF first, tables, last
<1>4. Up15 = both \o last
  BY DEF Up15, first, tables, last
<1>5. /\ both = [i \in 1..6 |-> both[i]]
      /\ \A i \in 1..1 : both[i] = first[i]
      /\ \A i \in 2..6 : both[i] = tables[i - 1]
  BY <1>1, <1>2, Joined
<1> HIDE DEF both
<1>6. /\ DOMAIN Up15 = 1..8 /\ Len(Up15) = 8 /\ Up15 = [i \in 1..8 |-> Up15[i]]
      /\ \A i \in 1..6 : Up15[i] = both[i]
      /\ \A i \in 7..8 : Up15[i] = last[i - 6]
  BY <1>3, <1>4, <1>5, Joined
<1>7. \A i \in 1..7 : /\ Up15[i].kind = "ddl" /\ Up15[i].drop = {}
                      /\ \A u \in Up15[i].add : Own(u) = 15
  <2>1. \A i \in 2..6 : i - 1 \in 1..5
    OBVIOUS
  <2>2. \A i \in 1..7 : i = 1 \/ i \in 2..6 \/ i = 7
    OBVIOUS
  <2> QED BY <2>1, <2>2, <1>1, <1>2, <1>3, <1>5, <1>6
<1>8. Up15[8].kind = "dml" /\ Up15[8].rows = "define" /\ Up15[8].arg \subseteq Codes
  BY <1>3, <1>6 DEF Codes
<1>9. \A i \in 1..8 : i \in 1..7 \/ i = 8
  OBVIOUS
<1> QED BY <1>6, <1>7, <1>8, <1>9 DEF Proceeds, List, WritesForward, Adds, Defines

LEMMA Proceeds16 == Proceeds(Up16, 16)
<1> DEFINE tables == Each(LAMBDA t : Add(t, State(t)), Tables16)
           last == <<Write("define", SetCodes)>>
<1>1. /\ tables = [i \in 1..2 |-> tables[i]]
      /\ \A i \in 1..2 : /\ tables[i].kind = "ddl" /\ tables[i].drop = {}
                         /\ \A u \in tables[i].add : Own(u) = 16
  <2>1. /\ tables = [i \in 1..2 |-> tables[i]]
        /\ \A i \in 1..2 : tables[i] = Add(Tables16[i], State(Tables16[i]))
    BY DEF Each, Tables16
  <2> HIDE DEF tables
  <2>2. \A i \in 1..2 : /\ tables[i].kind = "ddl" /\ tables[i].drop = {}
                        /\ tables[i].add = {Tables16[i]} \X State(Tables16[i])
    BY <2>1 DEF Add, Alter
  <2>3. \A i \in 1..2 : Tables16[i] \in Range(Tables16)
    BY LifecycleTablesAre DEF Tables16
  <2> QED BY <2>1, <2>2, <2>3, LifecycleOwners DEF Own
<1>2. /\ last = [i \in 1..1 |-> last[i]] /\ last[1].kind = "dml" /\ last[1].rows = "define"
      /\ last[1].arg = SetCodes
  BY DEF Write
<1> HIDE DEF tables, last
<1>3. Up16 = tables \o last
  BY DEF Up16, tables, last
<1>4. /\ DOMAIN Up16 = 1..3 /\ Len(Up16) = 3 /\ Up16 = [i \in 1..3 |-> Up16[i]]
      /\ \A i \in 1..2 : Up16[i] = tables[i]
      /\ \A i \in 3..3 : Up16[i] = last[i - 2]
  BY <1>1, <1>2, <1>3, Joined
<1>5. Up16[3].kind = "dml" /\ Up16[3].rows = "define" /\ Up16[3].arg \subseteq Codes
  BY <1>2, <1>4 DEF Codes
<1>6. \A i \in 1..3 : i \in 1..2 \/ i = 3
  OBVIOUS
<1> QED BY <1>1, <1>4, <1>5, <1>6 DEF Proceeds, List, WritesForward, Adds, Defines

LEMMA Proceeds17 == Proceeds(Up17, 17)
<1> DEFINE tables == InTurn(LAMBDA t, i : [Alter({}, {Revised(t, i)}) EXCEPT !.ensure = TRUE],
                            Tables17)
           last == <<Ensure("password_recovery_requests", {"table"}),
                     Ensure("password_recovery_requests", {"triggers"})>>
<1>1. /\ tables = [i \in 1..6 |-> tables[i]]
      /\ \A i \in 1..6 : /\ tables[i].kind = "ddl" /\ tables[i].drop = {}
                         /\ \A u \in tables[i].add : Own(u) = 17
  <2>1. 2 * Len(Tables17) = 6
    BY DEF Tables17
  <2>2. /\ tables = [k \in 1..6 |-> tables[k]]
        /\ \A k \in 1..6 : tables[k] =
             [Alter({}, {Revised(Tables17[(k + 1) \div 2], 2 - (k % 2))}) EXCEPT !.ensure = TRUE]
    BY <2>1 DEF InTurn
  <2> HIDE DEF tables
  <2>3. \A add : /\ [Alter({}, add) EXCEPT !.ensure = TRUE].kind = "ddl"
                  /\ [Alter({}, add) EXCEPT !.ensure = TRUE].drop = {}
                  /\ [Alter({}, add) EXCEPT !.ensure = TRUE].add = add
    BY DEF Alter
  <2>4. ASSUME NEW i \in 1..6
        PROVE  /\ tables[i].kind = "ddl" /\ tables[i].drop = {}
               /\ \A u \in tables[i].add : Own(u) = 17
    <3> DEFINE it == Revised(Tables17[(i + 1) \div 2], 2 - (i % 2))
    <3>1. Own(it) = 17
      BY RevisedOwner
    <3>2. tables[i] = [Alter({}, {it}) EXCEPT !.ensure = TRUE]
      BY <2>2
    <3> HIDE DEF it
    <3>3. tables[i].kind = "ddl" /\ tables[i].drop = {} /\ tables[i].add = {it}
      BY <2>3, <3>2
    <3> QED BY <3>1, <3>3
  <2> QED BY <2>2, <2>4
<1>2. /\ last = [i \in 1..2 |-> last[i]]
      /\ \A i \in {1, 2} : /\ last[i].kind = "ddl" /\ last[i].drop = {}
                           /\ \A u \in last[i].add : Own(u) = 17
  <2>1. /\ last = [i \in 1..2 |-> last[i]]
        /\ \A i \in {1, 2} : last[i].kind = "ddl" /\ last[i].drop = {}
        /\ last[1].add = {"password_recovery_requests"} \X {"table"}
        /\ last[2].add = {"password_recovery_requests"} \X {"triggers"}
    BY DEF Ensure, Add, Alter
  <2> HIDE DEF last
  <2>2. /\ Owner("password_recovery_requests", "table") = 17
        /\ Owner("password_recovery_requests", "triggers") = 17
    BY DEF Owner
  <2> QED BY <2>1, <2>2 DEF Own
<1> HIDE DEF tables, last
<1>3. Up17 = tables \o last
  BY DEF Up17, tables, last
<1>4. /\ DOMAIN Up17 = 1..8 /\ Len(Up17) = 8 /\ Up17 = [i \in 1..8 |-> Up17[i]]
      /\ \A i \in 1..6 : Up17[i] = tables[i]
      /\ \A i \in 7..8 : Up17[i] = last[i - 6]
  BY <1>1, <1>2, <1>3, Joined
<1>5. \A i \in 1..8 : /\ Up17[i].kind = "ddl" /\ Up17[i].drop = {}
                      /\ \A u \in Up17[i].add : Own(u) = 17
  <2>1. \A i \in 1..8 : i \in 1..6 \/ i = 7 \/ i = 8
    OBVIOUS
  <2> QED BY <2>1, <1>1, <1>2, <1>4
<1> QED BY <1>4, <1>5 DEF Proceeds, List, WritesForward, Adds, Defines

LEMMA ProceedsOthers ==
  Proceeds(Up13, 13) /\ Proceeds(Up14, 14) /\ Proceeds(Up18, 18) /\ Proceeds(<<>>, 11)
    /\ Reverts(<<>>, 11)
<1>1. /\ DOMAIN Up13 = 1..1 /\ Up13 = [i \in 1..1 |-> Up13[i]] /\ Len(Up13) = 1
      /\ Up13[1].kind = "ddl" /\ Up13[1].drop = {<<"articles", "uq_article_label">>}
      /\ Up13[1].add = {<<"articles", "idx_article_label">>}
  BY DEF Up13, Alter
<1>2. /\ DOMAIN Up14 = 1..2 /\ Up14 = [i \in 1..2 |-> Up14[i]] /\ Len(Up14) = 2
      /\ \A i \in 1..2 : Up14[i].kind = "ddl" /\ Up14[i].drop = {}
      /\ Up14[1].add = {"source_import_attachments"} \X {"table"}
      /\ Up14[2].add = {"legislation_source_documents"} \X {"table"}
  BY DEF Up14, Add, Alter
<1>3. /\ DOMAIN Up18 = 1..2 /\ Up18 = [i \in 1..2 |-> Up18[i]] /\ Len(Up18) = 2
      /\ Up18[1].kind = "ddl" /\ Up18[1].drop = {OldHash} /\ Up18[1].add = {}
      /\ Up18[2].kind = "ddl" /\ Up18[2].drop = {} /\ Up18[2].add = {NewHash}
  BY DEF Up18, Alter
<1>4. DOMAIN <<>> = 1..0 /\ <<>> = [i \in 1..0 |-> <<>>[i]] /\ Len(<<>>) = 0 /\ 1..0 = {}
  OBVIOUS
<1>5. Proceeds(<<>>, 11) /\ Reverts(<<>>, 11)
  BY <1>4 DEF Proceeds, Adds, Defines, Reverts, TurnsBack, List, WritesForward, WritesBackward,
              TakesBack, Undefines, AsksFirst, RefusesEarly
<1>6. Proceeds(Up13, 13)
  <2>1. Owner("articles", "idx_article_label") = 13
    BY DEF Owner
  <2> QED BY <1>1, <2>1, LostIs DEF Proceeds, List, WritesForward, Adds, Defines, Own
<1>7. Proceeds(Up14, 14)
  <2>1. /\ Owner("source_import_attachments", "table") = 14
        /\ Owner("legislation_source_documents", "table") = 14
    BY DEF Owner
  <2>2. \A i \in 1..2 : \A u \in Up14[i].add : Own(u) = 14
    BY <1>2, <2>1 DEF Own
  <2> QED BY <1>2, <2>2 DEF Proceeds, List, WritesForward, Adds, Defines
<1>8. Proceeds(Up18, 18)
  <2>1. Own(NewHash) = 18
    BY DEF Own, Owner, NewHash
  <2>2. \A i \in 1..2 : /\ Up18[i].kind = "ddl"
                        /\ \A u \in Up18[i].add : Own(u) = 18
                        /\ Up18[i].drop \subseteq Lost(18)
    BY <1>3, <2>1, LostIs
  <2> QED BY <1>3, <2>2 DEF Proceeds, List, WritesForward, Adds, Defines
<1> QED BY <1>5, <1>6, <1>7, <1>8

\* The scripts of every migration.
LEMMA ScriptsAre ==
  \A n \in Numbers :
    /\ Proceeds(Up[n - 9], n)
    /\ TurnsBack(Down[n - 9], n)
    /\ n \notin {10, 12, 14} => AsksFirst(Down[n - 9])
    /\ n # 18 => RefusesEarly(Down[n - 9])
<1>1. \A n \in Numbers : n \in {10, 11, 12, 13, 14, 15, 16, 17, 18}
  BY DEF Numbers
<1>2. /\ Up[1] = Up10 /\ Up[2] = <<>> /\ Up[3] = Up12 /\ Up[4] = Up13 /\ Up[5] = Up14
      /\ Up[6] = Up15 /\ Up[7] = Up16 /\ Up[8] = Up17 /\ Up[9] = Up18
  BY DEF Up
<1>3. /\ Down[1] = Down10 /\ Down[2] = <<>> /\ Down[3] = Down12 /\ Down[4] = Down13
      /\ Down[5] = Down14 /\ Down[6] = Down15 /\ Down[7] = Down16 /\ Down[8] = Down17
      /\ Down[9] = Down18
  BY DEF Down
<1>4. /\ Reverts(Down13, 13) /\ Reverts(Down15, 15) /\ Reverts(Down16, 16)
      /\ Reverts(Down17, 17) /\ Reverts(<<>>, 11)
  BY Reverts13, Reverts15, Reverts16, Reverts17, ProceedsOthers
<1>5. \A n \in Numbers : Proceeds(Up[n - 9], n)
  <2>1. /\ Proceeds(Up[10 - 9], 10) /\ Proceeds(Up[11 - 9], 11) /\ Proceeds(Up[12 - 9], 12)
        /\ Proceeds(Up[13 - 9], 13) /\ Proceeds(Up[14 - 9], 14) /\ Proceeds(Up[15 - 9], 15)
        /\ Proceeds(Up[16 - 9], 16) /\ Proceeds(Up[17 - 9], 17) /\ Proceeds(Up[18 - 9], 18)
    BY <1>2, Proceeds10, Proceeds12, Proceeds15, Proceeds16, Proceeds17, ProceedsOthers
  <2> QED BY <1>1, <2>1
<1>6. \A n \in Numbers : Reverts(Down[n - 9], n) \/ n = 10 \/ n = 12 \/ n = 14 \/ n = 18
  <2>1. /\ Reverts(Down[11 - 9], 11) /\ Reverts(Down[13 - 9], 13) /\ Reverts(Down[15 - 9], 15)
        /\ Reverts(Down[16 - 9], 16) /\ Reverts(Down[17 - 9], 17)
    BY <1>3, <1>4
  <2> QED BY <1>1, <2>1
<1>7. /\ Down[10 - 9] = Down10 /\ Down[12 - 9] = Down12
      /\ Down[14 - 9] = Down14 /\ Down[18 - 9] = Down18
  BY <1>3
<1> QED BY <1>5, <1>6, <1>7, Reverts10, Reverts12, Reverts14, Reverts18 DEF Reverts

Copies == [codes : SUBSET Codes, grants : [Roles -> SUBSET Grantable], direct : SUBSET DirectRow]
AccessRows ==
  [codes : SUBSET Codes, legacy : SUBSET LegacyOnly, grants : [Roles -> SUBSET Grantable],
   version : [Roles -> 1..2], direct : SUBSET DirectRow, copy : Copies]

\* Only codes that are defined are granted, in the tables and in their copy.
SoundRows(a) ==
  /\ a \in AccessRows
  /\ \A r \in Roles : a.grants[r] \subseteq a.codes /\ a.copy.grants[r] \subseteq a.copy.codes

LEMMA SoundIs ==
  ASSUME NEW a, SoundRows(a), NEW c \in SUBSET Codes, NEW l \in SUBSET LegacyOnly,
         NEW g \in [Roles -> SUBSET Grantable], NEW v \in [Roles -> 1..2],
         NEW d \in SUBSET DirectRow, \A r \in Roles : g[r] \subseteq c
  PROVE  SoundRows([codes |-> c, legacy |-> l, grants |-> g, version |-> v, direct |-> d,
                copy |-> a.copy])
<1>1. a.copy \in Copies
  BY DEF SoundRows, AccessRows
<1> DEFINE b == [codes |-> c, legacy |-> l, grants |-> g, version |-> v, direct |-> d,
                 copy |-> a.copy]
<1>2. b \in AccessRows
  BY <1>1 DEF AccessRows
<1>3. b.grants = g /\ b.codes = c /\ b.copy = a.copy
  OBVIOUS
<1> HIDE DEF b
<1>4. SoundRows(b)
  BY <1>2, <1>3 DEF SoundRows
<1> QED BY <1>4 DEF b

LEMMA RowIs ==
  ASSUME NEW a, SoundRows(a)
  PROVE  /\ a = [codes |-> a.codes, legacy |-> a.legacy, grants |-> a.grants,
                 version |-> a.version, direct |-> a.direct, copy |-> a.copy]
         /\ a.codes \in SUBSET Codes /\ a.legacy \in SUBSET LegacyOnly
         /\ a.grants \in [Roles -> SUBSET Grantable] /\ a.version \in [Roles -> 1..2]
         /\ a.direct \in SUBSET DirectRow /\ a.copy \in Copies
         /\ \A r \in Roles : a.grants[r] \subseteq a.codes
         /\ \A r \in Roles : a.copy.grants[r] \subseteq a.copy.codes
<1>1. a \in AccessRows
  BY DEF SoundRows
<1>2. /\ a = [codes |-> a.codes, legacy |-> a.legacy, grants |-> a.grants,
              version |-> a.version, direct |-> a.direct, copy |-> a.copy]
      /\ a.codes \in SUBSET Codes /\ a.legacy \in SUBSET LegacyOnly
      /\ a.grants \in [Roles -> SUBSET Grantable] /\ a.version \in [Roles -> 1..2]
      /\ a.direct \in SUBSET DirectRow /\ a.copy \in Copies
  BY <1>1 DEF AccessRows
<1> QED BY <1>2 DEF SoundRows

\* Columns written at once.
LEMMA CodesAndLegacy ==
  ASSUME NEW a, SoundRows(a), NEW c, NEW l, NEW w,
         w = [a EXCEPT !.codes = c, !.legacy = l]
  PROVE  w = [codes |-> c, legacy |-> l, grants |-> a.grants, version |-> a.version,
          direct |-> a.direct, copy |-> a.copy]
<1> DEFINE a1 == [a EXCEPT !.codes = c]
<1>1. w = [a1 EXCEPT !.legacy = l]
  BY Zenon
<1>2. PICK c0, l0, g0, v0, d0, k0 :
        a = [codes |-> c0, legacy |-> l0, grants |-> g0, version |-> v0, direct |-> d0, copy |-> k0]
  BY RowIs
<1>3. /\ a.codes = c0 /\ a.legacy = l0 /\ a.grants = g0 /\ a.version = v0 /\ a.direct = d0
      /\ a.copy = k0
  BY <1>2
<1>4. a1 = [codes |-> c, legacy |-> l0, grants |-> g0, version |-> v0,
           direct |-> d0, copy |-> k0]
  BY <1>2
<1> HIDE DEF a1
<1> QED BY <1>1, <1>3, <1>4

Columns(a, c, g, d) == [a EXCEPT !.codes = c, !.grants = g, !.direct = d]
Emptied(a, c, g, d, l) ==
  [[a EXCEPT !.codes = c, !.grants = g, !.direct = d] EXCEPT !.legacy = l]
GrantsAndVersion(a, g, v) == [a EXCEPT !.grants = g, !.version = v]
Restored(a, c, g, d, v) ==
  [a EXCEPT !.codes = c, !.grants = g, !.direct = d, !.version = v]

LEMMA CodesGrantsDirect ==
  ASSUME NEW a, SoundRows(a), NEW c, NEW g, NEW d, NEW w,
         w = Columns(a, c, g, d)
  PROVE  w = [codes |-> c, legacy |-> a.legacy, grants |-> g, version |-> a.version,
          direct |-> d, copy |-> a.copy]
<1> DEFINE a1 == [a EXCEPT !.codes = c]
           a2 == [a1 EXCEPT !.grants = g]
<1>1. w = [a2 EXCEPT !.direct = d]
  BY Zenon DEF Columns
<1>2. PICK c0, l0, g0, v0, d0, k0 :
        a = [codes |-> c0, legacy |-> l0, grants |-> g0, version |-> v0, direct |-> d0, copy |-> k0]
  BY RowIs
<1>3. /\ a.codes = c0 /\ a.legacy = l0 /\ a.grants = g0 /\ a.version = v0 /\ a.direct = d0
      /\ a.copy = k0
  BY <1>2
<1>4. a1 = [codes |-> c, legacy |-> l0, grants |-> g0, version |-> v0,
           direct |-> d0, copy |-> k0]
  BY <1>2
<1> HIDE DEF a1
<1>5. a2 = [codes |-> c, legacy |-> l0, grants |-> g, version |-> v0,
           direct |-> d0, copy |-> k0]
  BY <1>4
<1> HIDE DEF a2
<1> QED BY <1>1, <1>3, <1>5

LEMMA EmptiedColumns ==
  ASSUME NEW a, SoundRows(a), NEW c, NEW g, NEW d, NEW l, NEW w,
         w = Emptied(a, c, g, d, l)
  PROVE  w = [codes |-> c, legacy |-> l, grants |-> g, version |-> a.version,
          direct |-> d, copy |-> a.copy]
<1> DEFINE a1 == [a EXCEPT !.codes = c]
           a2 == [a1 EXCEPT !.grants = g]
           a3 == [a2 EXCEPT !.direct = d]
<1>1. w = [a3 EXCEPT !.legacy = l]
  BY Zenon DEF Emptied
<1>2. PICK c0, l0, g0, v0, d0, k0 :
        a = [codes |-> c0, legacy |-> l0, grants |-> g0, version |-> v0, direct |-> d0, copy |-> k0]
  BY RowIs
<1>3. /\ a.codes = c0 /\ a.legacy = l0 /\ a.grants = g0 /\ a.version = v0 /\ a.direct = d0
      /\ a.copy = k0
  BY <1>2
<1>4. a1 = [codes |-> c, legacy |-> l0, grants |-> g0, version |-> v0,
           direct |-> d0, copy |-> k0]
  BY <1>2
<1> HIDE DEF a1
<1>5. a2 = [codes |-> c, legacy |-> l0, grants |-> g, version |-> v0,
           direct |-> d0, copy |-> k0]
  BY <1>4
<1> HIDE DEF a2
<1>6. a3 = [codes |-> c, legacy |-> l0, grants |-> g, version |-> v0,
           direct |-> d, copy |-> k0]
  BY <1>5
<1> HIDE DEF a3
<1> QED BY <1>1, <1>3, <1>6

LEMMA RestoredColumns ==
  ASSUME NEW a, SoundRows(a), NEW c, NEW g, NEW d, NEW v, NEW w,
         w = Restored(a, c, g, d, v)
  PROVE  w = [codes |-> c, legacy |-> a.legacy, grants |-> g, version |-> v,
          direct |-> d, copy |-> a.copy]
<1> DEFINE a1 == [a EXCEPT !.codes = c]
           a2 == [a1 EXCEPT !.grants = g]
           a3 == [a2 EXCEPT !.direct = d]
<1>1. w = [a3 EXCEPT !.version = v]
  BY Zenon DEF Restored
<1>2. PICK c0, l0, g0, v0, d0, k0 :
        a = [codes |-> c0, legacy |-> l0, grants |-> g0, version |-> v0, direct |-> d0, copy |-> k0]
  BY RowIs
<1>3. /\ a.codes = c0 /\ a.legacy = l0 /\ a.grants = g0 /\ a.version = v0 /\ a.direct = d0
      /\ a.copy = k0
  BY <1>2
<1>4. a1 = [codes |-> c, legacy |-> l0, grants |-> g0, version |-> v0,
           direct |-> d0, copy |-> k0]
  BY <1>2
<1> HIDE DEF a1
<1>5. a2 = [codes |-> c, legacy |-> l0, grants |-> g, version |-> v0,
           direct |-> d0, copy |-> k0]
  BY <1>4
<1> HIDE DEF a2
<1>6. a3 = [codes |-> c, legacy |-> l0, grants |-> g, version |-> v0,
           direct |-> d, copy |-> k0]
  BY <1>5
<1> HIDE DEF a3
<1> QED BY <1>1, <1>3, <1>6

DroppedTo(a, c, l, g, d) == [a EXCEPT !.codes = c, !.legacy = l, !.grants = g, !.direct = d]

LEMMA DroppedColumns ==
  ASSUME NEW a, SoundRows(a), NEW c, NEW l, NEW g, NEW d, NEW w,
         w = DroppedTo(a, c, l, g, d)
  PROVE  w = [codes |-> c, legacy |-> l, grants |-> g, version |-> a.version,
          direct |-> d, copy |-> a.copy]
<1> DEFINE a1 == [a EXCEPT !.codes = c]
           a2 == [a1 EXCEPT !.legacy = l]
           a3 == [a2 EXCEPT !.grants = g]
<1>1. w = [a3 EXCEPT !.direct = d]
  BY Zenon DEF DroppedTo
<1>2. PICK c0, l0, g0, v0, d0, k0 :
        a = [codes |-> c0, legacy |-> l0, grants |-> g0, version |-> v0, direct |-> d0, copy |-> k0]
  BY RowIs
<1>3. /\ a.codes = c0 /\ a.legacy = l0 /\ a.grants = g0 /\ a.version = v0 /\ a.direct = d0
      /\ a.copy = k0
  BY <1>2
<1>4. a1 = [codes |-> c, legacy |-> l0, grants |-> g0, version |-> v0,
           direct |-> d0, copy |-> k0]
  BY <1>2
<1> HIDE DEF a1
<1>5. a2 = [codes |-> c, legacy |-> l, grants |-> g0, version |-> v0,
           direct |-> d0, copy |-> k0]
  BY <1>4
<1> HIDE DEF a2
<1>6. a3 = [codes |-> c, legacy |-> l, grants |-> g, version |-> v0,
           direct |-> d0, copy |-> k0]
  BY <1>5
<1> HIDE DEF a3
<1> QED BY <1>1, <1>3, <1>6

\* The conversions of migration 12 lead to codes of the new catalogue.
LEMMA Conversions ==
  /\ \A code \in Grantable :
       Aliases(code) \subseteq Canonical /\ DirectTargets(code) \subseteq Canonical
  /\ \A code \in Canonical : code \in Aliases(code) /\ DirectTargets(code) = {code}
  /\ \A code \in LegacyOnly : DirectTargets(code) = Aliases(code)
  /\ OldCodes \subseteq Grantable /\ Canonical \subseteq Grantable /\ Grantable \subseteq Codes
  /\ LegacyOnly = Grantable \ Canonical
  /\ \A r \in Roles : (IF r \in DOMAIN OldRoleMap THEN OldRoleMap[r] ELSE {}) \subseteq OldCodes
  /\ DOMAIN RoleMap = Roles \ {"CUSTOM"} /\ \A r \in DOMAIN RoleMap : RoleMap[r] \subseteq Canonical
<1>1. OldCodes \subseteq Grantable /\ Canonical \subseteq Grantable /\ Grantable \subseteq Codes
  BY DEF Codes, Grantable
<1>2. \A code \in Grantable : Aliases(code) \subseteq Canonical
  BY DEF Grantable, OldCodes, Aliases, Canonical
<1>3. \A code \in Canonical : code \in Aliases(code) /\ DirectTargets(code) = {code}
  BY DEF Canonical, Aliases, DirectTargets
<1>4. LegacyOnly = Grantable \ Canonical
  BY DEF Grantable, LegacyOnly
<1>5. /\ \A code \in LegacyOnly : DirectTargets(code) = Aliases(code)
      /\ \A code \in Grantable : DirectTargets(code) \subseteq Canonical
  BY <1>2, <1>4 DEF DirectTargets
<1>6. \A r \in Roles : (IF r \in DOMAIN OldRoleMap THEN OldRoleMap[r] ELSE {}) \subseteq OldCodes
  BY DEF OldRoleMap, OldCodes, Roles
<1>7. /\ DOMAIN RoleMap = Roles \ {"CUSTOM"}
      /\ \A r \in DOMAIN RoleMap : RoleMap[r] \subseteq Canonical
  BY DEF RoleMap, Canonical, Roles
<1> QED BY <1>1, <1>2, <1>3, <1>4, <1>5, <1>6, <1>7

\* What a conversion makes of the custom role is in the new catalogue, and beside it only
\* old codes remain.
LEMMA CustomMapped ==
  ASSUME NEW held \in SUBSET Grantable
  PROVE  /\ ConservativeCustomRoleMapping(held) \subseteq Canonical
         /\ held \cap Canonical \subseteq ConservativeCustomRoleMapping(held)
<1> DEFINE meant == UNION {Aliases(c) : c \in held}
           beside == IF {"relation.manage", "legislation.approve"} \subseteq held
                     THEN {"relation.review"} ELSE {}
<1>1. meant \subseteq Canonical
  BY Conversions
<1>2. beside \subseteq Canonical
  BY DEF Canonical
<1>3. held \cap Canonical \subseteq meant
  BY Conversions
<1>4. ConservativeCustomRoleMapping(held) = meant \cup beside
  BY DEF ConservativeCustomRoleMapping
<1> HIDE DEF meant, beside
<1> QED BY <1>1, <1>2, <1>3, <1>4

LEMMA DirectKept ==
  ASSUME NEW rows \in SUBSET DirectRow
  PROVE  DirectConverted(rows) \in SUBSET DirectRow
<1> DEFINE counted == {d \in rows : d.effect = "DENY" \/ d.scope = "ALL"}
           targets == UNION {DirectTargets(d.code) : d \in counted}
           Denied(t) == \E d \in rows : d.effect = "DENY" /\ t \in DirectTargets(d.code)
           made == {[code |-> t, scope |-> "ALL",
                     effect |-> IF Denied(t) THEN "DENY" ELSE "ALLOW"] : t \in targets}
<1>1. targets \subseteq Grantable
  <2>1. \A d \in rows : d.code \in Grantable
    BY DEF DirectRow
  <2> QED BY <2>1, Conversions
<1>2. \A t \in Grantable, e \in {"ALLOW", "DENY"} :
        [code |-> t, scope |-> "ALL", effect |-> e] \in DirectRow
  BY DEF DirectRow
<1>3. DirectConverted(rows) = {d \in rows : d.code \notin targets} \cup made
  BY Zenon DEF DirectConverted
<1>4. made \subseteq DirectRow
  BY <1>1, <1>2
<1> QED BY <1>3, <1>4

\* The rows that a statement leaves.
AccessOf(c, l, g, v, d, k) ==
  [codes |-> c, legacy |-> l, grants |-> g, version |-> v, direct |-> d, copy |-> k]
RowsWithout(gone, l) ==
  AccessOf(access.codes \ gone, l, [r \in Roles |-> access.grants[r] \ gone], access.version,
           {d \in access.direct : d.code \notin gone}, access.copy)

LEMMA WrittenIs ==
  ASSUME SoundRows(access), NEW s
  PROVE  LET a == access IN
         /\ s.rows = "define" =>
              Written(s) = AccessOf(a.codes \cup s.arg, a.legacy, a.grants, a.version, a.direct,
                                    a.copy)
         /\ s.rows = "upsert" =>
              Written(s) = AccessOf(a.codes \cup s.arg, a.legacy \ s.arg, a.grants, a.version,
                                    a.direct, a.copy)
         /\ s.rows = "mark" =>
              Written(s) = AccessOf(a.codes, s.arg \cap a.codes, a.grants, a.version, a.direct,
                                    a.copy)
         /\ s.rows = "grant" =>
              Written(s) = AccessOf(a.codes, a.legacy,
                                    [r \in Roles |-> a.grants[r] \cup
                                       (IF r \in DOMAIN s.arg THEN s.arg[r] ELSE {})],
                                    a.version, a.direct, a.copy)
         /\ s.rows = "save" =>
              Written(s) = AccessOf(a.codes, a.legacy, a.grants, a.version, a.direct,
                                    [codes |-> a.codes, grants |-> a.grants, direct |-> a.direct])
         /\ s.rows = "direct" =>
              Written(s) = AccessOf(a.codes, a.legacy, a.grants, a.version,
                                    DirectConverted(a.direct), a.copy)
         /\ s.rows = "convert" /\ s.arg \in DOMAIN RoleMap =>
              Written(s) = AccessOf(a.codes, a.legacy,
                                    [a.grants EXCEPT ![s.arg] =
                                       (a.grants[s.arg] \ Canonical) \cup RoleMap[s.arg]],
                                    [a.version EXCEPT ![s.arg] = 2], a.direct, a.copy)
         /\ s.rows = "convert" /\ s.arg = "CUSTOM" =>
              Written(s) = AccessOf(a.codes, a.legacy,
                                    [a.grants EXCEPT !["CUSTOM"] = a.grants["CUSTOM"] \cup
                                       ConservativeCustomRoleMapping(a.grants["CUSTOM"])],
                                    [a.version EXCEPT !["CUSTOM"] = 2], a.direct, a.copy)
         /\ s.rows = "undefine" => Written(s) = RowsWithout(s.arg, a.legacy)
         /\ s.rows = "empty" => Written(s) = RowsWithout(Codes, {})
         /\ s.rows = "restore" =>
              Written(s) = AccessOf(a.copy.codes, a.legacy, a.copy.grants, [r \in Roles |-> 1],
                                    a.copy.direct, a.copy)
<1>0. PICK c0, l0, g0, v0, d0, k0 : access = AccessOf(c0, l0, g0, v0, d0, k0)
  BY RowIs DEF AccessOf
<1>00. /\ access.codes = c0 /\ access.legacy = l0 /\ access.grants = g0 /\ access.version = v0
       /\ access.direct = d0 /\ access.copy = k0
  BY <1>0 DEF AccessOf
<1>1. ASSUME s.rows = "define"
      PROVE  Written(s) = AccessOf(access.codes \cup s.arg, access.legacy, access.grants,
                                   access.version, access.direct, access.copy)
  <2> DEFINE c == access.codes \cup s.arg
  <2>1. Written(s) = [access EXCEPT !.codes = c]
    BY <1>1 DEF Written
  <2> HIDE DEF c
  <2>2. Written(s) = AccessOf(c, l0, g0, v0, d0, k0)
    BY <2>1, <1>0 DEF AccessOf
  <2> QED BY <2>2, <1>00 DEF c
<1>2. ASSUME s.rows = "upsert"
      PROVE  Written(s) = AccessOf(access.codes \cup s.arg, access.legacy \ s.arg, access.grants,
                                   access.version, access.direct, access.copy)
  <2> DEFINE c == access.codes \cup s.arg
             l == access.legacy \ s.arg
  <2>1. Written(s) = [access EXCEPT !.codes = c, !.legacy = l]
    BY <1>2 DEF Written
  <2> HIDE DEF c, l
  <2>2. Written(s) = [codes |-> c, legacy |-> l, grants |-> access.grants,
                      version |-> access.version, direct |-> access.direct, copy |-> access.copy]
    BY <2>1, CodesAndLegacy
  <2> QED BY <2>2 DEF c, l, AccessOf
<1>3. ASSUME s.rows = "mark"
      PROVE  Written(s) = AccessOf(access.codes, s.arg \cap access.codes, access.grants,
                                   access.version, access.direct, access.copy)
  <2> DEFINE l == s.arg \cap access.codes
  <2>1. Written(s) = [access EXCEPT !.legacy = l]
    BY <1>3 DEF Written
  <2> HIDE DEF l
  <2>2. Written(s) = AccessOf(c0, l, g0, v0, d0, k0)
    BY <2>1, <1>0 DEF AccessOf
  <2> QED BY <2>2, <1>00 DEF l
<1>4. ASSUME s.rows = "grant"
      PROVE  Written(s) = AccessOf(access.codes, access.legacy,
                                   [r \in Roles |-> access.grants[r] \cup
                                      (IF r \in DOMAIN s.arg THEN s.arg[r] ELSE {})],
                                   access.version, access.direct, access.copy)
  <2> DEFINE g == [r \in Roles |-> access.grants[r] \cup
                     (IF r \in DOMAIN s.arg THEN s.arg[r] ELSE {})]
  <2>1. Written(s) = [access EXCEPT !.grants = g]
    BY <1>4 DEF Written, Granted
  <2> HIDE DEF g
  <2>2. Written(s) = AccessOf(c0, l0, g, v0, d0, k0)
    BY <2>1, <1>0 DEF AccessOf
  <2> QED BY <2>2, <1>00 DEF g
<1>5. ASSUME s.rows = "save"
      PROVE  Written(s) = AccessOf(access.codes, access.legacy, access.grants, access.version,
                                   access.direct, [codes |-> access.codes, grants |-> access.grants,
                                                   direct |-> access.direct])
  <2> DEFINE k == [codes |-> access.codes, grants |-> access.grants, direct |-> access.direct]
  <2>1. Written(s) = [access EXCEPT !.copy = k]
    BY <1>5 DEF Written
  <2> HIDE DEF k
  <2>2. Written(s) = AccessOf(c0, l0, g0, v0, d0, k)
    BY <2>1, <1>0 DEF AccessOf
  <2> QED BY <2>2, <1>00 DEF k
<1>6. ASSUME s.rows = "direct"
      PROVE  Written(s) = AccessOf(access.codes, access.legacy, access.grants, access.version,
                                   DirectConverted(access.direct), access.copy)
  <2> DEFINE d == DirectConverted(access.direct)
  <2>1. Written(s) = [access EXCEPT !.direct = d]
    BY <1>6 DEF Written
  <2> HIDE DEF d
  <2>2. Written(s) = AccessOf(c0, l0, g0, v0, d, k0)
    BY <2>1, <1>0 DEF AccessOf
  <2> QED BY <2>2, <1>00 DEF d
<1>7. ASSUME NEW g, NEW v, NEW w, w = GrantsAndVersion(access, g, v)
      PROVE  w = AccessOf(access.codes, access.legacy, g, v, access.direct, access.copy)
  <2> DEFINE a1 == [access EXCEPT !.grants = g]
  <2>1. w = [a1 EXCEPT !.version = v]
    BY <1>7, Zenon DEF GrantsAndVersion
  <2>2. a1 = AccessOf(c0, l0, g, v0, d0, k0)
    BY <1>0 DEF AccessOf
  <2> HIDE DEF a1
  <2>3. w = AccessOf(c0, l0, g, v, d0, k0)
    BY <2>1, <2>2 DEF AccessOf
  <2> QED BY <2>3, <1>00
<1>8. ASSUME s.rows = "convert", s.arg \in DOMAIN RoleMap
      PROVE  Written(s) = AccessOf(access.codes, access.legacy,
                                   [access.grants EXCEPT ![s.arg] =
                                      (access.grants[s.arg] \ Canonical) \cup RoleMap[s.arg]],
                                   [access.version EXCEPT ![s.arg] = 2], access.direct, access.copy)
  <2> DEFINE new == (access.grants[s.arg] \ Canonical) \cup RoleMap[s.arg]
             g == [access.grants EXCEPT ![s.arg] = new]
             v == [access.version EXCEPT ![s.arg] = 2]
  <2>1. Written(s) = GrantsAndVersion(access, g, v)
    BY <1>8, RowIs, Conversions DEF Written, GrantsAndVersion
  <2> HIDE DEF g, v
  <2>2. Written(s) = AccessOf(access.codes, access.legacy, g, v, access.direct, access.copy)
    BY <2>1, <1>7
  <2> QED BY <2>2 DEF g, v
<1>9. ASSUME s.rows = "convert", s.arg = "CUSTOM"
      PROVE  Written(s) = AccessOf(access.codes, access.legacy,
                                   [access.grants EXCEPT !["CUSTOM"] = access.grants["CUSTOM"] \cup
                                      ConservativeCustomRoleMapping(access.grants["CUSTOM"])],
                                   [access.version EXCEPT !["CUSTOM"] = 2],
                                   access.direct, access.copy)
  <2> DEFINE new == access.grants["CUSTOM"] \cup
                      ConservativeCustomRoleMapping(access.grants["CUSTOM"])
  <2>1. s.arg \notin DOMAIN RoleMap /\ "CUSTOM" \in Roles
    BY <1>9, Conversions DEF Roles
  <2> DEFINE g == [access.grants EXCEPT !["CUSTOM"] = new]
             v == [access.version EXCEPT !["CUSTOM"] = 2]
  <2>2. Written(s) = GrantsAndVersion(access, g, v)
    BY <1>9, <2>1, RowIs, Conversions DEF Written, GrantsAndVersion
  <2> HIDE DEF g, v
  <2>3. Written(s) = AccessOf(access.codes, access.legacy, g, v, access.direct, access.copy)
    BY <2>2, <1>7
  <2> QED BY <2>3 DEF g, v
<1>10. ASSUME s.rows = "undefine" PROVE Written(s) = RowsWithout(s.arg, access.legacy)
  <2> DEFINE c == access.codes \ s.arg
             g == [r \in Roles |-> access.grants[r] \ s.arg]
             d == {x \in access.direct : x.code \notin s.arg}
  <2>1. Written(s) = Columns(access, c, g, d)
    BY <1>10 DEF Written, Columns
  <2> HIDE DEF c, g, d
  <2>2. Written(s) = [codes |-> c, legacy |-> access.legacy, grants |-> g,
                      version |-> access.version, direct |-> d, copy |-> access.copy]
    BY <2>1, CodesGrantsDirect
  <2> QED BY <2>2 DEF c, g, d, AccessOf, RowsWithout
<1>11. ASSUME s.rows = "empty" PROVE Written(s) = RowsWithout(Codes, {})
  <2> DEFINE c == access.codes \ Codes
             g == [r \in Roles |-> access.grants[r] \ Codes]
             d == {x \in access.direct : x.code \notin Codes}
             l == {}
  <2>1. Written(s) = Emptied(access, c, g, d, l)
    BY <1>11 DEF Written, Emptied
  <2> HIDE DEF c, g, d, l
  <2>2. Written(s) = [codes |-> c, legacy |-> l, grants |-> g,
                      version |-> access.version, direct |-> d, copy |-> access.copy]
    BY <2>1, EmptiedColumns
  <2> QED BY <2>2 DEF c, g, d, l, AccessOf, RowsWithout
<1>12. ASSUME s.rows = "restore"
       PROVE  Written(s) = AccessOf(access.copy.codes, access.legacy, access.copy.grants,
                                    [r \in Roles |-> 1], access.copy.direct, access.copy)
  <2> DEFINE v == [r \in Roles |-> 1]
             c == access.copy.codes
             g == access.copy.grants
             d == access.copy.direct
  <2>1. Written(s) = Restored(access, c, g, d, v)
    BY <1>12 DEF Written, Restored
  <2> HIDE DEF v, c, g, d
  <2>2. Written(s) = [codes |-> c, legacy |-> access.legacy, grants |-> g, version |-> v,
                      direct |-> d, copy |-> access.copy]
    BY <2>1, RestoredColumns
  <2> QED BY <2>2 DEF v, c, g, d, AccessOf
<1> QED BY <1>1, <1>2, <1>3, <1>4, <1>5, <1>6, <1>8, <1>9, <1>10, <1>11, <1>12

Forward(s) ==
  \/ s.rows \in {"define", "upsert"} /\ s.arg \subseteq Codes
  \/ s.rows = "mark" /\ s.arg = LegacyOnly
  \/ s.rows = "grant" /\ s.arg = OldRoleMap /\ OldCodes \subseteq access.codes
  \/ s.rows \in {"save", "direct"}
  \/ s.rows = "convert" /\ s.arg \in Roles /\ Canonical \subseteq access.codes

LEMMA Column ==
  ASSUME NEW c, NEW l, NEW g, NEW v, NEW d, NEW k
  PROVE  LET b == AccessOf(c, l, g, v, d, k) IN
         /\ b.codes = c /\ b.legacy = l /\ b.grants = g /\ b.version = v /\ b.direct = d
         /\ b.copy = k
BY DEF AccessOf

LEMMA SoundWhen ==
  ASSUME SoundRows(access), NEW c \in SUBSET Codes, NEW l \in SUBSET LegacyOnly,
         NEW g \in [Roles -> SUBSET Grantable], NEW v \in [Roles -> 1..2],
         NEW d \in SUBSET DirectRow, \A r \in Roles : g[r] \subseteq c
  PROVE  SoundRows(AccessOf(c, l, g, v, d, access.copy))
BY SoundIs DEF AccessOf

LEMMA WrittenForward ==
  ASSUME SoundRows(access), NEW s, Forward(s)
  PROVE  /\ SoundRows(Written(s)) /\ access.codes \subseteq Written(s).codes
         /\ s.rows \in {"define", "upsert"} => s.arg \subseteq Written(s).codes
<1>0. /\ access.codes \in SUBSET Codes /\ access.legacy \in SUBSET LegacyOnly
      /\ access.grants \in [Roles -> SUBSET Grantable] /\ access.version \in [Roles -> 1..2]
      /\ access.direct \in SUBSET DirectRow /\ access.copy \in Copies
      /\ \A r \in Roles : access.grants[r] \subseteq access.codes
      /\ \A r \in Roles : access.copy.grants[r] \subseteq access.copy.codes
  BY RowIs
<1>1. CASE s.rows = "define" /\ s.arg \subseteq Codes
  <2> DEFINE c == access.codes \cup s.arg
  <2>1. Written(s) = AccessOf(c, access.legacy, access.grants, access.version, access.direct,
                              access.copy)
    BY <1>1, WrittenIs
  <2>2. c \in SUBSET Codes /\ \A r \in Roles : access.grants[r] \subseteq c
    BY <1>0, <1>1
  <2>3. access.codes \subseteq c /\ s.arg \subseteq c
    OBVIOUS
  <2> HIDE DEF c
  <2> QED BY <1>0, <2>1, <2>2, <2>3, SoundWhen, Column
<1>2. CASE s.rows = "upsert" /\ s.arg \subseteq Codes
  <2> DEFINE c == access.codes \cup s.arg
             l == access.legacy \ s.arg
  <2>1. Written(s) = AccessOf(c, l, access.grants, access.version, access.direct, access.copy)
    BY <1>2, WrittenIs
  <2>2. /\ c \in SUBSET Codes /\ \A r \in Roles : access.grants[r] \subseteq c
        /\ l \in SUBSET LegacyOnly
    BY <1>0, <1>2
  <2>3. access.codes \subseteq c /\ s.arg \subseteq c
    OBVIOUS
  <2> HIDE DEF c, l
  <2> QED BY <1>0, <2>1, <2>2, <2>3, SoundWhen, Column
<1>3. CASE s.rows = "mark" /\ s.arg = LegacyOnly
  <2> DEFINE l == s.arg \cap access.codes
  <2>1. Written(s) = AccessOf(access.codes, l, access.grants, access.version, access.direct,
                              access.copy)
    BY <1>3, WrittenIs
  <2>2. l \in SUBSET LegacyOnly
    BY <1>3
  <2> HIDE DEF l
  <2> QED BY <1>0, <1>3, <2>1, <2>2, SoundWhen, Column
<1>4. CASE s.rows = "grant" /\ s.arg = OldRoleMap /\ OldCodes \subseteq access.codes
  <2> DEFINE g == [r \in Roles |-> access.grants[r] \cup
                     (IF r \in DOMAIN OldRoleMap THEN OldRoleMap[r] ELSE {})]
  <2>1. Written(s) = AccessOf(access.codes, access.legacy, g, access.version, access.direct,
                              access.copy)
    BY <1>4, WrittenIs
  <2>2. \A r \in Roles : g[r] \subseteq access.codes
    BY <1>0, <1>4, Conversions
  <2>3. g \in [Roles -> SUBSET Grantable]
    BY <1>0, Conversions
  <2> HIDE DEF g
  <2> QED BY <1>0, <1>4, <2>1, <2>2, <2>3, SoundWhen, Column
<1>5. CASE s.rows = "save"
  <2> DEFINE k == [codes |-> access.codes, grants |-> access.grants, direct |-> access.direct]
  <2>1. Written(s) = AccessOf(access.codes, access.legacy, access.grants, access.version,
                              access.direct, k)
    BY <1>5, WrittenIs
  <2>2. k \in Copies /\ k.codes = access.codes /\ k.grants = access.grants
    BY <1>0 DEF Copies
  <2> HIDE DEF k
  <2>3. Written(s) \in AccessRows
    BY <1>0, <2>1, <2>2 DEF AccessRows, AccessOf
  <2>4. /\ Written(s).codes = access.codes /\ Written(s).grants = access.grants
        /\ Written(s).copy = k
    BY <2>1, Column
  <2> QED BY <1>0, <1>5, <2>2, <2>3, <2>4 DEF SoundRows
<1>6. CASE s.rows = "direct"
  <2>1. Written(s) = AccessOf(access.codes, access.legacy, access.grants, access.version,
                              DirectConverted(access.direct), access.copy)
    BY <1>6, WrittenIs
  <2>2. DirectConverted(access.direct) \in SUBSET DirectRow
    BY <1>0, DirectKept
  <2> QED BY <1>0, <1>6, <2>1, <2>2, SoundWhen, Column
<1>7. CASE s.rows = "convert" /\ s.arg \in Roles /\ Canonical \subseteq access.codes
  <2>1. ASSUME NEW new \in SUBSET Grantable, new \subseteq access.codes,
               Written(s) = AccessOf(access.codes, access.legacy,
                                     [access.grants EXCEPT ![s.arg] = new],
                                     [access.version EXCEPT ![s.arg] = 2], access.direct,
                                     access.copy)
        PROVE  SoundRows(Written(s)) /\ Written(s).codes = access.codes
    <3> DEFINE g == [access.grants EXCEPT ![s.arg] = new]
               v == [access.version EXCEPT ![s.arg] = 2]
    <3>1. /\ g \in [Roles -> SUBSET Grantable] /\ v \in [Roles -> 1..2]
          /\ \A r \in Roles : g[r] \subseteq access.codes
      BY <1>0, <1>7, <2>1
    <3>2. Written(s) = AccessOf(access.codes, access.legacy, g, v, access.direct, access.copy)
      BY <2>1
    <3> HIDE DEF g, v
    <3> QED BY <1>0, <3>1, <3>2, SoundWhen, Column
  <2>2. CASE s.arg = "CUSTOM"
    <3> DEFINE had == access.grants["CUSTOM"]
               new == had \cup ConservativeCustomRoleMapping(had)
    <3>1. had \in SUBSET Grantable /\ had \subseteq access.codes
      BY <1>0, <1>7, <2>2
    <3>2. ConservativeCustomRoleMapping(had) \subseteq Canonical
      <4> HIDE DEF had
      <4> QED BY <3>1, CustomMapped
    <3>3. new \in SUBSET Grantable /\ new \subseteq access.codes
      BY <1>7, <3>1, <3>2, Conversions
    <3>4. Written(s) = AccessOf(access.codes, access.legacy, [access.grants EXCEPT ![s.arg] = new],
                                [access.version EXCEPT ![s.arg] = 2], access.direct, access.copy)
      BY <1>7, <2>2, WrittenIs
    <3> HIDE DEF new
    <3> QED BY <1>7, <3>3, <3>4, <2>1
  <2>3. CASE s.arg # "CUSTOM"
    <3> DEFINE new == (access.grants[s.arg] \ Canonical) \cup RoleMap[s.arg]
    <3>1. s.arg \in DOMAIN RoleMap
      BY <1>7, <2>3, Conversions
    <3>2. RoleMap[s.arg] \subseteq Canonical
      BY <3>1, Conversions
    <3>3. new \in SUBSET Grantable /\ new \subseteq access.codes
      BY <1>0, <1>7, <3>2, Conversions
    <3>4. Written(s) = AccessOf(access.codes, access.legacy, [access.grants EXCEPT ![s.arg] = new],
                                [access.version EXCEPT ![s.arg] = 2], access.direct, access.copy)
      BY <1>7, <3>1, WrittenIs
    <3> HIDE DEF new
    <3> QED BY <1>7, <3>3, <3>4, <2>1
  <2> QED BY <2>2, <2>3
<1> QED BY <1>1, <1>2, <1>3, <1>4, <1>5, <1>6, <1>7 DEF Forward

LEMMA WrittenBackward ==
  ASSUME SoundRows(access), NEW s, s.rows \in {"undefine", "empty", "restore"}
  PROVE  SoundRows(Written(s))
<1>0. /\ access.codes \in SUBSET Codes /\ access.legacy \in SUBSET LegacyOnly
      /\ access.grants \in [Roles -> SUBSET Grantable] /\ access.version \in [Roles -> 1..2]
      /\ access.direct \in SUBSET DirectRow /\ access.copy \in Copies
      /\ \A r \in Roles : access.grants[r] \subseteq access.codes
      /\ \A r \in Roles : access.copy.grants[r] \subseteq access.copy.codes
  BY RowIs
<1>1. ASSUME NEW gone, NEW l \in SUBSET LegacyOnly
      PROVE  SoundRows(RowsWithout(gone, l))
  <2> DEFINE c == access.codes \ gone
             g == [r \in Roles |-> access.grants[r] \ gone]
             d == {x \in access.direct : x.code \notin gone}
  <2>1. /\ c \in SUBSET Codes /\ g \in [Roles -> SUBSET Grantable] /\ d \in SUBSET DirectRow
        /\ \A r \in Roles : g[r] \subseteq c
    BY <1>0
  <2>2. RowsWithout(gone, l) = AccessOf(c, l, g, access.version, d, access.copy)
    BY DEF RowsWithout
  <2> HIDE DEF c, g, d
  <2> QED BY <1>0, <2>1, <2>2, SoundWhen
<1>2. CASE s.rows = "undefine"
  BY <1>0, <1>1, <1>2, WrittenIs
<1>3. CASE s.rows = "empty"
  <2>1. {} \in SUBSET LegacyOnly
    OBVIOUS
  <2> QED BY <1>1, <1>3, <2>1, WrittenIs
<1>4. CASE s.rows = "restore"
  <2> DEFINE v == [r \in Roles |-> 1]
  <2>1. /\ v \in [Roles -> 1..2] /\ access.copy.codes \in SUBSET Codes
        /\ access.copy.grants \in [Roles -> SUBSET Grantable]
        /\ access.copy.direct \in SUBSET DirectRow
    BY <1>0 DEF Copies
  <2>2. Written(s) = AccessOf(access.copy.codes, access.legacy, access.copy.grants, v,
                              access.copy.direct, access.copy)
    BY <1>4, WrittenIs
  <2> HIDE DEF v
  <2> QED BY <1>0, <2>1, <2>2, SoundWhen
<1> QED BY <1>2, <1>3, <1>4

\* The tables whose rows go when they are dropped.
GrantTables ==
  {"permission_definitions", "role_permissions", "user_permission_overrides"} \X {"table"}

LEMMA DroppedIs ==
  ASSUME SoundRows(access), NEW gone
  PROVE  SoundRows(Dropped(gone)) /\ (gone \cap GrantTables = {} => Dropped(gone) = access)
<1> DEFINE Left(rows, tables) == IF gone \cap (tables \X {"table"}) = {} THEN rows ELSE {}
           definitions == {"permission_definitions"}
           c == Left(access.codes, definitions)
           l == Left(access.legacy, definitions)
           g == [r \in Roles |-> Left(access.grants[r], definitions \cup {"role_permissions"})]
           d == Left(access.direct, definitions \cup {"user_permission_overrides"})
<1>0. /\ access.codes \in SUBSET Codes /\ access.legacy \in SUBSET LegacyOnly
      /\ access.grants \in [Roles -> SUBSET Grantable] /\ access.version \in [Roles -> 1..2]
      /\ access.direct \in SUBSET DirectRow
      /\ \A r \in Roles : access.grants[r] \subseteq access.codes
  BY RowIs
<1>1. Dropped(gone) = DroppedTo(access, c, l, g, d)
  BY DEF Dropped, DroppedTo
<1>2. /\ c \in SUBSET Codes /\ l \in SUBSET LegacyOnly /\ d \in SUBSET DirectRow
      /\ g \in [Roles -> SUBSET Grantable]
  BY <1>0
<1>3. \A r \in Roles : g[r] \subseteq c
  <2>1. definitions \X {"table"} \subseteq (definitions \cup {"role_permissions"}) \X {"table"}
    OBVIOUS
  <2> QED BY <1>0, <2>1
<1>4. gone \cap GrantTables = {} =>
        c = access.codes /\ l = access.legacy /\ d = access.direct /\ g = access.grants
  <2>1. HAVE gone \cap GrantTables = {}
  <2>2. /\ gone \cap (definitions \X {"table"}) = {}
        /\ gone \cap ((definitions \cup {"role_permissions"}) \X {"table"}) = {}
        /\ gone \cap ((definitions \cup {"user_permission_overrides"}) \X {"table"}) = {}
    BY <2>1 DEF GrantTables
  <2>3. g = [r \in Roles |-> access.grants[r]]
    BY <2>2
  <2> QED BY <1>0, <2>2, <2>3
<1> HIDE DEF c, l, g, d
<1>5. Dropped(gone) = AccessOf(c, l, g, access.version, d, access.copy)
  BY <1>1, DroppedColumns DEF AccessOf
<1>6. access = AccessOf(access.codes, access.legacy, access.grants, access.version, access.direct,
                        access.copy)
  BY RowIs DEF AccessOf
<1> QED BY <1>0, <1>2, <1>3, <1>4, <1>5, <1>6, SoundWhen

\* What holds of the schema and its rows after every step of the runner.
RunnerRow ==
  \/ runner = [way |-> "idle"]
  \/ /\ runner = [way |-> runner.way, number |-> runner.number, at |-> runner.at,
                  open |-> runner.open, saved |-> runner.saved, found |-> runner.found]
     /\ runner.way \in {"up", "down"} /\ runner.number \in Numbers
     /\ runner.at \in 1..(Len(Script) + 1)
     /\ runner.open \in BOOLEAN /\ SoundRows(runner.saved)

SchemaRows ==
  /\ facts \subseteq Before10 \cup Reached(18)
  /\ SoundRows(access)
  /\ recorded \subseteq Numbers /\ \A n \in recorded : 10..n \subseteq recorded
  /\ broken \subseteq {"up", "down"} \X Numbers
  /\ used \subseteq Uses
  /\ RunnerRow

\* Forwards, the migrations before are recorded, and the codes that are granted later
\* in the script are defined.
Ascending ==
  runner.way = "up" =>
    /\ 10..(runner.number - 1) \subseteq recorded
    /\ \A j \in 1..(runner.at - 1) :
         /\ Script[j] = Write("define", OldCodes) => OldCodes \subseteq access.codes
         /\ Script[j] = Write("upsert", Canonical) => Canonical \subseteq access.codes

\* Backwards, it is the last one; no statement passed had a reason to refuse, and until
\* the first that commits, or that writes, everything is as it was found.
Descending ==
  runner.way = "down" =>
    /\ runner.number \in recorded /\ \A m \in recorded : m <= runner.number
    /\ \A j \in 1..(runner.at - 1) : Script[j].refusedBy \cap used = {}
    /\ (\A j \in 1..(runner.at - 1) : Script[j].kind # "ddl") =>
         facts = runner.found /\ runner.open = TRUE
    /\ (\A j \in 1..(runner.at - 1) : Script[j].kind \notin {"ddl", "dml"}) =>
         access = runner.saved

MigrationInv == SchemaRows /\ Ascending /\ Descending

LEMMA AddsReached ==
  \A n \in Numbers : \A i \in DOMAIN Up[n - 9] :
    Up[n - 9][i].kind = "ddl" => Up[n - 9][i].add \subseteq Reached(18)
<1>1. TAKE n \in Numbers
<1>2. TAKE i \in DOMAIN Up[n - 9]
<1>3. HAVE Up[n - 9][i].kind = "ddl"
<1> DEFINE all(m) ==
             UNION {Up[m - 9][k].add : k \in {j \in DOMAIN Up[m - 9] : Up[m - 9][j].kind = "ddl"}}
<1>4. Up[n - 9][i].add \subseteq all(n)
  BY <1>3
<1>5. n \in 10..18
  BY DEF Numbers
<1>6. Reached(18) = UNION {all(m) : m \in 10..18}
  BY Zenon DEF Reached
<1> HIDE DEF all
<1> QED BY <1>4, <1>5, <1>6

LEMMA Runs ==
  ASSUME SchemaRows, Running
  PROVE  /\ runner = [way |-> runner.way, number |-> runner.number, at |-> runner.at,
                      open |-> runner.open, saved |-> runner.saved, found |-> runner.found]
         /\ runner.way \in {"up", "down"} /\ runner.number \in Numbers
         /\ runner.at \in 1..(Len(Script) + 1)
         /\ runner.open \in BOOLEAN /\ SoundRows(runner.saved)
         /\ List(Script)
         /\ runner.way = "up" =>
              /\ Script = Up[runner.number - 9]
              /\ WritesForward(Script) /\ Adds(Script, runner.number)
              /\ Defines(Script, runner.number)
              /\ \A i \in DOMAIN Script :
                   Script[i].kind = "ddl" => Script[i].add \subseteq Reached(18)
         /\ runner.way = "down" =>
              /\ Script = Down[runner.number - 9]
              /\ WritesBackward(Script) /\ TakesBack(Script, runner.number)
              /\ Undefines(Script, runner.number)
              /\ runner.number \notin {10, 12, 14} => AsksFirst(Script)
              /\ runner.number # 18 => RefusesEarly(Script)
<1>1. runner # [way |-> "idle"]
  BY DEF Running
<1>2. /\ runner = [way |-> runner.way, number |-> runner.number, at |-> runner.at,
                   open |-> runner.open, saved |-> runner.saved, found |-> runner.found]
      /\ runner.way \in {"up", "down"} /\ runner.number \in Numbers
      /\ runner.at \in 1..(Len(Script) + 1)
      /\ runner.open \in BOOLEAN /\ SoundRows(runner.saved)
  BY <1>1 DEF SchemaRows, RunnerRow
<1>3. CASE runner.way = "up"
  <2>1. Script = Up[runner.number - 9]
    BY <1>3 DEF Script
  <2>2. /\ List(Script) /\ WritesForward(Script) /\ Adds(Script, runner.number)
        /\ Defines(Script, runner.number)
    BY <1>2, <2>1, ScriptsAre DEF Proceeds
  <2>3. \A i \in DOMAIN Script : Script[i].kind = "ddl" => Script[i].add \subseteq Reached(18)
    BY <1>2, <2>1, AddsReached
  <2> QED BY <1>2, <1>3, <2>1, <2>2, <2>3
<1>4. CASE runner.way = "down"
  <2>1. Script = Down[runner.number - 9]
    BY <1>4 DEF Script
  <2> QED BY <1>2, <1>4, <2>1, ScriptsAre DEF TurnsBack
<1> QED BY <1>2, <1>3, <1>4

LEMMA Executes ==
  ASSUME SchemaRows, Execute
  PROVE  /\ runner' = [way |-> runner.way, number |-> runner.number, at |-> runner.at + 1,
                       open |-> (runner.open /\ Statement.kind # "ddl"),
                       saved |-> runner.saved, found |-> runner.found]
         /\ Running /\ runner.at \in Nat /\ runner.at \in DOMAIN Script
         /\ Script' = Script /\ runner'.at \in 1..(Len(Script) + 1)
         /\ Statement = Script[runner.at] /\ ~Fails(Statement)
         /\ UNCHANGED <<recorded, broken>>
         /\ \/ /\ Statement.kind = "ddl" /\ access' = Dropped(Statement.drop)
               /\ facts' = (facts \ Statement.drop) \cup Statement.add
               /\ used' = used \ Forgotten(Statement.drop)
            \/ /\ Statement.kind = "dml" /\ access' = Written(Statement)
               /\ facts' = facts /\ used' = used
            \/ /\ Statement.kind = "look" /\ facts' = facts /\ used' = used /\ access' = access
<1>1. Here /\ Running
  BY DEF Execute, Here
<1> DEFINE o == runner.open /\ Statement.kind # "ddl"
           one == [runner EXCEPT !.at = runner.at + 1]
<1>2. runner' = [runner EXCEPT !.at = @ + 1, !.open = @ /\ Statement.kind # "ddl"]
  BY DEF Execute
<1>3. runner' = [one EXCEPT !.open = o]
  BY <1>2, Zenon
<1>4. PICK w, n, i, p, a, f :
        runner = [way |-> w, number |-> n, at |-> i, open |-> p, saved |-> a, found |-> f]
  BY <1>1, Runs
<1>5. /\ runner.way = w /\ runner.number = n /\ runner.at = i /\ runner.open = p
      /\ runner.saved = a /\ runner.found = f
  BY <1>4
<1> HIDE DEF o
<1>6. one = [way |-> w, number |-> n, at |-> i + 1, open |-> p, saved |-> a, found |-> f]
  BY <1>4
<1> HIDE DEF one
<1>7. runner' = [way |-> w, number |-> n, at |-> i + 1, open |-> o, saved |-> a, found |-> f]
  BY <1>3, <1>6
<1>8. runner'.way = runner.way /\ runner'.number = runner.number /\ runner'.at = runner.at + 1
  BY <1>5, <1>7
<1>9. Script' = Script
  BY <1>8 DEF Script
<1>10. PICK k \in Nat : DOMAIN Script = 1..k /\ Len(Script) = k
  BY <1>1, Runs DEF List
<1>11. runner.at \in 1..k
  BY <1>1, <1>10 DEF Here
<1>12. runner.at \in Nat /\ runner'.at \in 1..(k + 1)
  BY <1>8, <1>11
<1>13. /\ Statement = Script[runner.at] /\ ~Fails(Statement) /\ UNCHANGED <<recorded, broken>>
       /\ \/ /\ Statement.kind = "ddl" /\ access' = Dropped(Statement.drop)
             /\ facts' = (facts \ Statement.drop) \cup Statement.add
             /\ used' = used \ Forgotten(Statement.drop)
          \/ /\ Statement.kind = "dml" /\ access' = Written(Statement)
             /\ facts' = facts /\ used' = used
          \/ /\ Statement.kind = "look" /\ facts' = facts /\ used' = used /\ access' = access
  BY DEF Execute, Statement
<1> QED BY <1>1, <1>5, <1>7, <1>9, <1>10, <1>11, <1>12, <1>13 DEF o

LEMMA WriteIs ==
  \A r, x : /\ Write(r, x).kind = "dml" /\ Write(r, x).rows = r /\ Write(r, x).arg = x
BY DEF Write

LEMMA NoGrantsLost == \A n : Lost(n) \cap GrantTables = {}
<1>1. GrantTables \cap Before10 = {}
  BY DEF GrantTables, Before10, OldHash
<1> QED BY <1>1, LostIs

LEMMA ExecuteForward ==
  ASSUME MigrationInv, Execute, runner.way = "up"
  PROVE  /\ facts' \subseteq Before10 \cup Reached(18) /\ SoundRows(access') /\ Ascending'
         /\ access.codes \subseteq access'.codes
<1> USE DEF MigrationInv
<1>1. /\ runner' = [way |-> runner.way, number |-> runner.number, at |-> runner.at + 1,
                    open |-> (runner.open /\ Statement.kind # "ddl"),
                    saved |-> runner.saved, found |-> runner.found]
      /\ Running /\ runner.at \in Nat /\ runner.at \in DOMAIN Script /\ Script' = Script
  BY Executes
<1>2. /\ WritesForward(Script) /\ Adds(Script, runner.number)
      /\ \A i \in DOMAIN Script : Script[i].kind = "ddl" => Script[i].add \subseteq Reached(18)
  BY <1>1, Runs
<1>3. Statement = Script[runner.at] /\ recorded' = recorded
  BY Executes
<1>4. facts' \subseteq Before10 \cup Reached(18)
  <2>1. CASE Statement.kind = "ddl"
    <3>1. facts' = (facts \ Statement.drop) \cup Statement.add
      BY <2>1, Executes
    <3> QED BY <2>1, <3>1, <1>1, <1>2, <1>3 DEF SchemaRows
  <2>2. CASE Statement.kind # "ddl"
    BY <2>2, Executes DEF SchemaRows
  <2> QED BY <2>1, <2>2
<1>5. /\ SoundRows(access') /\ access.codes \subseteq access'.codes
      /\ Statement.kind = "dml" /\ Statement.rows \in {"define", "upsert"} =>
           Statement.arg \subseteq access'.codes
  <2>0. SoundRows(access)
    BY DEF SchemaRows
  <2>1. CASE Statement.kind = "dml"
    <3>1. access' = Written(Statement)
      BY <2>1, Executes
    <3>2. Forward(Statement)
      <4>1. CASE Statement.rows = "grant"
        <5>1. /\ Statement.arg = OldRoleMap
              /\ \E j \in 1..(runner.at - 1) : Script[j] = Write("define", OldCodes)
          BY <1>1, <1>2, <1>3, <2>1, <4>1 DEF WritesForward
        <5>2. OldCodes \subseteq access.codes
          BY <5>1 DEF Ascending
        <5> QED BY <4>1, <5>1, <5>2 DEF Forward
      <4>2. CASE Statement.rows = "convert"
        <5>1. /\ Statement.arg \in Roles
              /\ \E j \in 1..(runner.at - 1) : Script[j] = Write("upsert", Canonical)
          BY <1>1, <1>2, <1>3, <2>1, <4>2 DEF WritesForward
        <5>2. Canonical \subseteq access.codes
          BY <5>1 DEF Ascending
        <5> QED BY <4>2, <5>1, <5>2 DEF Forward
      <4>3. CASE Statement.rows \notin {"grant", "convert"}
        BY <1>1, <1>2, <1>3, <2>1, <4>3 DEF WritesForward, Forward
      <4> QED BY <4>1, <4>2, <4>3
    <3> QED BY <2>0, <3>1, <3>2, WrittenForward
  <2>2. CASE Statement.kind = "ddl"
    <3>1. access' = Dropped(Statement.drop)
      BY <2>2, Executes
    <3>2. Statement.drop \cap GrantTables = {}
      BY <1>1, <1>2, <1>3, <2>2, NoGrantsLost DEF Adds
    <3>3. access' = access
      BY <2>0, <3>1, <3>2, DroppedIs
    <3> QED BY <2>0, <2>2, <3>3
  <2>3. CASE Statement.kind = "look"
    BY <2>0, <2>3, Executes
  <2> QED BY <2>1, <2>2, <2>3, Executes
<1>6. Ascending'
  <2>1. runner'.number = runner.number /\ runner'.at = runner.at + 1
    BY <1>1
  <2>2. 10..(runner'.number - 1) \subseteq recorded'
    BY <1>3, <2>1 DEF Ascending
  <2>3. ASSUME NEW j \in 1..(runner'.at - 1)
        PROVE  /\ Script'[j] = Write("define", OldCodes) => OldCodes \subseteq access'.codes
               /\ Script'[j] = Write("upsert", Canonical) => Canonical \subseteq access'.codes
    <3>1. CASE j = runner.at
      BY <1>1, <1>3, <1>5, <3>1, WriteIs
    <3>2. CASE j # runner.at
      <4>1. j \in 1..(runner.at - 1)
        BY <1>1, <2>1, <2>3, <3>2
      <4> QED BY <1>1, <1>5, <4>1 DEF Ascending
    <3> QED BY <3>1, <3>2
  <2> QED BY <2>2, <2>3 DEF Ascending
<1> QED BY <1>4, <1>5, <1>6

LEMMA ExecuteBackward ==
  ASSUME MigrationInv, Execute, runner.way = "down"
  PROVE  /\ facts' \subseteq Before10 \cup Reached(18) /\ SoundRows(access') /\ Descending'
<1> USE DEF MigrationInv
<1>1. /\ runner' = [way |-> runner.way, number |-> runner.number, at |-> runner.at + 1,
                    open |-> (runner.open /\ Statement.kind # "ddl"),
                    saved |-> runner.saved, found |-> runner.found]
      /\ Running /\ runner.at \in Nat /\ runner.at \in DOMAIN Script /\ Script' = Script
  BY Executes
<1>2. WritesBackward(Script) /\ TakesBack(Script, runner.number)
  BY <1>1, Runs
<1>3. Statement = Script[runner.at] /\ recorded' = recorded /\ ~Fails(Statement)
  BY Executes
<1>4. facts' \subseteq Before10 \cup Reached(18)
  <2>1. CASE Statement.kind = "ddl"
    <3>1. facts' = (facts \ Statement.drop) \cup Statement.add
      BY <2>1, Executes
    <3> QED BY <2>1, <3>1, <1>1, <1>2, <1>3, LostIs DEF SchemaRows, TakesBack
  <2>2. CASE Statement.kind # "ddl"
    BY <2>2, Executes DEF SchemaRows
  <2> QED BY <2>1, <2>2
<1>5. SoundRows(access')
  <2>0. SoundRows(access)
    BY DEF SchemaRows
  <2>1. CASE Statement.kind = "dml"
    <3>1. access' = Written(Statement)
      BY <2>1, Executes
    <3>2. Statement.rows \in {"undefine", "empty", "restore"}
      BY <1>1, <1>2, <1>3, <2>1 DEF WritesBackward
    <3> QED BY <2>0, <3>1, <3>2, WrittenBackward
  <2>2. CASE Statement.kind = "ddl"
    BY <2>0, <2>2, Executes, DroppedIs
  <2>3. CASE Statement.kind = "look"
    BY <2>0, <2>3, Executes
  <2> QED BY <2>1, <2>2, <2>3, Executes
<1>6. Descending'
  <2>1. /\ runner'.number = runner.number /\ runner'.at = runner.at + 1
        /\ runner'.saved = runner.saved /\ runner'.found = runner.found
        /\ runner'.open = (runner.open /\ Statement.kind # "ddl")
    BY <1>1
  <2>2. runner'.number \in recorded' /\ \A m \in recorded' : m <= runner'.number
    BY <1>3, <2>1 DEF Descending
  <2>3. used' \subseteq used
    BY Executes
  <2>4. \A j \in 1..(runner'.at - 1) : j = runner.at \/ j \in 1..(runner.at - 1)
    BY <1>1, <2>1
  <2>5. runner.at \in 1..(runner'.at - 1) /\ 1..(runner.at - 1) \subseteq 1..(runner'.at - 1)
    <3>1. runner.at >= 1
      <4>1. PICK k \in Nat : DOMAIN Script = 1..k
        BY <1>1, Runs DEF List
      <4> QED BY <1>1, <4>1
    <3> QED BY <1>1, <2>1, <3>1
  <2>6. \A j \in 1..(runner'.at - 1) : Script'[j].refusedBy \cap used' = {}
    <3>1. Statement.refusedBy \cap used = {}
      BY <1>3 DEF Fails
    <3> QED BY <1>1, <1>3, <2>3, <2>4, <3>1 DEF Descending
  <2>7. (\A j \in 1..(runner'.at - 1) : Script'[j].kind # "ddl") =>
           facts' = runner'.found /\ runner'.open = TRUE
    <3>1. HAVE \A j \in 1..(runner'.at - 1) : Script'[j].kind # "ddl"
    <3>2. Statement.kind # "ddl" /\ \A j \in 1..(runner.at - 1) : Script[j].kind # "ddl"
      BY <1>1, <1>3, <2>5, <3>1
    <3>3. facts = runner.found /\ runner.open = TRUE
      BY <3>2 DEF Descending
    <3>4. facts' = facts
      BY <3>2, Executes
    <3> QED BY <2>1, <3>2, <3>3, <3>4
  <2>8. (\A j \in 1..(runner'.at - 1) : Script'[j].kind \notin {"ddl", "dml"}) =>
           access' = runner'.saved
    <3>1. HAVE \A j \in 1..(runner'.at - 1) : Script'[j].kind \notin {"ddl", "dml"}
    <3>2. /\ Statement.kind \notin {"ddl", "dml"}
          /\ \A j \in 1..(runner.at - 1) : Script[j].kind \notin {"ddl", "dml"}
      BY <1>1, <1>3, <2>5, <3>1
    <3>3. access = runner.saved
      BY <3>2 DEF Descending
    <3>4. access' = access
      BY <3>2, Executes
    <3> QED BY <2>1, <3>3, <3>4
  <2> QED BY <2>2, <2>6, <2>7, <2>8 DEF Descending
<1> QED BY <1>4, <1>5, <1>6

LEMMA ExecuteKeeps ==
  ASSUME MigrationInv, Execute
  PROVE  MigrationInv'
<1> USE DEF MigrationInv
<1>1. /\ runner' = [way |-> runner.way, number |-> runner.number, at |-> runner.at + 1,
                    open |-> (runner.open /\ Statement.kind # "ddl"),
                    saved |-> runner.saved, found |-> runner.found]
      /\ Running /\ Script' = Script /\ runner'.at \in 1..(Len(Script) + 1)
  BY Executes
<1>2. runner.way \in {"up", "down"} /\ runner.number \in Numbers /\ SoundRows(runner.saved)
  BY <1>1, Runs
<1>3. RunnerRow'
  <2>1. /\ runner'.way = runner.way /\ runner'.number = runner.number
        /\ runner'.saved = runner.saved
        /\ runner'.open = (runner.open /\ Statement.kind # "ddl")
    BY <1>1
  <2>2. runner' = [way |-> runner'.way, number |-> runner'.number, at |-> runner'.at,
                   open |-> runner'.open, saved |-> runner'.saved, found |-> runner'.found]
    BY <1>1
  <2>3. runner'.open \in BOOLEAN
    BY <2>1
  <2>4. SoundRows(runner.saved)' 
    BY <1>2, <2>1 DEF SoundRows
  <2> QED BY <1>1, <1>2, <2>1, <2>2, <2>3, <2>4 DEF RunnerRow
<1>4. /\ recorded' \subseteq Numbers /\ \A n \in recorded' : 10..n \subseteq recorded'
      /\ broken' \subseteq {"up", "down"} \X Numbers
      /\ used' \subseteq Uses
  BY Executes DEF SchemaRows
<1>5. runner'.way = runner.way
  BY <1>1
<1>6. CASE runner.way = "up"
  BY <1>3, <1>4, <1>5, <1>6, ExecuteForward DEF SchemaRows, Descending
<1>7. CASE runner.way = "down"
  BY <1>3, <1>4, <1>5, <1>7, ExecuteBackward DEF SchemaRows, Ascending
<1> QED BY <1>2, <1>6, <1>7

\* The runner stops, and what is open is rolled back.
LEMMA RollBackKeeps ==
  ASSUME MigrationInv, Running, NEW o, RollBack(o)
  PROVE  MigrationInv'
<1> USE DEF MigrationInv
<1>1. runner' = [way |-> "idle"] /\ facts' = facts /\ recorded' = recorded /\ used' = used
  BY DEF RollBack
<1>2. runner'.way = "idle"
  BY <1>1
<1>3. SoundRows(access')
  <2>1. SoundRows(runner.saved) /\ SoundRows(access)
    BY Runs DEF SchemaRows
  <2> QED BY <2>1 DEF RollBack
<1>4. broken' \subseteq {"up", "down"} \X Numbers
  BY Runs DEF RollBack, SchemaRows
<1>5. RunnerRow'
  BY <1>1 DEF RunnerRow
<1> QED BY <1>1, <1>2, <1>3, <1>4, <1>5 DEF SchemaRows, Ascending, Descending

LEMMA NotedKeeps ==
  ASSUME MigrationInv, Noted
  PROVE  MigrationInv'
<1> USE DEF MigrationInv
<1>1. /\ runner' = [way |-> "idle"] /\ UNCHANGED <<facts, access, broken, used>>
      /\ Running
  BY DEF Noted
<1>2. runner'.way = "idle"
  BY <1>1
<1>3. RunnerRow'
  BY <1>1 DEF RunnerRow
<1>4. runner.way \in {"up", "down"} /\ runner.number \in Numbers
  BY <1>1, Runs
<1>5. recorded' \subseteq Numbers /\ \A n \in recorded' : 10..n \subseteq recorded'
  <2>1. recorded \subseteq Numbers /\ \A n \in recorded : 10..n \subseteq recorded
    BY DEF SchemaRows
  <2>2. CASE runner.way = "up"
    <3>1. recorded' = recorded \cup {runner.number} /\ 10..(runner.number - 1) \subseteq recorded
      BY <2>2 DEF Noted, Ascending
    <3>2. 10..runner.number \subseteq (10..(runner.number - 1)) \cup {runner.number}
      BY <1>4 DEF Numbers
    <3> QED BY <1>4, <2>1, <3>1, <3>2
  <2>3. CASE runner.way = "down"
    <3>1. recorded' = recorded \ {runner.number} /\ \A m \in recorded : m <= runner.number
      BY <2>3 DEF Noted, Descending
    <3>2. \A n \in recorded' : n < runner.number
      BY <1>4, <2>1, <3>1 DEF Numbers
    <3>3. \A n \in recorded' : runner.number \notin 10..n
      BY <1>4, <2>1, <3>1, <3>2 DEF Numbers
    <3> QED BY <2>1, <3>1, <3>3
  <2> QED BY <1>4, <2>2, <2>3
<1>6. SchemaRows'
  <2>1. SoundRows(access)'
    BY <1>1 DEF SchemaRows, SoundRows
  <2> QED BY <1>1, <1>3, <1>5, <2>1 DEF SchemaRows
<1> QED BY <1>2, <1>6 DEF Ascending, Descending

LEMMA GreatestIs ==
  ASSUME NEW n \in Nat, NEW S, S \subseteq 0..n, S # {}
  PROVE  \E m \in S : \A k \in S : k <= m
<1> DEFINE T == {n - k : k \in S}
<1>1. T \subseteq Nat /\ T # {}
  <2>1. \A k \in S : n - k \in Nat /\ n - k \in T
    OBVIOUS
  <2> QED BY <2>1
<1>2. PICK t \in T : \A k \in T : t <= k
  <2> HIDE DEF T
  <2> QED BY <1>1, LeastIs
<1>3. PICK m \in S : t = n - m
  OBVIOUS
<1>4. ASSUME NEW k \in S PROVE k <= m
  <2>1. t <= n - k
    BY <1>2
  <2>2. k \in 0..n /\ m \in 0..n
    OBVIOUS
  <2> QED BY <2>1, <2>2, <1>3
<1> QED BY <1>4

\* A migration is begun, forwards or backwards.
LEMMA Begins ==
  ASSUME MigrationInv, NEW way \in {"up", "down"}, NEW number \in Numbers, Begun(way, number),
         UNCHANGED <<facts, access, recorded, broken, used>>,
         way = "up" => 10..(number - 1) \subseteq recorded,
         way = "down" => number \in recorded /\ \A m \in recorded : m <= number
  PROVE  MigrationInv'
<1> USE DEF MigrationInv
<1>1. runner' = [way |-> way, number |-> number, at |-> 1, open |-> TRUE,
                 saved |-> access, found |-> facts]
  BY DEF Begun
<1>2. /\ runner'.way = way /\ runner'.number = number /\ runner'.at = 1 /\ runner'.open = TRUE
      /\ runner'.saved = access /\ runner'.found = facts
  BY <1>1
<1>3. Script' = (IF way = "up" THEN Up ELSE Down)[number - 9]
  BY <1>2 DEF Script
<1>4. Len(Script') \in Nat
  <2>1. List(Script')
    BY <1>3, ScriptsAre DEF Proceeds, TurnsBack
  <2> QED BY <2>1 DEF List
<1>5. SoundRows(access)
  BY DEF SchemaRows
<1>6. RunnerRow'
  <2>1. SoundRows(runner.saved)'
    BY <1>2, <1>5 DEF SoundRows
  <2>2. runner' = [way |-> runner'.way, number |-> runner'.number, at |-> runner'.at,
                   open |-> runner'.open, saved |-> runner'.saved, found |-> runner'.found]
    BY <1>1, <1>2
  <2>3. runner'.at \in 1..(Len(Script') + 1)
    BY <1>2, <1>4
  <2> QED BY <1>2, <2>1, <2>2, <2>3 DEF RunnerRow
<1>7. SchemaRows'
  <2>1. SoundRows(access)'
    BY <1>5 DEF SoundRows
  <2> QED BY <1>6, <2>1 DEF SchemaRows
<1>8. \A j \in 1..(runner'.at - 1) : FALSE
  BY <1>2
<1>9. Ascending'
  BY <1>2, <1>8 DEF Ascending
<1>10. Descending'
  BY <1>2, <1>8 DEF Descending
<1> QED BY <1>7, <1>9, <1>10

\* Forwards the first migration that is not recorded is next, backwards the last recorded.
LEMMA NextUp ==
  ASSUME MigrationInv, BeginUp
  PROVE  /\ runner.way = "idle" /\ UNCHANGED <<facts, access, recorded, broken, used>>
         /\ \E number \in Numbers \ recorded :
              Begun("up", number) /\ 10..(number - 1) \subseteq recorded
<1> DEFINE left == Numbers \ recorded
           number == CHOOSE n \in left : \A m \in left : n <= m
<1>1. recorded \subseteq Numbers
  BY DEF MigrationInv, SchemaRows
<1>2. left \subseteq Nat /\ left # {}
  <2>1. recorded # Numbers
    BY DEF BeginUp
  <2>2. Numbers \subseteq Nat
    BY DEF Numbers
  <2> QED BY <1>1, <2>1, <2>2
<1>3. \E n \in left : \A m \in left : n <= m
  <2> HIDE DEF left
  <2> QED BY <1>2, LeastIs
<1>4. number \in left /\ \A m \in left : number <= m
  <2> HIDE DEF left
  <2> QED BY <1>3
<1>5. Begun("up", number) /\ UNCHANGED <<facts, access, recorded, broken, used>>
  BY DEF BeginUp
<1> HIDE DEF number
<1>6. 10..(number - 1) \subseteq recorded
  <2>1. SUFFICES ASSUME NEW m \in 10..(number - 1), m \notin recorded PROVE FALSE
    OBVIOUS
  <2>2. m \in left
    BY <1>4, <2>1 DEF Numbers
  <2> QED BY <1>2, <1>4, <2>1, <2>2
<1> QED BY <1>4, <1>5, <1>6 DEF BeginUp

LEMMA NextDown ==
  ASSUME MigrationInv, BeginDown
  PROVE  /\ runner.way = "idle" /\ UNCHANGED <<facts, access, recorded, broken, used>>
         /\ \E number \in recorded :
              number \in Numbers /\ Begun("down", number) /\ \A m \in recorded : m <= number
<1> DEFINE number == CHOOSE n \in recorded : \A m \in recorded : m <= n
<1>1. recorded \subseteq Numbers
  BY DEF MigrationInv, SchemaRows
<1>2. recorded \subseteq 0..18 /\ recorded # {}
  BY <1>1 DEF BeginDown, Numbers
<1>3. \E n \in recorded : \A m \in recorded : m <= n
  BY <1>2, GreatestIs
<1>4. number \in recorded /\ \A m \in recorded : m <= number
  BY <1>3
<1>5. Begun("down", number) /\ UNCHANGED <<facts, access, recorded, broken, used>>
  BY DEF BeginDown
<1> HIDE DEF number
<1> QED BY <1>1, <1>4, <1>5 DEF BeginDown

LEMMA BeginUpKeeps ==
  ASSUME MigrationInv, BeginUp
  PROVE  MigrationInv'
<1>1. PICK number \in Numbers \ recorded :
        Begun("up", number) /\ 10..(number - 1) \subseteq recorded
  BY NextUp
<1> QED BY <1>1, NextUp, Begins

LEMMA BeginDownKeeps ==
  ASSUME MigrationInv, BeginDown
  PROVE  MigrationInv'
<1>1. PICK number \in recorded :
        number \in Numbers /\ Begun("down", number) /\ \A m \in recorded : m <= number
  BY NextDown
<1> QED BY <1>1, NextDown, Begins

LEMMA GrantsWritten ==
  ASSUME NEW a, SoundRows(a), NEW g, NEW w, w = [a EXCEPT !.grants = g]
  PROVE  w = [codes |-> a.codes, legacy |-> a.legacy, grants |-> g, version |-> a.version,
              direct |-> a.direct, copy |-> a.copy]
BY RowIs

LEMMA UseKeeps ==
  ASSUME MigrationInv, NEW u \in Uses, Use(u) \/ Reenable(u)
  PROVE  MigrationInv'
<1> USE DEF MigrationInv
<1>1. /\ UNCHANGED <<facts, recorded, runner, broken>> /\ ~Running
      /\ used' \subseteq used \cup {u}
  BY DEF Use, Reenable, InUse
<1>2. runner = [way |-> "idle"] /\ runner'.way = "idle"
  BY <1>1 DEF SchemaRows, RunnerRow, Running
<1>3. SoundRows(access')
  <2>0. SoundRows(access)
    BY DEF SchemaRows
  <2>1. CASE access' = access
    BY <2>0, <2>1
  <2>2. CASE access' = [access EXCEPT !.grants["CUSTOM"] = {}]
    <3> DEFINE g == [access.grants EXCEPT !["CUSTOM"] = {}]
    <3>1. access' = [access EXCEPT !.grants = g]
      BY <2>2
    <3>2. g \in [Roles -> SUBSET Grantable] /\ \A r \in Roles : g[r] \subseteq access.codes
      <4>1. /\ access.grants \in [Roles -> SUBSET Grantable]
            /\ \A r \in Roles : access.grants[r] \subseteq access.codes
        BY <2>0, RowIs
      <4> QED BY <4>1
    <3> HIDE DEF g
    <3>3. access' = [codes |-> access.codes, legacy |-> access.legacy, grants |-> g,
                     version |-> access.version, direct |-> access.direct, copy |-> access.copy]
      BY <2>0, <3>1, GrantsWritten
    <3> QED BY <2>0, <3>2, <3>3, RowIs, SoundIs
  <2> QED BY <2>1, <2>2 DEF Use, Reenable
<1>4. RunnerRow'
  BY <1>1, <1>2 DEF RunnerRow
<1> QED BY <1>1, <1>2, <1>3, <1>4 DEF SchemaRows, Ascending, Descending

LEMMA MigrationStarts == MigrationInit => MigrationInv
<1> SUFFICES ASSUME MigrationInit PROVE MigrationInv
  OBVIOUS
<1>1. runner = [way |-> "idle"] /\ broken = {} /\ used = {}
  BY DEF MigrationInit
<1>2. runner.way = "idle" /\ RunnerRow
  BY <1>1 DEF RunnerRow
<1>3. NoGrants \in [Roles -> SUBSET Grantable] /\ \A r \in Roles : NoGrants[r] = {}
  BY DEF NoGrants
<1> DEFINE none == [r \in Roles |-> 1]
           copy == [codes |-> {}, grants |-> NoGrants, direct |-> {}]
<1>4. NoneUsed = [codes |-> {}, legacy |-> {}, grants |-> NoGrants, version |-> none,
                  direct |-> {}, copy |-> copy]
  BY DEF NoneUsed
<1>5. none \in [Roles -> 1..2] /\ copy \in Copies /\ copy.grants = NoGrants /\ copy.codes = {}
  BY <1>3 DEF Copies
<1> HIDE DEF none, copy
<1>6. SoundRows(NoneUsed)
  <2>1. NoneUsed \in AccessRows
    BY <1>3, <1>4, <1>5 DEF AccessRows
  <2>2. NoneUsed.grants = NoGrants /\ NoneUsed.copy = copy
    BY <1>4
  <2> QED BY <2>1, <2>2, <1>3, <1>5 DEF SoundRows
<1>7. CASE EmptyBefore10
  BY <1>1, <1>2, <1>6, <1>7
     DEF EmptyBefore10, MigrationInv, SchemaRows, Ascending, Descending
<1>8. CASE InUseBefore12
  <2>1. /\ facts = Before10 \cup Reached(11) /\ recorded = {10, 11}
    BY <1>8 DEF InUseBefore12
  <2>2. Reached(11) \subseteq Reached(18)
    <3> DEFINE all(m) ==
             UNION {Up[m - 9][k].add : k \in {j \in DOMAIN Up[m - 9] : Up[m - 9][j].kind = "ddl"}}
    <3>1. \A n : Reached(n) = UNION {all(m) : m \in 10..n}
      BY Zenon DEF Reached
    <3>2. 10..11 \subseteq 10..18
      OBVIOUS
    <3> HIDE DEF all
    <3> QED BY <3>1, <3>2
  <2>3. PICK kept \in CustomGrants, rows \in DirectGrants :
          access = Granted([NoneUsed EXCEPT !.codes = OldCodes, !.direct = rows,
                                          !.grants["CUSTOM"] = kept], OldRoleMap)
    BY <1>8 DEF InUseBefore12
  <2>4. kept \subseteq OldCodes /\ rows \in SUBSET DirectRow
    BY GrantsAssumption
  <2> DEFINE g0 == [NoGrants EXCEPT !["CUSTOM"] = kept]
             was == [codes |-> OldCodes, legacy |-> {}, grants |-> g0, version |-> none,
                     direct |-> rows, copy |-> copy]
             a0 == [NoneUsed EXCEPT !.codes = OldCodes, !.direct = rows, !.grants["CUSTOM"] = kept]
  <2>5. a0 = was
    <3> DEFINE a1 == [NoneUsed EXCEPT !.codes = OldCodes]
               a2 == [a1 EXCEPT !.direct = rows]
    <3>1. a0 = [a2 EXCEPT !.grants["CUSTOM"] = kept]
      BY Zenon
    <3>2. a1 = [codes |-> OldCodes, legacy |-> {}, grants |-> NoGrants, version |-> none,
                direct |-> {}, copy |-> copy]
      BY <1>4
    <3> HIDE DEF a1
    <3>3. a2 = [codes |-> OldCodes, legacy |-> {}, grants |-> NoGrants, version |-> none,
                direct |-> rows, copy |-> copy]
      BY <3>2
    <3> HIDE DEF a2
    <3> QED BY <3>1, <3>3
  <2>6. g0 \in [Roles -> SUBSET Grantable] /\ \A r \in Roles : g0[r] \subseteq OldCodes
    BY <1>3, <2>4, Conversions
  <2> DEFINE g == [r \in Roles |->
                   g0[r] \cup (IF r \in DOMAIN OldRoleMap THEN OldRoleMap[r] ELSE {})]
  <2>7. g \in [Roles -> SUBSET Grantable] /\ \A r \in Roles : g[r] \subseteq OldCodes
    BY <2>6, Conversions
  <2>8. access = [was EXCEPT !.grants = g]
    <3>1. access = Granted(was, OldRoleMap) /\ was.grants = g0
      BY <2>3, <2>5
    <3> HIDE DEF was, g0
    <3> QED BY <3>1 DEF Granted
  <2> HIDE DEF g, g0
  <2>9. access = [codes |-> OldCodes, legacy |-> {}, grants |-> g, version |-> none,
                  direct |-> rows, copy |-> copy]
    BY <2>8
  <2>10. SoundRows(access)
    <3>1. access \in AccessRows
      BY <1>5, <2>4, <2>7, <2>9, Conversions DEF AccessRows
    <3>2. access.grants = g /\ access.codes = OldCodes /\ access.copy = copy
      BY <2>9
    <3> QED BY <3>1, <3>2, <1>3, <1>5, <2>7 DEF SoundRows
  <2>11. recorded \subseteq Numbers /\ \A n \in recorded : 10..n \subseteq recorded
    BY <2>1 DEF Numbers
  <2> QED BY <1>1, <1>2, <2>1, <2>2, <2>10, <2>11
          DEF MigrationInv, SchemaRows, Ascending, Descending
<1> QED BY <1>7, <1>8 DEF MigrationInit

LEMMA MigrationSteps == MigrationInv /\ [MigrationNext]_migrationVars => MigrationInv'
<1> SUFFICES ASSUME MigrationInv, [MigrationNext]_migrationVars PROVE MigrationInv'
  OBVIOUS
<1>1. CASE BeginUp
  BY <1>1, BeginUpKeeps
<1>2. CASE BeginDown
  BY <1>2, BeginDownKeeps
<1>3. CASE Execute
  BY <1>3, ExecuteKeeps
<1>4. CASE Fail
  BY <1>4, RollBackKeeps DEF Fail, Here
<1>5. CASE Crash
  BY <1>5, RollBackKeeps DEF Crash
<1>6. CASE Noted
  BY <1>6, NotedKeeps
<1>7. ASSUME NEW u \in Uses, Use(u) \/ Reenable(u) PROVE MigrationInv'
  BY <1>7, UseKeeps
<1>8. CASE UNCHANGED migrationVars
  <2>1. /\ facts' = facts /\ access' = access /\ recorded' = recorded /\ runner' = runner
        /\ broken' = broken /\ used' = used
    BY <1>8 DEF migrationVars
  <2>2. Script' = Script
    BY <2>1 DEF Script
  <2>3. SoundRows(access)' /\ (SoundRows(runner.saved) => SoundRows(runner.saved)')
    BY <2>1 DEF SoundRows, MigrationInv, SchemaRows
  <2>4. RunnerRow'
    BY <2>1, <2>2, <2>3 DEF MigrationInv, SchemaRows, RunnerRow
  <2> QED BY <2>1, <2>2, <2>3, <2>4 DEF MigrationInv, SchemaRows, Ascending, Descending
<1> QED BY <1>1, <1>2, <1>3, <1>4, <1>5, <1>6, <1>7, <1>8 DEF MigrationNext

LEMMA MigrationHolds == MigrationInv => MigrationTypeOK
<1> SUFFICES ASSUME MigrationInv PROVE MigrationTypeOK
  OBVIOUS
<1>1. /\ access.codes \subseteq Codes /\ access.legacy \subseteq LegacyOnly
      /\ access.version \in [Roles -> 1..2] /\ access.direct \subseteq DirectRow
      /\ access.grants \in [Roles -> SUBSET Grantable]
      /\ \A r \in Roles : access.grants[r] \subseteq access.codes
  BY RowIs DEF MigrationInv, SchemaRows
<1>2. access.grants \in [Roles -> SUBSET access.codes]
  BY <1>1
<1>3. Running => runner.number \in Numbers /\ runner.at \in 1..(Len(Script) + 1)
  BY Runs DEF MigrationInv
<1> QED BY <1>1, <1>2, <1>3 DEF MigrationTypeOK, MigrationInv, SchemaRows

\* A step of a revert, on a state that the invariant describes.
LEMMA RevertsSafely ==
  ASSUME MigrationInv, [MigrationNext]_migrationVars, runner.way = "down"
  PROVE  /\ runner.number \notin {10, 12, 14} => used \subseteq used'
         /\ Fail /\ runner.number # 18 /\ Statement.refusedBy \cap used # {} =>
              facts' = runner.found /\ access' = runner.saved
<1>0. Running
  BY DEF Running
<1>1. /\ WritesBackward(Script) /\ List(Script) /\ runner.at \in 1..(Len(Script) + 1)
      /\ TakesBack(Script, runner.number)
      /\ runner.number \notin {10, 12, 14} => AsksFirst(Script)
      /\ runner.number # 18 => RefusesEarly(Script)
  BY <1>0, Runs DEF MigrationInv
<1>2. ASSUME runner.number \notin {10, 12, 14} PROVE used \subseteq used'
  <2>1. CASE Execute /\ Statement.kind = "ddl"
    <3>1. SUFFICES ASSUME NEW u \in used, u \in Forgotten(Statement.drop) PROVE FALSE
      BY <2>1, Executes DEF MigrationInv
    <3>2. runner.at \in DOMAIN Script
      BY <2>1 DEF Execute, Here
    <3>3. <<"roles", "authority_level">> \notin Statement.drop
      <4>1. Own(<<"roles", "authority_level">>) = 12
        BY DEF Own, Owner
      <4> QED BY <1>1, <1>2, <2>1, <3>2, <4>1 DEF TakesBack, Statement
    <3>4. u \in Statement.drop \cap AdministrativeState
      BY <3>1, <3>3, UsesAssumption DEF MigrationInv, SchemaRows, Forgotten
    <3>5. PICK j \in 1..(runner.at - 1) : u \in Script[j].refusedBy
      BY <1>1, <1>2, <2>1, <3>2, <3>4 DEF AsksFirst, Statement
    <3>6. Script[j].refusedBy \cap used = {}
      BY DEF MigrationInv, Descending
    <3> QED BY <3>1, <3>5, <3>6
  <2>2. CASE ~(Execute /\ Statement.kind = "ddl")
    <3>1. CASE Execute
      BY <2>2, <3>1, Executes DEF MigrationInv
    <3>2. CASE ~Execute
      <4>1. \A u \in Uses : ~Use(u) /\ ~Reenable(u)
        BY <1>0 DEF Use, Reenable, InUse
      <4> QED BY <3>2, <4>1 DEF MigrationNext, BeginUp, BeginDown, Fail, Crash, RollBack, Noted,
                                migrationVars
    <3> QED BY <3>1, <3>2
  <2> QED BY <2>1, <2>2
<1>3. ASSUME Fail, runner.number # 18, Statement.refusedBy \cap used # {}
      PROVE  facts' = runner.found /\ access' = runner.saved
  <2>1. runner.at \in DOMAIN Script /\ Statement = Script[runner.at] /\ Statement.refusedBy # {}
    BY <1>3 DEF Fail, Here, Statement
  <2>2. /\ \A j \in 1..(runner.at - 1) : Script[j].kind # "ddl"
        /\ Statement.kind = "ddl" => \A j \in 1..(runner.at - 1) : Script[j].kind # "dml"
    BY <1>1, <1>3, <2>1 DEF RefusesEarly
  <2>3. facts = runner.found /\ runner.open = TRUE
    BY <2>2 DEF MigrationInv, Descending
  <2>4. Statement.kind = "ddl" => access = runner.saved
    BY <2>2 DEF MigrationInv, Descending
  <2>5. RollBack(runner.open /\ Statement.kind # "ddl")
    BY <1>3 DEF Fail
  <2>6. /\ facts' = facts
        /\ access' = IF runner.open /\ Statement.kind # "ddl" THEN runner.saved ELSE access
    BY <2>5 DEF RollBack
  <2> QED BY <2>3, <2>4, <2>6
<1> QED BY <1>2, <1>3

-----------------------------------------------------------------------------
\* A migration has been through every statement that changes the schema, and nothing of
\* it has been taken back since.
Done(number, schema) ==
  \A i \in DOMAIN Up[number - 9] : Up[number - 9][i].kind = "ddl" =>
    Up[number - 9][i].add \subseteq schema /\ Up[number - 9][i].drop \cap schema = {}

\* No revert broke off.
Unbroken == \A b \in broken : b[1] = "up"

\* Forwards, the schema has what the statements passed have added and lacks what they have
\* dropped; backwards, it lacks what they have dropped, and that was there before.  Unless
\* a revert broke off, every migration recorded is done, but for the one being reverted.
SchemaStands ==
  /\ runner.way = "up" =>
       /\ runner.number \notin recorded
       /\ \A j \in 1..(runner.at - 1) : Script[j].kind = "ddl" =>
            Script[j].add \subseteq facts /\ Script[j].drop \cap facts = {}
  /\ runner.way = "down" =>
       /\ facts \subseteq runner.found \cup Lost(runner.number)
       /\ \A j \in 1..(runner.at - 1) : Script[j].kind = "ddl" =>
            Script[j].drop \subseteq runner.found \ facts
       /\ Unbroken => Done(runner.number, runner.found)
  /\ Unbroken =>
       \A n \in recorded : (runner.way = "down" => n # runner.number) => Done(n, facts)

LEMMA LostApart ==
  /\ \A m, n : m # n => Lost(m) \cap Lost(n) = {}
  /\ \A m : \A u \in Lost(m) : Own(u) = 9
<1>1. \A m : \A u \in Lost(m) : m = (IF u = OldHash THEN 18 ELSE 13)
  BY DEF Lost
<1>2. \A m, n : m # n => Lost(m) \cap Lost(n) = {}
  <2>1. SUFFICES ASSUME NEW m, NEW n, NEW u, u \in Lost(m), u \in Lost(n) PROVE m = n
    OBVIOUS
  <2>2. m = (IF u = OldHash THEN 18 ELSE 13) /\ n = (IF u = OldHash THEN 18 ELSE 13)
    BY <1>1, <2>1
  <2> QED BY <2>2
<1> QED BY <1>2, LostIs

\* What one migration does to the schema leaves what another has done.
LEMMA DoneStays ==
  ASSUME NEW m \in Numbers, NEW n \in Numbers, m # n, NEW schema, NEW drop, NEW add,
         \A u \in drop \cup add : Own(u) = m \/ u \in Lost(m),
         Done(n, schema)
  PROVE  Done(n, (schema \ drop) \cup add)
<1>1. Adds(Up[n - 9], n)
  BY ScriptsAre DEF Proceeds
<1>2. ASSUME NEW i \in DOMAIN Up[n - 9], Up[n - 9][i].kind = "ddl"
      PROVE  /\ Up[n - 9][i].add \subseteq (schema \ drop) \cup add
             /\ Up[n - 9][i].drop \cap ((schema \ drop) \cup add) = {}
  <2> DEFINE s == Up[n - 9][i]
  <2>1. (\A u \in s.add : Own(u) = n) /\ s.drop \subseteq Lost(n)
    BY <1>1, <1>2 DEF Adds
  <2>2. s.add \subseteq schema /\ s.drop \cap schema = {}
    BY <1>2 DEF Done
  <2> HIDE DEF s
  <2>3. m # 9 /\ n # 9
    BY DEF Numbers
  <2>4. \A u \in s.add : u \notin drop
    BY <2>1, <2>3, LostApart
  <2>5. \A u \in s.drop : u \notin add
    <3>1. \A u \in s.drop : u \in Lost(n) /\ Own(u) = 9 /\ u \notin Lost(m)
      BY <2>1, LostApart
    <3> QED BY <2>3, <3>1
  <2>6. s.add \subseteq (schema \ drop) \cup add /\ s.drop \cap ((schema \ drop) \cup add) = {}
    BY <2>2, <2>4, <2>5
  <2> QED BY <2>6 DEF s
<1> QED BY <1>2 DEF Done

LEMMA StandsForward ==
  ASSUME MigrationInv, SchemaStands, Execute, runner.way = "up"
  PROVE  SchemaStands'
<1>0. SchemaRows
  BY DEF MigrationInv
<1>1. /\ Running /\ runner.at \in Nat /\ runner.at \in DOMAIN Script
      /\ Script' = Script /\ Statement = Script[runner.at]
      /\ UNCHANGED <<recorded, broken>>
  BY <1>0, Executes
<1>2. /\ runner'.way = "up" /\ runner'.number = runner.number /\ runner'.at = runner.at + 1
  BY <1>0, Executes
<1>3. runner.number \in Numbers /\ Adds(Script, runner.number)
  BY <1>0, <1>1, Runs
<1>4. /\ runner.number \notin recorded
      /\ \A j \in 1..(runner.at - 1) : Script[j].kind = "ddl" =>
           Script[j].add \subseteq facts /\ Script[j].drop \cap facts = {}
  BY DEF SchemaStands
<1>5. PICK k \in Nat : DOMAIN Script = 1..k
  BY <1>0, <1>1, Runs DEF List
<1>6. CASE Statement.kind # "ddl"
  <2>1. facts' = facts
    BY <1>0, <1>6, Executes
  <2>2. \A j \in 1..(runner'.at - 1) : j \in 1..(runner.at - 1) \/ Script[j] = Statement
    BY <1>1, <1>2
  <2>3. \A j \in 1..(runner'.at - 1) : Script'[j].kind = "ddl" =>
          Script'[j].add \subseteq facts' /\ Script'[j].drop \cap facts' = {}
    BY <1>1, <1>4, <1>6, <2>1, <2>2
  <2>4. Unbroken' => \A n \in recorded' : Done(n, facts')
    BY <1>1, <2>1 DEF SchemaStands, Unbroken
  <2> QED BY <1>1, <1>2, <1>4, <2>3, <2>4 DEF SchemaStands
<1>7. CASE Statement.kind = "ddl"
  <2> DEFINE drop == Statement.drop
             add == Statement.add
  <2>1. facts' = (facts \ drop) \cup add
    BY <1>0, <1>7, Executes
  <2>2. (\A u \in add : Own(u) = runner.number) /\ drop \subseteq Lost(runner.number)
    BY <1>1, <1>3, <1>7 DEF Adds
  <2>3. \A u \in drop : Own(u) = 9
    BY <2>2, LostApart
  <2>4. runner.number # 9
    BY <1>3 DEF Numbers
  <2>5. ASSUME NEW j \in 1..(runner'.at - 1), Script[j].kind = "ddl"
        PROVE  Script[j].add \subseteq facts' /\ Script[j].drop \cap facts' = {}
    <3>1. j \in DOMAIN Script
      BY <1>1, <1>2, <1>5
    <3>2. /\ \A u \in Script[j].add : Own(u) = runner.number
          /\ \A u \in Script[j].drop : Own(u) = 9
      BY <1>3, <2>5, <3>1, LostApart DEF Adds
    <3>3. Script[j].add \cap drop = {} /\ Script[j].drop \cap add = {}
      BY <2>2, <2>3, <2>4, <3>2
    <3>4. CASE j = runner.at
      BY <1>1, <2>1, <3>3, <3>4
    <3>5. CASE j # runner.at
      <4>1. Script[j].add \subseteq facts /\ Script[j].drop \cap facts = {}
        <5>1. j \in 1..(runner.at - 1)
          BY <1>1, <1>2, <3>5
        <5> QED BY <1>4, <2>5, <5>1
      <4> QED BY <2>1, <3>3, <4>1
    <3> QED BY <3>4, <3>5
  <2>6. ASSUME Unbroken, NEW n \in recorded PROVE Done(n, facts')
    <3>1. Done(n, facts) /\ n \in Numbers /\ n # runner.number
      BY <1>0, <1>4, <2>6 DEF SchemaStands, SchemaRows
    <3>2. \A u \in drop \cup add : Own(u) = runner.number \/ u \in Lost(runner.number)
      BY <2>2
    <3> HIDE DEF drop, add
    <3> QED BY <1>3, <2>1, <3>1, <3>2, DoneStays
  <2>7. Unbroken' => \A n \in recorded' : Done(n, facts')
    BY <1>1, <2>6 DEF Unbroken
  <2>8. \A j \in 1..(runner'.at - 1) : Script'[j].kind = "ddl" =>
          Script'[j].add \subseteq facts' /\ Script'[j].drop \cap facts' = {}
    BY <1>1, <2>5
  <2> QED BY <1>1, <1>2, <1>4, <2>7, <2>8 DEF SchemaStands
<1> QED BY <1>6, <1>7

LEMMA StandsBackward ==
  ASSUME MigrationInv, SchemaStands, Execute, runner.way = "down"
  PROVE  SchemaStands'
<1>0. SchemaRows
  BY DEF MigrationInv
<1>1. /\ Running /\ runner.at \in Nat /\ runner.at \in DOMAIN Script
      /\ Script' = Script /\ Statement = Script[runner.at] /\ ~Fails(Statement)
      /\ UNCHANGED <<recorded, broken>>
  BY <1>0, Executes
<1>2. /\ runner'.way = "down" /\ runner'.number = runner.number /\ runner'.at = runner.at + 1
      /\ runner'.found = runner.found
  BY <1>0, Executes
<1>3. runner.number \in Numbers /\ TakesBack(Script, runner.number)
  BY <1>0, <1>1, Runs
<1>4. /\ facts \subseteq runner.found \cup Lost(runner.number)
      /\ \A j \in 1..(runner.at - 1) : Script[j].kind = "ddl" =>
           Script[j].drop \subseteq runner.found \ facts
      /\ Unbroken => Done(runner.number, runner.found)
  BY DEF SchemaStands
<1>5. PICK k \in Nat : DOMAIN Script = 1..k
  BY <1>0, <1>1, Runs DEF List
<1>6. CASE Statement.kind # "ddl"
  <2>1. facts' = facts
    BY <1>0, <1>6, Executes
  <2>2. \A j \in 1..(runner'.at - 1) : j \in 1..(runner.at - 1) \/ Script[j] = Statement
    BY <1>1, <1>2
  <2>3. \A j \in 1..(runner'.at - 1) : Script'[j].kind = "ddl" =>
          Script'[j].drop \subseteq runner'.found \ facts'
    BY <1>1, <1>2, <1>4, <1>6, <2>1, <2>2
  <2>4. Unbroken' => /\ \A n \in recorded' : n # runner'.number => Done(n, facts')
                     /\ Done(runner'.number, runner'.found)
    BY <1>1, <1>2, <2>1 DEF SchemaStands, Unbroken
  <2> QED BY <1>1, <1>2, <1>4, <2>1, <2>3, <2>4 DEF SchemaStands
<1>7. CASE Statement.kind = "ddl"
  <2> DEFINE drop == Statement.drop
             add == Statement.add
  <2>1. facts' = (facts \ drop) \cup add
    BY <1>0, <1>7, Executes
  <2>2. (\A u \in drop : Own(u) = runner.number) /\ add \subseteq Lost(runner.number)
    BY <1>1, <1>3, <1>7 DEF TakesBack
  <2>3. /\ \A u \in add : Own(u) = 9
        /\ \A u \in Lost(runner.number) : Own(u) = 9
    BY <2>2, LostApart
  <2>4. runner.number # 9
    BY <1>3 DEF Numbers
  <2>5. ASSUME NEW j \in 1..(runner'.at - 1), Script[j].kind = "ddl"
        PROVE  Script[j].drop \subseteq runner.found \ facts'
    <3>1. j \in DOMAIN Script
      BY <1>1, <1>2, <1>5
    <3>2. \A u \in Script[j].drop : Own(u) = runner.number
      BY <1>3, <2>5, <3>1 DEF TakesBack
    <3>3. Script[j].drop \cap add = {}
      BY <2>3, <2>4, <3>2
    <3>4. CASE j = runner.at
      <4>1. drop \subseteq facts
        BY <1>1, <1>7 DEF Fails
      <4>2. drop \subseteq runner.found
        BY <1>4, <2>2, <2>3, <2>4, <4>1
      <4> QED BY <1>1, <2>1, <3>3, <3>4, <4>2
    <3>5. CASE j # runner.at
      <4>1. Script[j].drop \subseteq runner.found \ facts
        <5>1. j \in 1..(runner.at - 1)
          BY <1>1, <1>2, <3>5
        <5> QED BY <1>4, <2>5, <5>1
      <4> QED BY <2>1, <3>3, <4>1
    <3> QED BY <3>4, <3>5
  <2>6. ASSUME Unbroken, NEW n \in recorded, n # runner.number PROVE Done(n, facts')
    <3>1. Done(n, facts) /\ n \in Numbers
      BY <1>0, <2>6 DEF SchemaStands, SchemaRows
    <3>2. \A u \in drop \cup add : Own(u) = runner.number \/ u \in Lost(runner.number)
      BY <2>2
    <3> HIDE DEF drop, add
    <3> QED BY <1>3, <2>1, <2>6, <3>1, <3>2, DoneStays
  <2>7. Unbroken' => /\ \A n \in recorded' : n # runner'.number => Done(n, facts')
                     /\ Done(runner'.number, runner'.found)
    BY <1>1, <1>2, <1>4, <2>6 DEF Unbroken
  <2>8. \A j \in 1..(runner'.at - 1) : Script'[j].kind = "ddl" =>
          Script'[j].drop \subseteq runner'.found \ facts'
    BY <1>1, <1>2, <2>5
  <2>9. facts' \subseteq runner'.found \cup Lost(runner'.number)
    BY <1>2, <1>4, <2>1, <2>2
  <2> QED BY <1>2, <2>7, <2>8, <2>9 DEF SchemaStands
<1> QED BY <1>6, <1>7

LEMMA StandsRolledBack ==
  ASSUME MigrationInv, SchemaStands, Running, NEW o, RollBack(o)
  PROVE  SchemaStands'
<1>1. /\ runner' = [way |-> "idle"] /\ facts' = facts /\ recorded' = recorded
      /\ broken' = IF facts = runner.found THEN broken
                   ELSE broken \cup {<<runner.way, runner.number>>}
  BY DEF RollBack
<1>2. runner'.way = "idle"
  BY <1>1
<1>3. ASSUME Unbroken', NEW n \in recorded PROVE Done(n, facts)
  <2>1. Unbroken
    BY <1>1, <1>3 DEF Unbroken
  <2>2. CASE runner.way = "down" /\ n = runner.number
    <3>1. facts = runner.found
      <4>1. SUFFICES ASSUME facts # runner.found PROVE FALSE
        OBVIOUS
      <4>2. <<"down", n>> \in broken'
        BY <1>1, <2>2, <4>1
      <4>3. <<"down", n>>[1] = "up"
        BY <1>3, <4>2 DEF Unbroken
      <4> QED BY <4>3
    <3> QED BY <2>1, <2>2, <3>1 DEF SchemaStands
  <2>3. CASE ~(runner.way = "down" /\ n = runner.number)
    BY <2>1, <2>3 DEF SchemaStands
  <2> QED BY <2>2, <2>3
<1>4. Unbroken' => \A n \in recorded' : Done(n, facts')
  BY <1>1, <1>3
<1> QED BY <1>2, <1>4 DEF SchemaStands

LEMMA StandsNoted ==
  ASSUME MigrationInv, SchemaStands, Noted
  PROVE  SchemaStands'
<1>0. SchemaRows
  BY DEF MigrationInv
<1>1. /\ runner' = [way |-> "idle"] /\ UNCHANGED <<facts, access, broken, used>>
      /\ Running /\ runner.at = Len(Script) + 1
      /\ recorded' = IF runner.way = "up" THEN recorded \cup {runner.number}
                     ELSE recorded \ {runner.number}
  BY DEF Noted
<1>2. runner'.way = "idle"
  BY <1>1
<1>3. runner.way \in {"up", "down"}
  BY <1>0, <1>1, Runs
<1>4. ASSUME runner.way = "up" PROVE Done(runner.number, facts)
  <2>1. Script = Up[runner.number - 9]
    BY <1>4 DEF Script
  <2>2. PICK k \in Nat : DOMAIN Script = 1..k /\ Len(Script) = k
    BY <1>0, <1>1, Runs DEF List
  <2>3. \A j \in DOMAIN Script : j \in 1..(runner.at - 1)
    BY <1>1, <2>2
  <2>4. \A j \in DOMAIN Script : Script[j].kind = "ddl" =>
          Script[j].add \subseteq facts /\ Script[j].drop \cap facts = {}
    BY <1>4, <2>3 DEF SchemaStands
  <2> QED BY <2>1, <2>4 DEF Done
<1>5. ASSUME Unbroken, NEW n \in recorded' PROVE Done(n, facts)
  <2>1. CASE runner.way = "up" /\ n = runner.number
    BY <2>1, <1>4
  <2>2. CASE ~(runner.way = "up" /\ n = runner.number)
    BY <1>1, <1>3, <1>5, <2>2 DEF SchemaStands
  <2> QED BY <2>1, <2>2
<1>6. Unbroken' => \A n \in recorded' : Done(n, facts')
  BY <1>1, <1>5 DEF Unbroken
<1> QED BY <1>2, <1>6 DEF SchemaStands

LEMMA StandsBegun ==
  ASSUME MigrationInv, SchemaStands, runner.way = "idle", NEW way \in {"up", "down"},
         NEW number \in Numbers, Begun(way, number),
         UNCHANGED <<facts, access, recorded, broken, used>>,
         way = "up" => number \notin recorded, way = "down" => number \in recorded
  PROVE  SchemaStands'
<1>1. runner' = [way |-> way, number |-> number, at |-> 1, open |-> TRUE,
                 saved |-> access, found |-> facts]
  BY DEF Begun
<1>2. runner'.way = way /\ runner'.number = number /\ runner'.at = 1 /\ runner'.found = facts
  BY <1>1
<1>3. \A j \in 1..(runner'.at - 1) : FALSE
  BY <1>2
<1>4. Unbroken' => \A n \in recorded' : Done(n, facts')
  BY DEF SchemaStands, Unbroken
<1> QED BY <1>2, <1>3, <1>4 DEF SchemaStands

LEMMA SchemaStarts == MigrationInit => SchemaStands
<1> SUFFICES ASSUME MigrationInit PROVE SchemaStands
  OBVIOUS
<1>1. runner = [way |-> "idle"]
  BY DEF MigrationInit
<1>2. runner.way = "idle"
  BY <1>1
<1>3. CASE EmptyBefore10
  BY <1>2, <1>3 DEF EmptyBefore10, SchemaStands
<1>4. CASE InUseBefore12
  <2>1. facts = Before10 \cup Reached(11) /\ recorded = {10, 11}
    BY <1>4 DEF InUseBefore12
  <2>2. ASSUME NEW n \in {10, 11} PROVE Done(n, facts)
    <3> DEFINE all(m) ==
             UNION {Up[m - 9][k].add : k \in {j \in DOMAIN Up[m - 9] : Up[m - 9][j].kind = "ddl"}}
    <3>1. Reached(11) = UNION {all(m) : m \in 10..11}
      BY Zenon DEF Reached
    <3>2. Adds(Up[n - 9], n)
      <4>1. n \in Numbers
        BY DEF Numbers
      <4> QED BY <4>1, ScriptsAre DEF Proceeds
    <3>3. Lost(n) = {}
      BY LostIs
    <3>4. ASSUME NEW i \in DOMAIN Up[n - 9], Up[n - 9][i].kind = "ddl"
          PROVE  Up[n - 9][i].add \subseteq facts /\ Up[n - 9][i].drop \cap facts = {}
      <4>1. Up[n - 9][i].add \subseteq all(n)
        BY <3>4
      <4>2. Up[n - 9][i].drop \subseteq Lost(n)
        BY <3>2, <3>4 DEF Adds
      <4>3. n \in 10..11
        OBVIOUS
      <4> HIDE DEF all
      <4>4. all(n) \subseteq facts
        BY <2>1, <3>1, <4>3
      <4> QED BY <3>3, <4>1, <4>2, <4>4
    <3> QED BY <3>4 DEF Done
  <2> QED BY <1>2, <2>1, <2>2 DEF SchemaStands
<1> QED BY <1>3, <1>4 DEF MigrationInit

\* What does not touch the schema, the runner and what is recorded.
LEMMA StandsUntouched ==
  ASSUME SchemaStands, UNCHANGED <<facts, recorded, runner, broken>>
  PROVE  SchemaStands'
<1>1. facts' = facts /\ recorded' = recorded /\ runner' = runner /\ broken' = broken
  OBVIOUS
<1>2. Script' = Script
  BY <1>1 DEF Script
<1> QED BY <1>1, <1>2 DEF SchemaStands, Unbroken

LEMMA SchemaSteps ==
  MigrationInv /\ SchemaStands /\ [MigrationNext]_migrationVars => SchemaStands'
<1> SUFFICES ASSUME MigrationInv, SchemaStands, [MigrationNext]_migrationVars
             PROVE  SchemaStands'
  OBVIOUS
<1>1. CASE BeginUp
  <2>1. PICK number \in Numbers \ recorded : Begun("up", number)
    BY <1>1, NextUp
  <2> QED BY <1>1, <2>1, NextUp, StandsBegun
<1>2. CASE BeginDown
  <2>1. PICK number \in recorded : number \in Numbers /\ Begun("down", number)
    BY <1>2, NextDown
  <2> QED BY <1>2, <2>1, NextDown, StandsBegun
<1>3. CASE Execute
  <2>1. Running /\ runner.way \in {"up", "down"}
    BY <1>3, Executes, Runs DEF MigrationInv
  <2> QED BY <1>3, <2>1, StandsForward, StandsBackward
<1>4. CASE Fail
  BY <1>4, StandsRolledBack DEF Fail, Here
<1>5. CASE Crash
  BY <1>5, StandsRolledBack DEF Crash
<1>6. CASE Noted
  BY <1>6, StandsNoted
<1>7. ASSUME NEW u \in Uses, Use(u) \/ Reenable(u) PROVE SchemaStands'
  BY <1>7, StandsUntouched DEF Use, Reenable
<1>8. CASE UNCHANGED migrationVars
  BY <1>8, StandsUntouched DEF migrationVars
<1> QED BY <1>1, <1>2, <1>3, <1>4, <1>5, <1>6, <1>7, <1>8 DEF MigrationNext

\* Through every migration in full, the schema is the whole schema.
LEMMA SchemaIsWhole ==
  ASSUME MigrationInv, SchemaStands, Unbroken, runner.way = "idle", recorded = Numbers
  PROVE  facts = WholeSchema
<1>1. \A n \in Numbers : Done(n, facts)
  BY DEF SchemaStands
<1>2. Reached(18) \subseteq facts
  <2> DEFINE all(m) ==
             UNION {Up[m - 9][k].add : k \in {j \in DOMAIN Up[m - 9] : Up[m - 9][j].kind = "ddl"}}
  <2>1. Reached(18) = UNION {all(m) : m \in 10..18}
    BY Zenon DEF Reached
  <2>2. \A m \in 10..18 : all(m) \subseteq facts
    BY <1>1 DEF Done, Numbers
  <2> HIDE DEF all
  <2> QED BY <2>1, <2>2
<1>3. facts \cap Before10 = {}
  <2>0. Up[13 - 9] = Up13 /\ Up[18 - 9] = Up18
    BY DEF Up
  <2>1. /\ 1 \in DOMAIN Up13 /\ Up13[1].kind = "ddl"
        /\ Up13[1].drop = {<<"articles", "uq_article_label">>}
    BY DEF Up13, Alter
  <2>2. /\ 1 \in DOMAIN Up18 /\ Up18[1].kind = "ddl"
        /\ Up18[1].drop = {OldHash}
    BY DEF Up18, Alter
  <2>3. 13 \in Numbers /\ 18 \in Numbers
    BY DEF Numbers
  <2>4. <<"articles", "uq_article_label">> \notin facts
    BY <1>1, <2>0, <2>1, <2>3 DEF Done
  <2>5. OldHash \notin facts
    BY <1>1, <2>0, <2>2, <2>3 DEF Done
  <2> QED BY <2>4, <2>5 DEF Before10
<1>4. facts \subseteq Before10 \cup Reached(18)
  BY DEF MigrationInv, SchemaRows
<1> QED BY <1>2, <1>3, <1>4 DEF WholeSchema

-----------------------------------------------------------------------------
\* What the custom role held before migration 12, and what the migration makes of the
\* account's grants.
Had(a) == a.copy.grants["CUSTOM"]
Converted(a) ==
  /\ a.legacy = LegacyOnly /\ a.version["CUSTOM"] = 2
  /\ a.grants["CUSTOM"] = Had(a) \cup ConservativeCustomRoleMapping(Had(a))
  /\ a.direct = DirectConverted(a.copy.direct)

\* Once migration 10 is recorded the old codes are defined; once migration 12 is, the
\* grants are those that it has made of the copy.
Carried(a, numbers) ==
  /\ 10 \in numbers => LegacyOnly \subseteq a.codes
  /\ 12 \in numbers => LegacyOnly \subseteq a.copy.codes /\ Converted(a)

\* Migration 12 before its statement at.
ConvertedTo(a, at) ==
  /\ at > 4 =>
       /\ LegacyOnly \subseteq a.copy.codes
       /\ a.grants["CUSTOM"] = IF at > 9 THEN Had(a) \cup ConservativeCustomRoleMapping(Had(a))
                               ELSE Had(a)
       /\ a.direct = IF at > 12 THEN DirectConverted(a.copy.direct) ELSE a.copy.direct
  /\ at > 7 => a.legacy = LegacyOnly
  /\ at > 9 => a.version["CUSTOM"] = 2

\* Its revert leaves the copy alone, and restores the old codes from it; the reverts after
\* it leave the grants that it has made.
Restoring ==
  /\ runner.number \notin {10, 12} => Carried(access, recorded)
  /\ runner.number = 12 => /\ access.copy = runner.saved.copy
                           /\ runner.at > 2 => LegacyOnly \subseteq access.codes

DeletedRole == <<"roles", "deleted">>
AccessStands ==
  Unbroken /\ DeletedRole \notin used =>
    /\ runner.way # "down" => Carried(access, recorded)
    /\ Running => Carried(runner.saved, recorded)
    /\ runner.way = "up" /\ runner.number = 12 => ConvertedTo(access, runner.at)
    /\ runner.way = "down" => Restoring

\* No statement drops deleted rows.
LEMMA DeletedRoleStays ==
  ASSUME NEW number \in Numbers, NEW drop, \A u \in drop : Own(u) = number \/ u \in Lost(number)
  PROVE  DeletedRole \notin Forgotten(drop)
<1>1. Own(DeletedRole) = 0
  BY DEF Own, Owner, DeletedRole
<1>2. number # 0
  BY DEF Numbers
<1>3. \A u \in Lost(number) : Own(u) = 9
  BY LostApart
<1>4. DeletedRole \notin drop
  BY <1>1, <1>2, <1>3
<1>5. DeletedRole \notin GrantsMade
  BY DEF DeletedRole, GrantsMade
<1> QED BY <1>4, <1>5 DEF Forgotten

\* Only migration 10 makes and drops the tables of grants.
LEMMA GrantTablesStay ==
  ASSUME NEW number \in Numbers, number # 10, NEW drop,
         \A u \in drop : Own(u) = number \/ u \in Lost(number)
  PROVE  drop \cap GrantTables = {}
<1>1. /\ Own(<<"permission_definitions", "table">>) = 10
      /\ Own(<<"role_permissions", "table">>) = 10
      /\ Own(<<"user_permission_overrides", "table">>) = 10
  BY DEF Own, Owner
<1>2. \A u \in GrantTables : Own(u) = 10
  <2>1. GrantTables = {<<"permission_definitions", "table">>, <<"role_permissions", "table">>,
                       <<"user_permission_overrides", "table">>}
    BY DEF GrantTables
  <2> QED BY <1>1, <2>1
<1> QED BY <1>2, NoGrantsLost

LEMMA CarriedWhen ==
  ASSUME NEW a, NEW b, NEW numbers, Carried(a, numbers),
         LegacyOnly \subseteq a.codes => LegacyOnly \subseteq b.codes,
         b.legacy = a.legacy, b.grants["CUSTOM"] = a.grants["CUSTOM"], b.version = a.version,
         b.direct = a.direct, b.copy = a.copy
  PROVE  Carried(b, numbers)
BY DEF Carried, Converted, Had

\* Each statement of migration 12 takes the conversion one step further.
LEMMA ConversionSteps ==
  ASSUME SoundRows(access), NEW at \in 1..12, Up12[at].kind = "dml", ConvertedTo(access, at),
         LegacyOnly \subseteq access.codes
  PROVE  ConvertedTo(Written(Up12[at]), at + 1)
<1> DEFINE a == access
           h == Had(a)
           made == h \cup ConservativeCustomRoleMapping(h)
<1>0. /\ a.grants \in [Roles -> SUBSET Grantable] /\ a.version \in [Roles -> 1..2]
      /\ a.legacy \in SUBSET LegacyOnly
      /\ "CUSTOM" \in Roles /\ "LEGAL_REVIEWER" \in Roles /\ "SYSTEM_ADMIN" \in Roles
  BY RowIs DEF Roles
<1>1. at \in {4, 7, 8, 9, 10, 11, 12}
  <2>1. \A i \in {1, 2, 3, 5, 6} : Up12[i].kind = "ddl"
    BY Up12Is
  <2> QED BY <2>1
<1>2. CASE at = 4
  <2>1. Up12[at].rows = "save"
    BY <1>2, Up12Is
  <2> DEFINE k == [codes |-> a.codes, grants |-> a.grants, direct |-> a.direct]
  <2>2. Written(Up12[at]) = AccessOf(a.codes, a.legacy, a.grants, a.version, a.direct, k)
    BY <2>1, WrittenIs
  <2>3. k.codes = a.codes /\ k.grants = a.grants /\ k.direct = a.direct
    OBVIOUS
  <2> HIDE DEF k
  <2> DEFINE w == Written(Up12[at])
  <2>4. w.codes = a.codes /\ w.grants = a.grants /\ w.direct = a.direct /\ w.copy = k
    BY <2>2, Column
  <2> HIDE DEF w
  <2>5. ConvertedTo(w, at + 1)
    BY <1>2, <2>3, <2>4 DEF ConvertedTo, Had
  <2> QED BY <2>5 DEF w
<1>3. CASE at = 7
  <2>1. Up12[at].rows = "mark" /\ Up12[at].arg = LegacyOnly
    BY <1>3, Up12Is
  <2>2. Written(Up12[at]) = AccessOf(a.codes, LegacyOnly \cap a.codes, a.grants, a.version,
                                     a.direct, a.copy)
    BY <2>1, WrittenIs
  <2> DEFINE w == Written(Up12[at])
  <2>3. /\ w.legacy = LegacyOnly \cap a.codes /\ w.grants = a.grants /\ w.direct = a.direct
        /\ w.copy = a.copy
    BY <2>2, Column
  <2> HIDE DEF w
  <2>4. ConvertedTo(w, at + 1)
    BY <1>3, <2>3 DEF ConvertedTo, Had
  <2> QED BY <2>4 DEF w
<1>4. CASE at = 8
  <2>1. Up12[at].rows = "upsert" /\ Up12[at].arg = Canonical
    BY <1>4, Up12Is
  <2>2. Written(Up12[at]) = AccessOf(a.codes \cup Canonical, a.legacy \ Canonical, a.grants,
                                     a.version, a.direct, a.copy)
    BY <2>1, WrittenIs
  <2> DEFINE w == Written(Up12[at])
  <2>3. /\ w.legacy = a.legacy \ Canonical /\ w.grants = a.grants /\ w.direct = a.direct
        /\ w.copy = a.copy
    BY <2>2, Column
  <2>4. w.legacy = a.legacy
    BY <1>0, <2>3 DEF LegacyOnly
  <2> HIDE DEF w
  <2>5. ConvertedTo(w, at + 1)
    BY <1>4, <2>3, <2>4 DEF ConvertedTo, Had
  <2> QED BY <2>5 DEF w
<1>5. CASE at = 9
  <2>1. Up12[at].rows = "convert" /\ Up12[at].arg = "CUSTOM"
    BY <1>5, Up12Is
  <2> DEFINE g == [a.grants EXCEPT !["CUSTOM"] =
                     a.grants["CUSTOM"] \cup ConservativeCustomRoleMapping(a.grants["CUSTOM"])]
             v == [a.version EXCEPT !["CUSTOM"] = 2]
  <2>2. Written(Up12[at]) = AccessOf(a.codes, a.legacy, g, v, a.direct, a.copy)
    BY <2>1, WrittenIs
  <2>3. g["CUSTOM"] = a.grants["CUSTOM"] \cup ConservativeCustomRoleMapping(a.grants["CUSTOM"])
    BY <1>0
  <2>4. v["CUSTOM"] = 2
    BY <1>0
  <2> HIDE DEF g, v
  <2> DEFINE w == Written(Up12[at])
  <2>5. /\ w.legacy = a.legacy /\ w.grants = g /\ w.version = v /\ w.direct = a.direct
        /\ w.copy = a.copy
    BY <2>2, Column
  <2> HIDE DEF w
  <2>6. a.grants["CUSTOM"] = h
    BY <1>5 DEF ConvertedTo
  <2>7. w.grants["CUSTOM"] = h \cup ConservativeCustomRoleMapping(h) /\ Had(w) = h
    BY <2>3, <2>5, <2>6 DEF Had
  <2>8. ConvertedTo(w, at + 1)
    BY <1>5, <2>4, <2>5, <2>7 DEF ConvertedTo
  <2> QED BY <2>8 DEF w
<1>6. CASE at \in {10, 11}
  <2>1. /\ Up12[at].rows = "convert" /\ Up12[at].arg \in DOMAIN RoleMap
        /\ Up12[at].arg \in Roles \ {"CUSTOM"}
    <3>1. Up12[at].rows = "convert" /\ Up12[at].arg \in {"LEGAL_REVIEWER", "SYSTEM_ADMIN"}
      BY <1>6, Up12Is
    <3>2. Up12[at].arg \in Roles \ {"CUSTOM"}
      BY <3>1 DEF Roles
    <3> QED BY <3>1, <3>2, Conversions
  <2> DEFINE r == Up12[at].arg
             g == [a.grants EXCEPT ![r] = (a.grants[r] \ Canonical) \cup RoleMap[r]]
             v == [a.version EXCEPT ![r] = 2]
  <2>2. Written(Up12[at]) = AccessOf(a.codes, a.legacy, g, v, a.direct, a.copy)
    BY <2>1, WrittenIs
  <2> HIDE DEF r
  <2>3. r # "CUSTOM"
    BY <2>1 DEF r
  <2>4. g["CUSTOM"] = a.grants["CUSTOM"] /\ v["CUSTOM"] = a.version["CUSTOM"]
    BY <1>0, <2>3
  <2> HIDE DEF g, v
  <2> DEFINE w == Written(Up12[at])
  <2>5. /\ w.legacy = a.legacy /\ w.grants = g /\ w.version = v /\ w.direct = a.direct
        /\ w.copy = a.copy
    BY <2>2, Column
  <2> HIDE DEF w
  <2>6. ConvertedTo(w, at + 1)
    BY <1>6, <2>4, <2>5 DEF ConvertedTo, Had
  <2> QED BY <2>6 DEF w
<1>7. CASE at = 12
  <2>1. Up12[at].rows = "direct"
    BY <1>7, Up12Is
  <2>2. Written(Up12[at]) = AccessOf(a.codes, a.legacy, a.grants, a.version,
                                     DirectConverted(a.direct), a.copy)
    BY <2>1, WrittenIs
  <2> DEFINE w == Written(Up12[at])
  <2>3. /\ w.legacy = a.legacy /\ w.grants = a.grants /\ w.version = a.version
        /\ w.direct = DirectConverted(a.direct) /\ w.copy = a.copy
    BY <2>2, Column
  <2> HIDE DEF w
  <2>4. ConvertedTo(w, at + 1)
    BY <1>7, <2>3 DEF ConvertedTo, Had
  <2> QED BY <2>4 DEF w
<1> QED BY <1>1, <1>2, <1>3, <1>4, <1>5, <1>6, <1>7

LEMMA AccessForward ==
  ASSUME MigrationInv, SchemaStands, AccessStands, Execute, runner.way = "up"
  PROVE  AccessStands'
<1>0. SchemaRows /\ SoundRows(access)
  BY DEF MigrationInv, SchemaRows
<1>1. /\ Running /\ runner.at \in Nat /\ runner.at \in DOMAIN Script /\ Script' = Script
      /\ Statement = Script[runner.at] /\ UNCHANGED <<recorded, broken>>
  BY <1>0, Executes
<1>2. /\ runner'.way = "up" /\ runner'.number = runner.number /\ runner'.at = runner.at + 1
      /\ runner'.saved = runner.saved
  BY <1>0, Executes
<1>3. /\ runner.number \in Numbers /\ Adds(Script, runner.number)
      /\ Defines(Script, runner.number) /\ Script = Up[runner.number - 9]
  BY <1>0, <1>1, Runs
<1>4. access.codes \subseteq access'.codes
  BY ExecuteForward
<1>5. SUFFICES ASSUME Unbroken', DeletedRole \notin used'
               PROVE  /\ Carried(access', recorded)
                      /\ Carried(runner.saved, recorded)
                      /\ runner.number = 12 => ConvertedTo(access', runner.at + 1)
  <2>1. runner.saved' = runner.saved
    BY <1>2
  <2> QED BY <1>1, <1>2, <2>1 DEF AccessStands
<1>6. Unbroken /\ DeletedRole \notin used
  <2>1. Statement.kind = "ddl" => DeletedRole \notin Forgotten(Statement.drop)
    BY <1>1, <1>3, DeletedRoleStays DEF Adds
  <2>2. DeletedRole \notin used
    BY <1>0, <1>5, <2>1, Executes
  <2> QED BY <1>1, <1>5, <2>2 DEF Unbroken
<1>7. /\ Carried(access, recorded) /\ Carried(runner.saved, recorded)
      /\ runner.number = 12 => ConvertedTo(access, runner.at)
  BY <1>1, <1>6 DEF AccessStands
<1>8. runner.number \notin recorded /\ 10..(runner.number - 1) \subseteq recorded
  BY DEF SchemaStands, MigrationInv, Ascending
<1>9. CASE runner.number = 10
  <2>1. 12 \notin recorded
    <3>1. ASSUME 12 \in recorded PROVE FALSE
      <4>1. 10 \in 10..12
        OBVIOUS
      <4>2. 10 \in recorded
        BY <1>0, <3>1, <4>1 DEF SchemaRows
      <4> QED BY <1>8, <1>9, <4>2
    <3> QED BY <3>1
  <2> QED BY <1>7, <1>8, <1>9, <2>1 DEF Carried
<1>10. CASE runner.number = 12
  <2>1. LegacyOnly \subseteq access.codes
    <3>1. 10 \in 10..(12 - 1)
      OBVIOUS
    <3>2. 10 \in recorded
      BY <1>8, <1>10, <3>1
    <3> QED BY <1>7, <3>2 DEF Carried
  <2>2. Carried(access', recorded)
    BY <1>4, <1>8, <1>10, <2>1 DEF Carried
  <2>3. Script = Up12
    <3>1. Up[12 - 9] = Up12
      BY DEF Up
    <3> QED BY <1>3, <1>10, <3>1
  <2>4. runner.at \in 1..12
    BY <1>1, <2>3, Up12Is
  <2>5. CASE Statement.kind = "dml"
    <3>1. access' = Written(Up12[runner.at])
      BY <1>0, <1>1, <2>3, <2>5, Executes
    <3>2. ConvertedTo(Written(Up12[runner.at]), runner.at + 1)
      BY <1>0, <1>1, <1>7, <1>10, <2>1, <2>3, <2>4, <2>5, ConversionSteps
    <3> QED BY <1>7, <2>2, <3>1, <3>2
  <2>6. CASE Statement.kind # "dml"
    <3>1. runner.at \notin {4, 7, 8, 9, 10, 11, 12}
      BY <1>1, <2>3, <2>6, Up12Is
    <3>2. runner.at \in {1, 2, 3, 5, 6}
      BY <2>4, <3>1
    <3>3. access' = access
      <4>1. Statement.kind = "ddl" /\ Statement.drop = {}
        BY <1>1, <2>3, <3>2, Up12Is
      <4>2. access' = Dropped(Statement.drop)
        BY <1>0, <4>1, Executes
      <4> QED BY <1>0, <4>1, <4>2, DroppedIs
    <3>4. ConvertedTo(access, runner.at + 1)
      BY <1>7, <1>10, <3>2 DEF ConvertedTo
    <3> QED BY <1>7, <2>2, <3>3, <3>4
  <2> QED BY <2>5, <2>6
<1>11. CASE runner.number \notin {10, 12}
  <2>1. CASE Statement.kind = "dml"
    <3>1. Statement.rows = "define"
      BY <1>1, <1>3, <1>11, <2>1 DEF Defines
    <3>2. access' = AccessOf(access.codes \cup Statement.arg, access.legacy, access.grants,
                             access.version, access.direct, access.copy)
      BY <1>0, <2>1, <3>1, Executes, WrittenIs
    <3>3. /\ access'.legacy = access.legacy /\ access'.grants = access.grants
          /\ access'.version = access.version /\ access'.direct = access.direct
          /\ access'.copy = access.copy
      BY <3>2, Column
    <3>4. Carried(access', recorded)
      BY <1>4, <1>7, <3>3, CarriedWhen
    <3> QED BY <1>7, <1>11, <3>4
  <2>2. CASE Statement.kind = "ddl"
    <3>1. Statement.drop \cap GrantTables = {}
      BY <1>1, <1>3, <2>2, NoGrantsLost DEF Adds
    <3>2. access' = Dropped(Statement.drop)
      BY <1>0, <2>2, Executes
    <3>3. access' = access
      BY <1>0, <3>1, <3>2, DroppedIs
    <3> QED BY <1>7, <1>11, <3>3
  <2>3. CASE Statement.kind = "look"
    <3>1. access' = access
      BY <1>0, <2>3, Executes
    <3> QED BY <1>7, <1>11, <3>1
  <2> QED BY <1>0, <2>1, <2>2, <2>3, Executes
<1> QED BY <1>9, <1>10, <1>11

\* Codes taken back that were never granted take no grant along.
LEMMA CarriedWithout ==
  ASSUME SoundRows(access), NEW gone, gone \cap Grantable = {}, NEW numbers,
         Carried(access, numbers)
  PROVE  Carried(RowsWithout(gone, access.legacy), numbers)
<1>0. /\ access.grants \in [Roles -> SUBSET Grantable] /\ access.direct \in SUBSET DirectRow
      /\ "CUSTOM" \in Roles
  BY RowIs DEF Roles
<1> DEFINE g == [r \in Roles |-> access.grants[r] \ gone]
           d == {x \in access.direct : x.code \notin gone}
           w == RowsWithout(gone, access.legacy)
<1>1. g["CUSTOM"] = access.grants["CUSTOM"]
  BY <1>0
<1>2. d = access.direct
  <2>1. \A x \in access.direct : x.code \in Grantable
    BY <1>0 DEF DirectRow
  <2> QED BY <2>1
<1>3. w = AccessOf(access.codes \ gone, access.legacy, g, access.version, d, access.copy)
  BY Zenon DEF RowsWithout
<1> HIDE DEF g, d
<1>4. /\ w.codes = access.codes \ gone /\ w.legacy = access.legacy /\ w.grants = g
      /\ w.version = access.version /\ w.direct = d /\ w.copy = access.copy
  BY <1>3, Column
<1> HIDE DEF w
<1>5. LegacyOnly \subseteq access.codes => LegacyOnly \subseteq w.codes
  BY <1>4, Conversions
<1>6. Carried(w, numbers)
  BY <1>1, <1>2, <1>4, <1>5, CarriedWhen
<1> QED BY <1>6 DEF w

LEMMA AccessBackward ==
  ASSUME MigrationInv, SchemaStands, AccessStands, Execute, runner.way = "down"
  PROVE  AccessStands'
<1>0. SchemaRows /\ SoundRows(access)
  BY DEF MigrationInv, SchemaRows
<1>1. /\ Running /\ runner.at \in Nat /\ runner.at \in DOMAIN Script /\ Script' = Script
      /\ Statement = Script[runner.at] /\ UNCHANGED <<recorded, broken>>
  BY <1>0, Executes
<1>2. /\ runner'.way = "down" /\ runner'.number = runner.number /\ runner'.at = runner.at + 1
      /\ runner'.saved = runner.saved
  BY <1>0, Executes
<1>3. /\ runner.number \in Numbers /\ TakesBack(Script, runner.number)
      /\ Undefines(Script, runner.number) /\ Script = Down[runner.number - 9]
  BY <1>0, <1>1, Runs
<1>5. SUFFICES ASSUME Unbroken', DeletedRole \notin used'
               PROVE  /\ Carried(runner.saved, recorded)
                      /\ runner.number \notin {10, 12} => Carried(access', recorded)
                      /\ runner.number = 12 =>
                           /\ access'.copy = runner.saved.copy
                           /\ runner.at + 1 > 2 => LegacyOnly \subseteq access'.codes
  <2>1. runner.saved' = runner.saved
    BY <1>2
  <2> QED BY <1>1, <1>2, <2>1 DEF AccessStands, Restoring
<1>6. Unbroken /\ DeletedRole \notin used
  <2>1. Statement.kind = "ddl" => DeletedRole \notin Forgotten(Statement.drop)
    BY <1>1, <1>3, DeletedRoleStays DEF TakesBack
  <2>2. DeletedRole \notin used
    BY <1>0, <1>5, <2>1, Executes
  <2> QED BY <1>1, <1>5, <2>2 DEF Unbroken
<1>7. Carried(runner.saved, recorded) /\ Restoring
  BY <1>1, <1>6 DEF AccessStands
<1>8. ASSUME Statement.kind = "ddl", runner.number # 10 PROVE access' = access
  <2>1. Statement.drop \cap GrantTables = {}
    BY <1>1, <1>3, <1>8, GrantTablesStay DEF TakesBack
  <2>2. access' = Dropped(Statement.drop)
    BY <1>0, <1>8, Executes
  <2> QED BY <1>0, <2>1, <2>2, DroppedIs
<1>9. ASSUME runner.number \notin {10, 12} PROVE Carried(access', recorded)
  <2>0. Carried(access, recorded)
    BY <1>7, <1>9 DEF Restoring
  <2>1. CASE Statement.kind = "dml"
    <3>1. Statement.rows = "undefine" /\ Statement.arg \cap Grantable = {}
      BY <1>1, <1>3, <1>9, <2>1 DEF Undefines
    <3>2. access' = RowsWithout(Statement.arg, access.legacy)
      BY <1>0, <2>1, <3>1, Executes, WrittenIs
    <3> QED BY <1>0, <2>0, <3>1, <3>2, CarriedWithout
  <2>2. CASE Statement.kind = "ddl"
    BY <1>8, <1>9, <2>0, <2>2
  <2>3. CASE Statement.kind = "look"
    <3>1. access' = access
      BY <1>0, <2>3, Executes
    <3> QED BY <2>0, <3>1
  <2> QED BY <1>0, <2>1, <2>2, <2>3, Executes
<1>10. ASSUME runner.number = 12
       PROVE  /\ access'.copy = runner.saved.copy
              /\ runner.at + 1 > 2 => LegacyOnly \subseteq access'.codes
  <2>0. /\ access.copy = runner.saved.copy
        /\ runner.at > 2 => LegacyOnly \subseteq access.codes
    BY <1>7, <1>10 DEF Restoring
  <2>1. Script = Down12
    <3>1. Down[12 - 9] = Down12
      BY DEF Down
    <3> QED BY <1>3, <1>10, <3>1
  <2>2. runner.at \in 1..7
    BY <1>1, <2>1, Down12Is
  <2>3. CASE runner.at = 1
    <3>1. Statement.kind = "dml" /\ Statement.rows = "empty"
      BY <1>1, <2>1, <2>3, Down12Is
    <3>2. access' = RowsWithout(Codes, {})
      BY <1>0, <3>1, Executes, WrittenIs
    <3> DEFINE g == [r \in Roles |-> access.grants[r] \ Codes]
               d == {x \in access.direct : x.code \notin Codes}
    <3>3. access' = AccessOf(access.codes \ Codes, {}, g, access.version, d, access.copy)
      BY <3>2, Zenon DEF RowsWithout
    <3> HIDE DEF g, d
    <3>4. access'.copy = access.copy
      BY <3>3, Column
    <3> QED BY <2>0, <2>3, <3>4
  <2>4. CASE runner.at = 2
    <3>1. Statement.kind = "dml" /\ Statement.rows = "restore"
      BY <1>1, <2>1, <2>4, Down12Is
    <3> DEFINE k == access.copy
               v == [r \in Roles |-> 1]
    <3>2. access' = AccessOf(k.codes, access.legacy, k.grants, v, k.direct, k)
      BY <1>0, <3>1, Executes, WrittenIs
    <3> HIDE DEF v
    <3>3. access'.codes = access.copy.codes /\ access'.copy = access.copy
      BY <3>2, Column
    <3>4. LegacyOnly \subseteq runner.saved.copy.codes
      <4>1. 12 \in recorded
        BY <1>10 DEF MigrationInv, Descending
      <4> QED BY <1>7, <4>1 DEF Carried
    <3> QED BY <2>0, <3>3, <3>4
  <2>5. CASE runner.at \in 3..7
    <3>1. Statement.kind = "ddl"
      BY <1>1, <2>1, <2>5, Down12Is
    <3>2. access' = access
      BY <1>8, <1>10, <3>1
    <3> QED BY <2>0, <2>5, <3>2
  <2> QED BY <2>2, <2>3, <2>4, <2>5
<1> QED BY <1>7, <1>9, <1>10

\* When a migration is broken off, what is rolled back has changed no grant, or the revert
\* has changed the schema before, and counts as one that broke off.
LEMMA AccessRolledBack ==
  ASSUME MigrationInv, SchemaStands, AccessStands, Running, NEW o, RollBack(o),
         \/ o = runner.open
         \/ Here /\ Fails(Statement) /\ Statement.kind = "ddl"
  PROVE  AccessStands'
<1>0. SchemaRows
  BY DEF MigrationInv
<1>1. /\ runner' = [way |-> "idle"] /\ facts' = facts /\ recorded' = recorded /\ used' = used
      /\ broken' = IF facts = runner.found THEN broken
                   ELSE broken \cup {<<runner.way, runner.number>>}
      /\ access' = IF o THEN runner.saved ELSE access
  BY DEF RollBack
<1>2. runner'.way = "idle"
  BY <1>1
<1>3. SUFFICES ASSUME Unbroken', DeletedRole \notin used' PROVE Carried(access', recorded)
  BY <1>1, <1>2 DEF AccessStands, Running
<1>4. Unbroken /\ DeletedRole \notin used
  BY <1>1, <1>3 DEF Unbroken
<1>5. /\ Carried(runner.saved, recorded)
      /\ runner.way # "down" => Carried(access, recorded)
      /\ runner.way = "down" => Restoring
  BY <1>4 DEF AccessStands
<1>6. CASE runner.way # "down"
  BY <1>1, <1>5, <1>6
<1>7. CASE runner.way = "down" /\ runner.number \notin {10, 12}
  BY <1>1, <1>5, <1>7 DEF Restoring
<1>8. ASSUME runner.way = "down", NEW j \in 1..(runner.at - 1), Script[j].kind = "ddl"
      PROVE  Script[j].drop = {}
  <2>1. Script[j].drop \subseteq runner.found \ facts
    BY <1>8 DEF SchemaStands
  <2>2. facts = runner.found
    <3>1. SUFFICES ASSUME facts # runner.found PROVE FALSE
      OBVIOUS
    <3>2. <<runner.way, runner.number>> \in broken'
      BY <1>1, <3>1
    <3>3. <<runner.way, runner.number>>[1] = "up"
      BY <1>3, <3>2 DEF Unbroken
    <3> QED BY <1>8, <3>3
  <2> QED BY <2>1, <2>2
<1>9. CASE runner.way = "down" /\ runner.number = 10
  <2>1. Script = Down10
    <3>1. Down[10 - 9] = Down10
      BY DEF Down
    <3> QED BY <1>0, <1>9, <3>1, Runs
  <2>2. runner.at \in Nat /\ runner.at >= 1
    <3>1. Len(Script) \in Nat
      BY <1>0, Runs DEF List
    <3> QED BY <1>0, <3>1, Runs
  <2>3. Down10[1].kind = "ddl" /\ <<"user_roles", "assigned_by">> \in Down10[1].drop
    BY DEF Down10, Drop, Alter
  <2>4. ~(1 \in 1..(runner.at - 1))
    BY <1>8, <1>9, <2>1, <2>3
  <2>5. runner.at = 1
    BY <2>2, <2>4
  <2>6. \A j \in 1..(runner.at - 1) : FALSE
    BY <2>5
  <2>7. access = runner.saved
    BY <1>9, <2>6 DEF MigrationInv, Descending
  <2> QED BY <1>1, <1>5, <2>7
<1>10. CASE runner.way = "down" /\ runner.number = 12
  <2>1. Script = Down12
    <3>1. Down[12 - 9] = Down12
      BY DEF Down
    <3> QED BY <1>0, <1>10, <3>1, Runs
  <2>2. runner.at \in 1..8
    BY <1>0, <2>1, Runs, Down12Is
  <2>3. Down12[3].kind = "ddl" /\ <<"roles", "authority_level">> \in Down12[3].drop
    BY Down12Is
  <2>4. ~(3 \in 1..(runner.at - 1))
    BY <1>8, <1>10, <2>1, <2>3
  <2>5. runner.at \in 1..3
    BY <2>2, <2>4
  <2>6. \A j \in 1..(runner.at - 1) : Script[j].kind # "ddl"
    <3>1. \A j \in 1..(runner.at - 1) : j \in {1, 2}
      BY <2>5
    <3> QED BY <2>1, <3>1, Down12Is
  <2>7. facts = runner.found /\ runner.open = TRUE
    BY <1>10, <2>6 DEF MigrationInv, Descending
  <2>8. o = runner.open
    <3>1. SUFFICES ASSUME Here, Fails(Statement), Statement.kind = "ddl" PROVE FALSE
      OBVIOUS
    <3>2. Statement = Down12[runner.at]
      BY <2>1 DEF Statement
    <3>3. runner.at = 3
      BY <2>5, <3>1, <3>2, Down12Is
    <3>4. /\ Statement.refusedBy = {} /\ Statement.add = {}
          /\ Statement.drop = {"roles"} \X {"authority_level", "permission_model_version"}
      BY <3>2, <3>3, Down12Is
    <3>5. Statement.drop \subseteq facts
      <4>1. Done(12, runner.found)
        BY <1>4, <1>10 DEF SchemaStands
      <4>2. Up[12 - 9] = Up12
        BY DEF Up
      <4>3. 6 \in DOMAIN Up12 /\ Up12[6].kind = "ddl" /\ Up12[6].add = Statement.drop
        BY <3>4, Up12Is
      <4> QED BY <2>7, <4>1, <4>2, <4>3 DEF Done
    <3> QED BY <3>1, <3>4, <3>5 DEF Fails
  <2>9. access' = runner.saved
    BY <1>1, <2>7, <2>8
  <2> QED BY <1>5, <2>9
<1> QED BY <1>6, <1>7, <1>9, <1>10

LEMMA AccessNoted ==
  ASSUME MigrationInv, SchemaStands, AccessStands, Noted
  PROVE  AccessStands'
<1>0. SchemaRows
  BY DEF MigrationInv
<1>1. /\ runner' = [way |-> "idle"] /\ UNCHANGED <<facts, access, broken, used>>
      /\ Running /\ runner.at = Len(Script) + 1
      /\ recorded' = IF runner.way = "up" THEN recorded \cup {runner.number}
                     ELSE recorded \ {runner.number}
  BY DEF Noted
<1>2. runner'.way = "idle"
  BY <1>1
<1>3. runner.way \in {"up", "down"} /\ runner.number \in Numbers
  BY <1>0, <1>1, Runs
<1>4. SUFFICES ASSUME Unbroken, DeletedRole \notin used PROVE Carried(access, recorded')
  <2>1. Unbroken' => Unbroken
    BY <1>1 DEF Unbroken
  <2>2. access' = access /\ used' = used
    BY <1>1
  <2> QED BY <1>2, <2>1, <2>2 DEF AccessStands, Running
<1>5. CASE runner.way = "up"
  <2>1. /\ Carried(access, recorded)
        /\ runner.number = 12 => ConvertedTo(access, runner.at)
    BY <1>4, <1>5 DEF AccessStands
  <2>2. recorded' = recorded \cup {runner.number} /\ runner.number \notin recorded
    BY <1>1, <1>5 DEF SchemaStands
  <2>3. Script = Up[runner.number - 9]
    BY <1>0, <1>1, <1>5, Runs
  <2>4. CASE runner.number = 10
    <3>1. Script = Up10
      <4>1. Up[10 - 9] = Up10
        BY DEF Up
      <4> QED BY <2>3, <2>4, <4>1
    <3>2. Len(Up10) = 7 /\ Up10[6] = Write("define", OldCodes)
      BY DEF Up10
    <3>3. 6 \in 1..(runner.at - 1)
      BY <1>1, <3>1, <3>2
    <3>4. OldCodes \subseteq access.codes
      BY <1>5, <3>1, <3>2, <3>3 DEF MigrationInv, Ascending
    <3>5. 12 \notin recorded
      <4>1. ASSUME 12 \in recorded PROVE FALSE
        <5>1. 10 \in 10..12
          OBVIOUS
        <5>2. 10 \in recorded
          BY <1>0, <4>1, <5>1 DEF SchemaRows
        <5> QED BY <2>2, <2>4, <5>2
      <4> QED BY <4>1
    <3>6. LegacyOnly \subseteq access.codes
      BY <3>4 DEF LegacyOnly
    <3> QED BY <2>2, <2>4, <3>5, <3>6 DEF Carried
  <2>5. CASE runner.number = 12
    <3>1. Script = Up12
      <4>1. Up[12 - 9] = Up12
        BY DEF Up
      <4> QED BY <2>3, <2>5, <4>1
    <3>2. runner.at = 13
      BY <1>1, <3>1, Up12Is
    <3>3. LegacyOnly \subseteq access.copy.codes /\ Converted(access)
      BY <2>1, <2>5, <3>2 DEF ConvertedTo, Converted
    <3>4. 10 \in recorded' => 10 \in recorded
      BY <2>2, <2>5
    <3> QED BY <2>1, <3>3, <3>4 DEF Carried
  <2>6. CASE runner.number \notin {10, 12}
    BY <2>1, <2>2, <2>6 DEF Carried
  <2> QED BY <2>4, <2>5, <2>6
<1>6. CASE runner.way = "down"
  <2>1. recorded' = recorded \ {runner.number} /\ Restoring
    BY <1>1, <1>4, <1>6 DEF AccessStands
  <2>2. CASE runner.number = 10
    <3>1. \A m \in recorded : m <= 10
      BY <1>6, <2>2 DEF MigrationInv, Descending
    <3>2. 12 \notin recorded
      BY <3>1
    <3> QED BY <2>1, <2>2, <3>2 DEF Carried
  <2>3. CASE runner.number = 12
    <3>1. Script = Down12
      <4>1. Down[12 - 9] = Down12
        BY DEF Down
      <4> QED BY <1>0, <1>1, <1>6, <2>3, <4>1, Runs
    <3>2. runner.at = 8
      BY <1>1, <3>1, Down12Is
    <3>3. LegacyOnly \subseteq access.codes
      BY <2>1, <2>3, <3>2 DEF Restoring
    <3> QED BY <2>1, <2>3, <3>3 DEF Carried
  <2>4. CASE runner.number \notin {10, 12}
    BY <2>1, <2>4 DEF Carried, Restoring
  <2> QED BY <2>2, <2>3, <2>4
<1> QED BY <1>3, <1>5, <1>6

LEMMA AccessBegun ==
  ASSUME MigrationInv, AccessStands, runner.way = "idle", NEW way \in {"up", "down"},
         NEW number \in Numbers, Begun(way, number),
         UNCHANGED <<facts, access, recorded, broken, used>>
  PROVE  AccessStands'
<1>1. runner' = [way |-> way, number |-> number, at |-> 1, open |-> TRUE,
                 saved |-> access, found |-> facts]
  BY DEF Begun
<1>2. runner'.way = way /\ runner'.number = number /\ runner'.at = 1 /\ runner'.saved = access
  BY <1>1
<1>3. SUFFICES ASSUME Unbroken', DeletedRole \notin used'
               PROVE  Carried(access, recorded) /\ ConvertedTo(access, 1)
  <2>1. /\ access' = access /\ recorded' = recorded /\ runner.saved' = access
        /\ runner.at' = 1 /\ runner.way' = way /\ runner.number' = number
    BY <1>2
  <2>2. access'.copy = runner'.saved.copy /\ ~(runner'.at > 2)
    BY <1>2, <2>1
  <2> QED BY <2>1, <2>2 DEF AccessStands, Restoring
<1>4. Carried(access, recorded)
  BY <1>3 DEF AccessStands, Unbroken
<1>5. ConvertedTo(access, 1)
  BY DEF ConvertedTo
<1> QED BY <1>4, <1>5

LEMMA AccessStarts == MigrationInit => AccessStands
<1> SUFFICES ASSUME MigrationInit PROVE AccessStands
  OBVIOUS
<1>1. runner = [way |-> "idle"]
  BY DEF MigrationInit
<1>2. runner.way = "idle"
  BY <1>1
<1>3. Carried(access, recorded)
  <2>1. CASE EmptyBefore10
    BY <2>1 DEF EmptyBefore10, Carried
  <2>2. CASE InUseBefore12
    <3>1. recorded = {10, 11}
      BY <2>2 DEF InUseBefore12
    <3>2. access.codes = OldCodes
      BY <2>2, Zenon DEF InUseBefore12, Granted, NoneUsed
    <3> QED BY <3>1, <3>2 DEF Carried, LegacyOnly
  <2> QED BY <2>1, <2>2 DEF MigrationInit
<1> QED BY <1>2, <1>3 DEF AccessStands, Running

LEMMA AccessUsed ==
  ASSUME MigrationInv, AccessStands, NEW u \in Uses, Use(u) \/ Reenable(u)
  PROVE  AccessStands'
<1>1. UNCHANGED <<facts, recorded, runner, broken>> /\ ~Running
  BY DEF Use, Reenable, InUse
<1>2. runner.way = "idle" /\ runner'.way = "idle"
  BY <1>1 DEF Running
<1>3. DeletedRole \notin used' => DeletedRole \notin used /\ access' = access
  <2>1. CASE Use(u)
    BY <2>1 DEF Use, DeletedRole
  <2>2. CASE Reenable(u)
    <3>1. u # DeletedRole
      <4>1. u[2] = "is_active"
        BY <2>2 DEF Reenable
      <4> QED BY <4>1 DEF DeletedRole
    <3> QED BY <2>2, <3>1 DEF Reenable
  <2> QED BY <2>1, <2>2
<1>4. recorded' = recorded /\ (Unbroken' => Unbroken)
  BY <1>1 DEF Unbroken
<1> QED BY <1>2, <1>3, <1>4 DEF AccessStands, Running

LEMMA AccessUntouched ==
  ASSUME AccessStands, UNCHANGED migrationVars
  PROVE  AccessStands'
<1>1. /\ facts' = facts /\ access' = access /\ recorded' = recorded /\ runner' = runner
      /\ broken' = broken /\ used' = used
  BY DEF migrationVars
<1> QED BY <1>1 DEF AccessStands, Restoring, Running, Unbroken

LEMMA AccessSteps ==
  MigrationInv /\ SchemaStands /\ AccessStands /\ [MigrationNext]_migrationVars => AccessStands'
<1> SUFFICES ASSUME MigrationInv, SchemaStands, AccessStands, [MigrationNext]_migrationVars
             PROVE  AccessStands'
  OBVIOUS
<1>1. CASE BeginUp
  <2>1. PICK number \in Numbers \ recorded : Begun("up", number)
    BY <1>1, NextUp
  <2> QED BY <1>1, <2>1, NextUp, AccessBegun
<1>2. CASE BeginDown
  <2>1. PICK number \in recorded : number \in Numbers /\ Begun("down", number)
    BY <1>2, NextDown
  <2> QED BY <1>2, <2>1, NextDown, AccessBegun
<1>3. CASE Execute
  <2>1. Running /\ runner.way \in {"up", "down"}
    BY <1>3, Executes, Runs DEF MigrationInv
  <2> QED BY <1>3, <2>1, AccessForward, AccessBackward
<1>4. CASE Fail
  <2>1. /\ Running /\ Here /\ Fails(Statement)
        /\ RollBack(runner.open /\ Statement.kind # "ddl")
    BY <1>4 DEF Fail, Here
  <2>2. runner.open \in BOOLEAN
    BY <2>1, Runs DEF MigrationInv
  <2>3. (runner.open /\ Statement.kind # "ddl") = runner.open \/ Statement.kind = "ddl"
    BY <2>2
  <2> QED BY <2>1, <2>3, AccessRolledBack
<1>5. CASE Crash
  BY <1>5, AccessRolledBack DEF Crash
<1>6. CASE Noted
  BY <1>6, AccessNoted
<1>7. ASSUME NEW u \in Uses, Use(u) \/ Reenable(u) PROVE AccessStands'
  BY <1>7, AccessUsed
<1>8. CASE UNCHANGED migrationVars
  BY <1>8, AccessUntouched
<1> QED BY <1>1, <1>2, <1>3, <1>4, <1>5, <1>6, <1>7, <1>8 DEF MigrationNext

-----------------------------------------------------------------------------
\* What direct grants come to: every code that those of an effect and a scope stand for.
CodesOf(rows, effect, scopes) ==
  UNION {DirectTargets(d.code) : d \in {x \in rows : x.effect = effect /\ x.scope \in scopes}}

\* The conversion of direct grants keeps what is denied, and what is allowed without it.
LEMMA DirectAgrees ==
  ASSUME NEW rows \in SUBSET DirectRow
  PROVE  LET made == DirectConverted(rows)
             denied == CodesOf(rows, "DENY", {"ALL", "OWN"})
         IN /\ CodesOf(made, "DENY", {"ALL", "OWN"}) = denied
            /\ CodesOf(made, "ALLOW", {"ALL"}) \ denied = CodesOf(rows, "ALLOW", {"ALL"}) \ denied
<1> DEFINE counted == {d \in rows : d.effect = "DENY" \/ d.scope = "ALL"}
           targets == UNION {DirectTargets(d.code) : d \in counted}
           Denied(t) == \E d \in rows : d.effect = "DENY" /\ t \in DirectTargets(d.code)
           row(t) == [code |-> t, scope |-> "ALL",
                      effect |-> IF Denied(t) THEN "DENY" ELSE "ALLOW"]
           left == {d \in rows : d.code \notin targets}
           new == {row(t) : t \in targets}
           made == DirectConverted(rows)
           denied == CodesOf(rows, "DENY", {"ALL", "OWN"})
           allowed == CodesOf(rows, "ALLOW", {"ALL"})
<1>1. made = left \cup new
  BY Zenon DEF DirectConverted
<1>2. \A d \in rows : /\ d.effect \in {"ALLOW", "DENY"} /\ d.scope \in {"ALL", "OWN"}
                      /\ d.code \in Grantable
  BY DEF DirectRow
<1>3. \A t : /\ row(t).code = t /\ row(t).scope = "ALL"
             /\ Denied(t) => row(t).effect = "DENY"
             /\ ~Denied(t) => row(t).effect = "ALLOW"
  OBVIOUS
<1>4. targets \subseteq Canonical
  BY <1>2, Conversions
<1>5. \A t \in targets : DirectTargets(t) = {t}
  BY <1>4, Conversions
<1>6. \A t : Denied(t) <=> t \in denied
  <2>1. \A t : t \in denied <=> \E d \in rows : /\ d.effect = "DENY" /\ d.scope \in {"ALL", "OWN"}
                                                /\ t \in DirectTargets(d.code)
    BY DEF CodesOf
  <2> QED BY <1>2, <2>1
<1>7. \A t : t \in allowed <=> \E d \in rows : /\ d.effect = "ALLOW" /\ d.scope = "ALL"
                                               /\ t \in DirectTargets(d.code)
  BY DEF CodesOf
<1>8. \A t : t \in targets <=> \E d \in rows : /\ d.effect = "DENY" \/ d.scope = "ALL"
                                               /\ t \in DirectTargets(d.code)
  OBVIOUS
<1>9. \A t \in targets : t \in denied \/ t \in allowed
  BY <1>2, <1>6, <1>7, <1>8
<1>10. denied \subseteq targets /\ allowed \subseteq targets
  BY <1>6, <1>7, <1>8
<1>11. \A t : t \in CodesOf(made, "DENY", {"ALL", "OWN"}) <=>
         \E d \in made : /\ d.effect = "DENY" /\ d.scope \in {"ALL", "OWN"}
                         /\ t \in DirectTargets(d.code)
  BY DEF CodesOf
<1>12. \A t : t \in CodesOf(made, "ALLOW", {"ALL"}) <=>
         \E d \in made : d.effect = "ALLOW" /\ d.scope = "ALL" /\ t \in DirectTargets(d.code)
  BY DEF CodesOf
<1>13. \A d \in made : d \in rows \/ \E t \in targets : d = row(t)
  BY <1>1
<1>14. \A t \in targets : row(t) \in made
  BY <1>1
<1> HIDE DEF counted, targets, row, left, new, made, denied, allowed
<1>15. ASSUME NEW t PROVE t \in CodesOf(made, "DENY", {"ALL", "OWN"}) <=> t \in denied
  <2>1. ASSUME t \in denied PROVE t \in CodesOf(made, "DENY", {"ALL", "OWN"})
    <3>1. t \in targets /\ Denied(t)
      BY <1>6, <1>10, <2>1
    <3>2. row(t) \in made /\ row(t).effect = "DENY" /\ row(t).scope = "ALL" /\ row(t).code = t
      BY <1>3, <1>14, <3>1
    <3>3. t \in DirectTargets(row(t).code)
      BY <1>5, <3>1, <3>2
    <3> QED BY <1>11, <3>2, <3>3
  <2>2. ASSUME t \in CodesOf(made, "DENY", {"ALL", "OWN"}) PROVE t \in denied
    <3>1. PICK d \in made : d.effect = "DENY" /\ t \in DirectTargets(d.code)
      BY <1>11, <2>2
    <3>2. CASE d \in rows
      BY <1>6, <3>1, <3>2
    <3>3. CASE \E s \in targets : d = row(s)
      <4>1. PICK s \in targets : d = row(s)
        BY <3>3
      <4>2. d.code = s /\ DirectTargets(s) = {s}
        BY <1>3, <1>5, <4>1
      <4>3. s = t
        BY <3>1, <4>2
      <4>4. Denied(t)
        BY <1>3, <3>1, <4>1, <4>3
      <4> QED BY <1>6, <4>4
    <3> QED BY <1>13, <3>2, <3>3
  <2> QED BY <2>1, <2>2
<1>16. ASSUME NEW t, t \notin denied
       PROVE  t \in CodesOf(made, "ALLOW", {"ALL"}) <=> t \in allowed
  <2>1. ASSUME t \in allowed PROVE t \in CodesOf(made, "ALLOW", {"ALL"})
    <3>1. t \in targets /\ ~Denied(t)
      BY <1>6, <1>10, <1>16, <2>1
    <3>2. row(t) \in made /\ row(t).effect = "ALLOW" /\ row(t).scope = "ALL" /\ row(t).code = t
      BY <1>3, <1>14, <3>1
    <3>3. t \in DirectTargets(row(t).code)
      BY <1>5, <3>1, <3>2
    <3> QED BY <1>12, <3>2, <3>3
  <2>2. ASSUME t \in CodesOf(made, "ALLOW", {"ALL"}) PROVE t \in allowed
    <3>1. PICK d \in made : d.effect = "ALLOW" /\ d.scope = "ALL" /\ t \in DirectTargets(d.code)
      BY <1>12, <2>2
    <3>2. CASE d \in rows
      BY <1>7, <3>1, <3>2
    <3>3. CASE \E s \in targets : d = row(s)
      <4>1. PICK s \in targets : d = row(s)
        BY <3>3
      <4>2. d.code = s /\ DirectTargets(s) = {s}
        BY <1>3, <1>5, <4>1
      <4>3. t \in targets
        BY <3>1, <4>2
      <4> QED BY <1>9, <1>16, <4>3
    <3> QED BY <1>13, <3>2, <3>3
  <2> QED BY <2>1, <2>2
<1>17. CodesOf(made, "DENY", {"ALL", "OWN"}) = denied
  BY <1>15
<1>18. CodesOf(made, "ALLOW", {"ALL"}) \ denied = allowed \ denied
  BY <1>16
<1> QED BY <1>17, <1>18 DEF made, denied, allowed

\* A session on converted grants holds what the map makes of the copy.
LEMMA SessionIsMapped ==
  ASSUME SoundRows(access), Converted(access)
  PROVE  Session = Mapped(access.copy)
<1> DEFINE h == Had(access)
           cons == ConservativeCustomRoleMapping(h)
           rows == access.copy.direct
           made == access.direct
           denied == CodesOf(rows, "DENY", {"ALL", "OWN"})
           allowed == CodesOf(rows, "ALLOW", {"ALL"})
           counts(c) == ~(c \in access.legacy /\ access.version["CUSTOM"] = 2)
           fromRole == UNION {Targets(c) : c \in {g \in access.grants["CUSTOM"] : counts(g)}}
           direct(effect, scopes) ==
             UNION {Targets(d.code) :
                      d \in {x \in access.direct : x.effect = effect /\ x.scope \in scopes}}
<1>1. /\ access.copy.grants \in [Roles -> SUBSET Grantable] /\ rows \in SUBSET DirectRow
      /\ made \in SUBSET DirectRow /\ "CUSTOM" \in Roles
  BY RowIs DEF Copies, Roles
<1>2. h \in SUBSET Grantable
  BY <1>1 DEF Had
<1>3. /\ access.legacy = LegacyOnly /\ access.version["CUSTOM"] = 2
      /\ access.grants["CUSTOM"] = h \cup cons /\ made = DirectConverted(rows)
  BY DEF Converted
<1>4. \A c \in Grantable : Targets(c) = DirectTargets(c)
  BY <1>3, Conversions DEF Targets, DirectTargets
<1>5. \A e, s : direct(e, s) = CodesOf(made, e, s)
  <2>1. TAKE e, s
  <2> DEFINE some == {x \in made : x.effect = e /\ x.scope \in s}
  <2>2. \A d \in some : Targets(d.code) = DirectTargets(d.code)
    BY <1>1, <1>4 DEF DirectRow
  <2>3. direct(e, s) = UNION {Targets(d.code) : d \in some}
    BY Zenon
  <2>4. CodesOf(made, e, s) = UNION {DirectTargets(d.code) : d \in some}
    BY Zenon DEF CodesOf
  <2> HIDE DEF some
  <2>5. {Targets(d.code) : d \in some} = {DirectTargets(d.code) : d \in some}
    BY <2>2
  <2> QED BY <2>3, <2>4, <2>5, Zenon
<1>6. fromRole = cons
  <2>1. cons \subseteq Canonical /\ h \cap Canonical \subseteq cons
    BY <1>2, CustomMapped
  <2>2. \A c \in Grantable : c \in LegacyOnly <=> c \notin Canonical
    BY Conversions
  <2>3. Canonical \subseteq Grantable
    BY Conversions
  <2> DEFINE held == {g \in access.grants["CUSTOM"] : counts(g)}
  <2>4. \A c : c \in held <=> c \in access.grants["CUSTOM"] /\ c \notin LegacyOnly
    BY <1>3
  <2> HIDE DEF cons, h, held
  <2>5. held = cons
    BY <1>2, <1>3, <2>1, <2>2, <2>3, <2>4
  <2>6. \A c \in cons : Targets(c) = {c}
    BY <1>4, <2>1, <2>3, Conversions
  <2>7. fromRole = UNION {Targets(c) : c \in held}
    BY Zenon DEF held
  <2> HIDE DEF fromRole
  <2> QED BY <2>5, <2>6, <2>7
<1>7. Session = (fromRole \cup direct("ALLOW", {"ALL"})) \ direct("DENY", {"ALL", "OWN"})
  BY Zenon DEF Session
<1>8. Mapped(access.copy) = (cons \cup allowed) \ denied
  BY Zenon DEF Mapped, CodesOf, Had
<1>9. /\ CodesOf(made, "DENY", {"ALL", "OWN"}) = denied
      /\ CodesOf(made, "ALLOW", {"ALL"}) \ denied = allowed \ denied
  BY <1>1, <1>3, DirectAgrees
<1>10. /\ direct("ALLOW", {"ALL"}) = CodesOf(made, "ALLOW", {"ALL"})
       /\ direct("DENY", {"ALL", "OWN"}) = CodesOf(made, "DENY", {"ALL", "OWN"})
  BY <1>5
<1> HIDE DEF cons, allowed, denied, fromRole, direct, made
<1> QED BY <1>6, <1>7, <1>8, <1>9, <1>10

\* The invariant of the migrations on which a process relies that starts.
StartInv == MigrationInv /\ SchemaStands /\ AccessStands

LEMMA StartsBegin == MigrationInit => StartInv
BY MigrationStarts, SchemaStarts, AccessStarts DEF StartInv

LEMMA StartsKeep == StartInv /\ [MigrationNext]_migrationVars => StartInv'
BY MigrationSteps, SchemaSteps, AccessSteps DEF StartInv

LEMMA StartsWhole == StartInv => StartsOnWholeSchema
<1> SUFFICES ASSUME StartInv, Compatible, ~Running, \A b \in broken : b[1] = "up"
             PROVE  /\ facts = WholeSchema
                    /\ <<"roles", "deleted">> \notin used => Session = Mapped(access.copy)
  BY DEF StartsOnWholeSchema
<1>1. runner.way = "idle" /\ recorded = Numbers /\ Unbroken
  BY DEF Running, Compatible, Unbroken
<1>2. facts = WholeSchema
  BY <1>1, SchemaIsWhole DEF StartInv
<1>3. ASSUME <<"roles", "deleted">> \notin used PROVE Session = Mapped(access.copy)
  <2>1. Carried(access, recorded)
    BY <1>1, <1>3 DEF StartInv, AccessStands, DeletedRole
  <2>2. Converted(access)
    BY <1>1, <2>1 DEF Carried, Numbers
  <2> QED BY <2>2, SessionIsMapped DEF StartInv, MigrationInv, SchemaRows
<1> QED BY <1>2, <1>3
=============================================================================
