------------------------------ MODULE Migrations ------------------------------
(***************************************************************************)
(* The schema migrations 10 to 18, forwards and back, on a database that   *)
(* is in use.  The runner opens a transaction for each migration, but      *)
(* every CREATE, ALTER and DROP commits what was open, and nothing is open *)
(* after it: a crash, or a statement that fails, undoes only what was      *)
(* written before the first of them.  A process of this version starts on  *)
(* a database that its schema contract accepts; while a migration runs,    *)
(* nobody uses the platform.                                               *)
(*                                                                         *)
(* Of tables that a migration treats alike one stands for all of them.     *)
(* Of the catalogues of permissions a few codes stand for each way in      *)
(* which migration 12 treats one; of the roles two that come with the      *)
(* platform and one made by an administrator, held by one account.         *)
(***************************************************************************)
EXTENDS Integers, Sequences, FiniteSets, Functions

CONSTANTS
  Uses,           \* what administrators may leave in the newer columns and tables
  MaxUses,        \* bound on how many of them at a time
  MaxBroken,      \* bound on the migrations that are broken off in the middle
  CustomGrants,   \* grants of the custom role before migration 12: sets of codes
  DirectGrants    \* sets of direct grants of the account before migration 12

VARIABLES
  facts,      \* columns, tables and indexes that exist: <<table, what>>
  access,     \* rows of the access tables
  recorded,   \* schema_migrations
  runner,     \* the command line: idle, or at a statement of a migration
  broken,     \* what ended half done: <<way, number>>
  used        \* the Uses that the rows show

migrationVars == <<facts, access, recorded, runner, broken, used>>

Numbers == 10..18

-----------------------------------------------------------------------------
\* Permissions and roles

OldCodes == {"legislation.approve", "relation.manage", "user.disable",
             "user.manage_roles", "role.assign", "permission.manage"}
Canonical == {"legislation.approve", "relation.update", "relation.review",
              "user.disable", "user.enable", "user.roles.manage"}
LegacyOnly == OldCodes \ Canonical

\* LEGACY_PERMISSION_ALIASES; a code it does not list stands for itself
Aliases(code) ==
  CASE code = "relation.manage" -> {"relation.update"}
    [] code = "user.disable" -> {"user.enable", "user.disable"}
    [] code \in {"user.manage_roles", "role.assign"} -> {"user.roles.manage"}
    [] code = "permission.manage" -> {}
    [] OTHER -> {code}

ContentCodes ==
  {"legislation.delete", "legislation.disable", "legislation.enable",
   "article.delete", "article.disable", "article.enable",
   "structure.delete", "structure.disable", "structure.enable",
   "annex.delete", "annex.disable", "annex.enable",
   "relation.delete", "relation.disable", "relation.enable"}
SourceCodes ==
  {"source.delete", "source.disable", "source.enable",
   "amendment.delete", "amendment.disable", "amendment.enable",
   "reference.delete", "reference.disable", "reference.enable"}
ScreenCodes ==
  {"navigation.delete", "navigation.disable", "navigation.enable",
   "public_page.delete", "public_page.disable", "public_page.enable",
   "user.delete", "search.synonym.disable", "search.synonym.enable"}
EditCodes == {"article.create", "amendment.update", "public_page.create", "search.synonym.update"}
LifecycleCodes == ContentCodes \cup SourceCodes \cup ScreenCodes \cup EditCodes
SetCodes == {"search.synonym_set.create", "search.synonym_set.delete",
             "search.synonym_set.disable", "search.synonym_set.enable"}
Grantable == OldCodes \cup Canonical
Codes == Grantable \cup LifecycleCodes \cup SetCodes

Roles == {"LEGAL_REVIEWER", "SYSTEM_ADMIN", "CUSTOM"}
OldRoleMap ==
  [LEGAL_REVIEWER |-> {"legislation.approve", "relation.manage"},
   SYSTEM_ADMIN |-> {"user.disable", "user.manage_roles", "role.assign", "permission.manage"}]
RoleMap ==
  [LEGAL_REVIEWER |-> {"legislation.approve", "relation.update", "relation.review"},
   SYSTEM_ADMIN |-> {"user.enable", "user.disable", "user.roles.manage"}]

ConservativeCustomRoleMapping(held) ==
  (UNION {Aliases(c) : c \in held})
    \cup (IF {"relation.manage", "legislation.approve"} \subseteq held
          THEN {"relation.review"} ELSE {})

\* Direct grants: [code, effect, scope], one of a code at most
DirectTargets(code) == IF code \in Canonical THEN {code} ELSE Aliases(code)

\* Mutant: an allowance of a narrower scope is converted to one over everything.
WidensNarrowAllowance(rows) ==
  LET targets == UNION {DirectTargets(d.code) : d \in rows}
      Denied(t) == \E d \in rows : d.effect = "DENY" /\ t \in DirectTargets(d.code)
  IN {d \in rows : d.code \notin targets}
       \cup {[code |-> t, scope |-> "ALL",
              effect |-> IF Denied(t) THEN "DENY" ELSE "ALLOW"] : t \in targets}

\* migrateDirectOverrides: a denial prevails over an allowance, and an allowance
\* of a narrower scope converts nothing.
DirectConverted(rows) ==
  LET counted == {d \in rows : d.effect = "DENY" \/ d.scope = "ALL"}
      targets == UNION {DirectTargets(d.code) : d \in counted}
      Denied(t) == \E d \in rows : d.effect = "DENY" /\ t \in DirectTargets(d.code)
  IN {d \in rows : d.code \notin targets}
       \cup {[code |-> t, scope |-> "ALL",
              effect |-> IF Denied(t) THEN "DENY" ELSE "ALLOW"] : t \in targets}

\* userById: role codes of the old kind count until the role is converted, direct
\* grants of the old kind always; a denial takes away, whatever its scope.
Targets(code) == IF code \in access.legacy THEN Aliases(code) ELSE {code}
Session ==
  LET counts(c) == ~(c \in access.legacy /\ access.version["CUSTOM"] = 2)
      fromRole == UNION {Targets(c) : c \in {g \in access.grants["CUSTOM"] : counts(g)}}
      direct(effect, scopes) ==
        UNION {Targets(d.code) : d \in {x \in access.direct : x.effect = effect /\ x.scope \in scopes}}
  IN (fromRole \cup direct("ALLOW", {"ALL"})) \ direct("DENY", {"ALL", "OWN"})

DirectRow == [code : Grantable, effect : {"ALLOW", "DENY"}, scope : {"ALL", "OWN"}]
\* The foreign keys of both kinds of grant admit codes that are defined.
ASSUME GrantsAssumption ==
  /\ CustomGrants \subseteq SUBSET OldCodes
  /\ DirectGrants \subseteq SUBSET {d \in DirectRow : d.code \in OldCodes}

-----------------------------------------------------------------------------
\* Statements

Alter(drop, add) == [kind |-> "ddl", drop |-> drop, add |-> add, ensure |-> FALSE, refusedBy |-> {}]
Add(table, what) == Alter({}, {table} \X what)
Drop(table, what) == Alter({table} \X what, {})
Ensure(table, what) == [Add(table, what) EXCEPT !.ensure = TRUE]
Look(columns) == [kind |-> "look", refusedBy |-> columns]
Write(rows, arg) == [kind |-> "dml", rows |-> rows, arg |-> arg, refusedBy |-> {}]

Each(Of(_), list) == [i \in DOMAIN list |-> Of(list[i])]
Backwards(list) == [i \in DOMAIN list |-> list[Len(list) + 1 - i]]

Up10 ==
  <<Add("permission_definitions", {"table"}), Add("role_permissions", {"table"}),
    Add("user_permission_overrides", {"table"}),
    Add("roles", {"is_system", "is_active"}), Add("user_roles", {"assigned_by"}),
    Write("define", OldCodes), Write("grant", OldRoleMap)>>
Down10 ==
  <<Drop("user_roles", {"assigned_by"}), Drop("roles", {"is_system", "is_active"}),
    Drop("user_permission_overrides", {"table"}), Drop("role_permissions", {"table"}),
    Drop("permission_definitions", {"table"})>>

\* Migrations 0 to 9 and 11 change neither what is modelled of the schema nor access.
Backups == <<"permission_definitions_backup", "role_permissions_backup", "roles_backup">>
Up12 ==
  Each(LAMBDA t : Add(t, {"table"}), Backups)
    \o <<Write("save", "all"), Add("permission_definitions", {"is_system", "is_legacy"}),
         Add("roles", {"authority_level", "permission_model_version"}),
         Write("mark", LegacyOnly), Write("upsert", Canonical)>>
    \o Each(LAMBDA r : Write("convert", r), <<"CUSTOM", "LEGAL_REVIEWER", "SYSTEM_ADMIN">>)
    \o <<Write("direct", "all")>>
Down12 ==
  <<Write("empty", "all"),
    [Write("restore", "all") EXCEPT !.refusedBy = {<<"roles", "deleted">>}],
    Drop("roles", {"authority_level", "permission_model_version"}),
    Drop("permission_definitions", {"is_system", "is_legacy"})>>
    \o Each(LAMBDA t : Drop(t, {"table"}), Backwards(Backups))

Up13 == <<Alter({<<"articles", "uq_article_label">>}, {<<"articles", "idx_article_label">>})>>
Down13 ==
  <<[Alter({<<"articles", "idx_article_label">>}, {<<"articles", "uq_article_label">>})
       EXCEPT !.refusedBy = {<<"articles", "repeated label">>}]>>

Up14 == <<Add("source_import_attachments", {"table"}), Add("legislation_source_documents", {"table"})>>
Down14 == <<Drop("legislation_source_documents", {"table"}), Drop("source_import_attachments", {"table"})>>

\* legislations stands for seven more tables of records, legislation_types for
\* authorities, subjects and navigation_items, favorites for what users keep.
LifecycleTables ==
  <<"legislations", "amendment_operations", "legislation_types", "users", "favorites">>
State(table) ==
  CASE table \in {"legislation_types", "users"} -> {"deleted_at"}
    [] table = "favorites" -> {"is_active"}
    [] OTHER -> {"is_active", "deleted_at"}
Pieces == {"replacement_from", "proposed_sort_key"}
Up15 ==
  <<Add("amendments", {"revision"})>>
    \o Each(LAMBDA t : Add(t, State(t)), LifecycleTables)
    \o <<Add("amendment_operations", Pieces), Write("define", LifecycleCodes)>>

Withdrawn(column) ==
  {u \in Range(LifecycleTables) \X {column} : column \in State(u[1])}

\* Mutant: the tables are asked for deleted rows, none for disabled ones.
LooksForDeletedOnly ==
  <<Look(Withdrawn("deleted_at")), Look({"amendment_operations"} \X Pieces)>>

\* The rollback looks at all its tables before it touches the first.
Looks15 ==
  <<Look(Withdrawn("deleted_at")), Look(Withdrawn("is_active")),
    Look({"amendment_operations"} \X Pieces)>>
Down15 ==
  Looks15
    \o <<Drop("amendments", {"revision"}), Write("undefine", LifecycleCodes),
         Drop("amendment_operations", Pieces)>>
    \o Each(LAMBDA t : Drop(t, State(t)), Backwards(LifecycleTables))

Tables16 == <<"gazette_issues", "search_synonym_sets">>
Up16 == Each(LAMBDA t : Add(t, State(t)), Tables16) \o <<Write("define", SetCodes)>>
Down16 ==
  <<Look(Range(Tables16) \X {"is_active", "deleted_at"}),
    Write("undefine", SetCodes)>>
    \o Each(LAMBDA t : Drop(t, State(t)), Tables16)

Tables17 == <<"legislation_types", "gazette_issues", "platform_settings">>
\* Column and trigger of each table in turn; what is there already is passed over.
Revised(table, i) == IF i = 1 THEN <<table, "edit_revision">> ELSE <<table, "revision trigger">>
InTurn(Of(_, _), list) ==
  [k \in 1..(2 * Len(list)) |-> Of(list[(k + 1) \div 2], 2 - (k % 2))]
Up17 ==
  InTurn(LAMBDA t, i : [Alter({}, {Revised(t, i)}) EXCEPT !.ensure = TRUE], Tables17)
    \o <<Ensure("password_recovery_requests", {"table"}),
         Ensure("password_recovery_requests", {"triggers"})>>
Down17 ==
  <<Look({<<"password_recovery_requests", "table">>}),
    Drop("password_recovery_requests", {"table", "triggers"})>>
    \o InTurn(LAMBDA t, i : Alter({Revised(t, 3 - i)}, {}), Backwards(Tables17))

OldHash == <<"source_documents", "sha256">>
NewHash == <<"source_documents", "uq_source_sha256_active">>
Up18 == <<Alter({OldHash}, {}), Alter({}, {NewHash})>>
Down18 ==
  <<Alter({NewHash}, {}),
    [Alter({}, {OldHash}) EXCEPT !.refusedBy = {<<"source_documents", "second copy">>}]>>

\* What the rows of roles and accounts may show: a role disabled, a level set, a role
\* given; grants and overrides made since migration 12.  They are other roles and
\* accounts than those of access.
GrantsMade == {<<"role_permissions", "table">>, <<"user_permission_overrides", "table">>}
RoleState ==
  {<<"roles", "is_active">>, <<"roles", "authority_level">>, <<"user_roles", "assigned_by">>}
    \cup GrantsMade

\* What rows may show that a revert would lose, or could not restore.
AdministrativeState ==
  Withdrawn("deleted_at") \cup Withdrawn("is_active") \cup RoleState
    \cup {"amendment_operations"} \X Pieces
    \cup Range(Tables16) \X {"is_active", "deleted_at"}
    \cup {<<"password_recovery_requests", "table">>, <<"roles", "deleted">>,
          <<"articles", "repeated label">>, <<"source_documents", "second copy">>,
          <<"source_import_attachments", "table">>, <<"legislation_source_documents", "table">>}
ASSUME UsesAssumption == Uses \subseteq AdministrativeState

Up == <<Up10, <<>>, Up12, Up13, Up14, Up15, Up16, Up17, Up18>>
Down == <<Down10, <<>>, Down12, Down13, Down14, Down15, Down16, Down17, Down18>>
Script == (IF runner.way = "up" THEN Up ELSE Down)[runner.number - 9]

-----------------------------------------------------------------------------
\* The database

Reached(number) == UNION {UNION {Up[m - 9][i].add : i \in {j \in DOMAIN Up[m - 9] :
                            Up[m - 9][j].kind = "ddl"}} : m \in 10..number}
Before10 == {<<"articles", "uq_article_label">>, OldHash}
WholeSchema == Reached(18) \ Before10

NoGrants == [r \in Roles |-> {}]
NoneUsed ==
  [codes |-> {}, legacy |-> {}, grants |-> NoGrants, version |-> [r \in Roles |-> 1],
   direct |-> {}, copy |-> [codes |-> {}, grants |-> NoGrants, direct |-> {}]]
Granted(a, map) ==
  [a EXCEPT !.grants = [r \in Roles |-> a.grants[r] \cup
                          (IF r \in DOMAIN map THEN map[r] ELSE {})]]

\* An empty database after migration 9, or one that a version before migration
\* 12 was used on.
EmptyBefore10 ==
  /\ facts = Before10 /\ recorded = {}
  /\ access = NoneUsed
InUseBefore12 ==
  /\ facts = Before10 \cup Reached(11) /\ recorded = {10, 11}
  /\ \E kept \in CustomGrants, rows \in DirectGrants :
       access = Granted([NoneUsed EXCEPT !.codes = OldCodes, !.direct = rows,
                                       !.grants["CUSTOM"] = kept], OldRoleMap)

MigrationInit ==
  /\ EmptyBefore10 \/ InUseBefore12
  /\ runner = [way |-> "idle"]
  /\ broken = {} /\ used = {}

-----------------------------------------------------------------------------
\* The runner

Begun(way, number) ==
  runner' = [way |-> way, number |-> number, at |-> 1, open |-> TRUE,
             saved |-> access, found |-> facts]

\* npm run db:migrate, a migration at a time
BeginUp ==
  /\ runner.way = "idle" /\ recorded # Numbers
  /\ Begun("up", CHOOSE n \in Numbers \ recorded : \A m \in Numbers \ recorded : n <= m)
  /\ UNCHANGED <<facts, access, recorded, broken, used>>

\* npm run db:revert: the last one
BeginDown ==
  /\ runner.way = "idle" /\ recorded # {}
  /\ Begun("down", CHOOSE n \in recorded : \A m \in recorded : m <= n)
  /\ UNCHANGED <<facts, access, recorded, broken, used>>

Statement == Script[runner.at]
Running == runner.way # "idle"
Here == Running /\ runner.at \in DOMAIN Script

Fails(s) ==
  \/ s.refusedBy \cap used # {}
  \/ s.kind = "look" /\ ~(s.refusedBy \subseteq facts)
  \/ s.kind = "ddl" /\ (~(s.drop \subseteq facts) \/ (~s.ensure /\ s.add \cap facts # {}))
  \/ s.kind = "dml" /\ s.rows = "define" /\ s.arg \cap access.codes # {}

Written(s) ==
  LET a == access
      Without(gone) == [a EXCEPT !.codes = @ \ gone,
                                 !.grants = [r \in Roles |-> a.grants[r] \ gone],
                                 !.direct = {d \in @ : d.code \notin gone}]
  IN CASE s.rows = "define" -> [a EXCEPT !.codes = @ \cup s.arg]
       [] s.rows = "upsert" -> [a EXCEPT !.codes = @ \cup s.arg, !.legacy = @ \ s.arg]
       [] s.rows = "mark" -> [a EXCEPT !.legacy = s.arg \cap a.codes]
       [] s.rows = "grant" -> Granted(a, s.arg)
       [] s.rows = "undefine" -> Without(s.arg)
       [] s.rows = "save" ->
            [a EXCEPT !.copy = [codes |-> a.codes, grants |-> a.grants, direct |-> a.direct]]
       [] s.rows = "empty" -> [Without(Codes) EXCEPT !.legacy = {}]
       [] s.rows = "restore" ->
            [a EXCEPT !.codes = a.copy.codes, !.grants = a.copy.grants, !.direct = a.copy.direct,
                      !.version = [r \in Roles |-> 1]]
       [] s.rows = "convert" /\ s.arg \in DOMAIN RoleMap ->
            [a EXCEPT !.grants[s.arg] = (@ \ Canonical) \cup RoleMap[s.arg], !.version[s.arg] = 2]
       [] s.rows = "convert" /\ s.arg = "CUSTOM" ->
            [a EXCEPT !.grants["CUSTOM"] = @ \cup ConservativeCustomRoleMapping(@),
                      !.version["CUSTOM"] = 2]
       [] s.rows = "direct" -> [a EXCEPT !.direct = DirectConverted(@)]

\* A table takes its rows with it, and no row refers to a definition that is gone.
Dropped(gone) ==
  LET Left(rows, tables) == IF gone \cap (tables \X {"table"}) = {} THEN rows ELSE {}
      definitions == {"permission_definitions"}
  IN [access EXCEPT
        !.codes = Left(@, definitions), !.legacy = Left(@, definitions),
        !.grants = [r \in Roles |-> Left(access.grants[r], definitions \cup {"role_permissions"})],
        !.direct = Left(@, definitions \cup {"user_permission_overrides"})]

\* With the first columns that the revert of migration 12 drops it commits that the
\* grants and overrides are again those of the copy.
Forgotten(drop) == drop \cup (IF <<"roles", "authority_level">> \in drop THEN GrantsMade ELSE {})

Execute ==
  /\ Here /\ ~Fails(Statement)
  /\ \/ /\ Statement.kind = "ddl"
        /\ facts' = (facts \ Statement.drop) \cup Statement.add
        /\ used' = used \ Forgotten(Statement.drop)
        /\ access' = Dropped(Statement.drop)
     \/ /\ Statement.kind = "dml"
        /\ access' = Written(Statement)
        /\ UNCHANGED <<facts, used>>
     \/ /\ Statement.kind = "look"
        /\ UNCHANGED <<facts, used, access>>
  /\ runner' = [runner EXCEPT !.at = @ + 1, !.open = @ /\ Statement.kind # "ddl"]
  /\ UNCHANGED <<recorded, broken>>

\* TypeORM, or the server when the connection is gone, rolls back what is open.
RollBack(open) ==
  /\ access' = IF open THEN runner.saved ELSE access
  /\ runner' = [way |-> "idle"]
  /\ broken' = IF facts = runner.found THEN broken
               ELSE broken \cup {<<runner.way, runner.number>>}
  /\ UNCHANGED <<facts, recorded, used>>

Fail ==
  /\ Here /\ Fails(Statement)
  /\ RollBack(runner.open /\ Statement.kind # "ddl")

\* The process dies between two statements.
Crash ==
  /\ Running /\ Cardinality(broken) < MaxBroken
  /\ RollBack(runner.open)

Noted ==
  /\ Running /\ runner.at = Len(Script) + 1
  /\ recorded' = IF runner.way = "up" THEN recorded \cup {runner.number}
                 ELSE recorded \ {runner.number}
  /\ runner' = [way |-> "idle"]
  /\ UNCHANGED <<facts, access, broken, used>>

-----------------------------------------------------------------------------
\* The processes that use the database

\* assertSchemaCompatible
Compatible ==
  /\ recorded = Numbers
  /\ <<"users", "deleted_at">> \in facts
  /\ <<"password_recovery_requests", "table">> \in facts
  /\ \A i \in DOMAIN Tables17 : <<Tables17[i], "edit_revision">> \in facts

\* What rows show a use: a column or table that is there, or the want of an index.
Possible(u) ==
  CASE u = <<"articles", "repeated label">> -> <<"articles", "uq_article_label">> \notin facts
    [] u = <<"source_documents", "second copy">> -> OldHash \notin facts
    [] u = <<"roles", "deleted">> -> TRUE
    [] OTHER -> u \in facts

InUse == Compatible /\ ~Running
Use(u) ==
  /\ InUse /\ Possible(u) /\ u \notin used /\ Cardinality(used) < MaxUses
  /\ used' = used \cup {u}
  /\ access' = IF u = <<"roles", "deleted">> THEN [access EXCEPT !.grants["CUSTOM"] = {}] ELSE access
  /\ UNCHANGED <<facts, recorded, runner, broken>>

Reenable(u) ==
  /\ InUse /\ u \in used /\ u[2] = "is_active"
  /\ used' = used \ {u}
  /\ UNCHANGED <<facts, access, recorded, runner, broken>>

MigrationNext ==
  \/ BeginUp \/ BeginDown \/ Execute \/ Fail \/ Crash \/ Noted
  \/ \E u \in Uses : Use(u) \/ Reenable(u)

-----------------------------------------------------------------------------
MigrationTypeOK ==
  /\ facts \subseteq Before10 \cup Reached(18)
  /\ access.codes \subseteq Codes /\ access.legacy \subseteq LegacyOnly
  /\ access.grants \in [Roles -> SUBSET access.codes]
  /\ access.version \in [Roles -> 1..2]
  /\ access.direct \subseteq DirectRow
  /\ recorded \subseteq Numbers /\ \A n \in recorded : 10..n \subseteq recorded
  /\ Running => runner.number \in Numbers /\ runner.at \in 1..(Len(Script) + 1)
  /\ broken \subseteq {"up", "down"} \X Numbers
  /\ used \subseteq Uses

\* The map of migration 12, read as one equation: what the account's role stood
\* for, what it was allowed directly, less all it was denied.
Mapped(before) ==
  LET rows(effect, scopes) == {d \in before.direct : d.effect = effect /\ d.scope \in scopes}
      direct(effect, scopes) == UNION {DirectTargets(d.code) : d \in rows(effect, scopes)}
  IN (ConservativeCustomRoleMapping(before.grants["CUSTOM"]) \cup direct("ALLOW", {"ALL"}))
       \ direct("DENY", {"ALL", "OWN"})

\* A database on which this version starts, on which no revert broke off, has been
\* through every migration in full, however often the runner died, failed and was
\* run again, backwards too; and a session on it holds exactly what the map makes
\* of the account's old grants: the old rows that remain beside the converted
\* ones, the old codes that are still read for direct grants, and the codes defined
\* since, add nothing and take nothing (1700000000012-canonical-rbac-security.ts:59-166,
\* auth.service.ts:166-215, schema-contract.mjs:28-79).  After a revert that broke
\* off, migrating forwards again can satisfy the contract with columns missing.
StartsOnWholeSchema ==
  Compatible /\ ~Running /\ (\A b \in broken : b[1] = "up") =>
    /\ facts = WholeSchema
    /\ <<"roles", "deleted">> \notin used => Session = Mapped(access.copy)

\* "Refuse rollback once it would revive deleted records or discard administrative
\* state" (1700000000015-administrative-lifecycle.ts:472).  The reverts of migrations
\* 13, 15, 16, 17 and 18 lose none of AdministrativeState, and a revert that is refused,
\* that of 18 excepted, leaves schema and rows as it found them
\* (scripts/test/crud-migrations.mjs:188).  The exceptions are these: 14 drops the
\* tables of attachments and links, 12 the levels of roles and the grants and overrides
\* made since, 10 the disabled roles, the givers of roles and both tables of grants, and
\* none of the three asks; 18 drops one index before it learns that it cannot restore
\* the other.  Not counted are the counters of revisions, and grants of the codes that
\* 15 and 16 define: they go with their columns and with the codes.
RevertLosesNothing ==
  [][runner.way = "down" =>
       /\ runner.number \notin {10, 12, 14} => used \subseteq used'
       /\ Fail /\ runner.number # 18 /\ Statement.refusedBy \cap used # {} =>
            facts' = runner.found /\ access' = runner.saved]_migrationVars
=============================================================================
