# Formal models of the Yemen legislation platform

TLA+ models of the parts of this repository whose correctness depends on the
order of many steps: the history of legal texts, the import of sources and the
search index kept by a background worker, the separation of duties in the
publication workflow, accounts with their sessions, roles and recovery codes, the
trees, forms and dictionary of the administration, the page of a law, and the
migrations of the schema. TLC checks them on small instances; TLAPS proves their
safety properties and refinements for every value of the constants.

Source paths below are relative to `src/apps/api/src/` (API), `src/apps/worker/src/`
(worker) and `src/apps/web/src/` (web) unless they start with `docs/`, `infra/` or
`scripts/`, which are below `src/`.

## 1. Inventory

The platform is a NestJS API on MariaDB, a Node worker that polls a job table,
and a React front end. All state is in MariaDB and in stored source files. An
API handler is as a rule one transaction; it locks the rows it decides on with
`SELECT … FOR UPDATE`. There are no messages between API and worker except the
rows of `job_queue`; the front end keeps what it loaded until it loads again.

| Component | State it keeps | Operations | What makes it correct |
|---|---|---|---|
| Article timeline (`admin`, `amendments`, triggers) | `articles`, `article_versions`, `article_modifications` | create/update draft article, publish the draft versions, apply an amendment, disable/enable/delete | one text in force per day, no overlap, no gap, nothing rewritten, the register explains every version |
| Amendments (`amendments.service.ts`) | `amendments`, `amendment_operations` | load, save, review, publish, life of single items | all articles of a document or none; the text starts from the version covering the effective day; a save drops no item its writer had not seen |
| Workflow and separation of duties (`admin.service.ts`, `workflow-policies.ts`, `session.guard.ts`) | `legislations.status`, `content_responsibilities`, `audit_logs`, `platform_settings`, `user_permissions` | transitions, draft edits, policy and exception changes | who prepared a law does not decide on it while the policy is enforced |
| Imports (`imports.service.ts`) | `source_imports`, `source_import_attachments`, `legislation_source_documents` | upload, attach/detach, review, make a draft | status tells the stage, a review is final, a law's sources are fixed once it leaves the drafts |
| Worker (`main.ts`) | `job_queue` | claim, extract, OCR, reindex, fail, stop, start and reclaim | a job runs once, every job is finished, dead claims are recovered |
| Source documents (`lifecycle.service.ts`, `admin.service.ts`) | `source_documents` | edit state, enable, disable, delete, link, unlink | what is cited is never deleted; what is extracted is not deleted |
| Lifecycle of all other records | `is_active`, `deleted_at` of some twelve tables | enable, disable, delete with guards | no orphan, no deleted record in use |
| Search index (`main.ts`, `database/reindex.ts`, `search/mariadb-search.provider.ts`) | `search_documents`, `search_tokens`, REINDEX jobs | queue, reindex a law, rebuild all, read with filters | a hit can be opened; what is public is found once the queue is empty |
| Structure parser (`legal-structure-parser.ts`) | none | text to tree of nodes and articles, tree to rows of a draft | every line where its heading puts it, every article under its parent |
| Structure tree, subjects, assignment of articles | `structure_nodes`, `subjects`, `articles.structure_node_id` | create, move, assign in bulk, enable, disable, delete | no cycle; nothing hangs from what is gone |
| Sessions, passwords (`auth`) | `users`, `user_sessions` | login, guard, logout, change, reset | a changed password, role or grant leaves no old session; guesses are bounded |
| Password recovery (`auth/password-recovery.service.ts`) | `password_recovery_requests` | request, issue, reject, redeem | a code sets one password, once |
| RBAC (`authorization-policy.service.ts`, `access-control.service.ts`) | roles, grants, overrides | assign, override, effective permissions, create/change/delete roles | denials win, authority comes from above, screens and checks agree |
| Synonym dictionary | `search_synonym_sets`, `search_synonyms` | edit pairs, activate, archive | one draft, one active set, never an active one without pairs |
| Reference data, gazette, settings, pages, navigation | rows with `edit_revision` | load, save, merge | a save was composed from the values it replaces |
| Annexes, relations (`admin.service.ts`) | `annexes`, `legal_relations` | create, update with status | published words stay; reviewed means reviewed as it reads |
| Page of a law (`AdminContentDetailPage.tsx`, `LifecycleActions.tsx`) | loaded rows, forms | open, send, reload | no stale form decides what its user may not decide |
| Migrations, schema contract (`database/`, `scripts/database`) | schema, `schema_migrations`, access rows | migrate, revert, crash, start of a process | a process starts on a whole schema; a revert refuses before it loses anything, three excepted |
| Quality issues, reports, user tools, health | rows of their own | independent updates, reads | not modelled |
| Backup scripts, seeds, public pages of the web | — | — | not modelled |

How they interact. The workflow publishes the draft versions of the timeline in
the same transaction that moves the law. Amendments write the timeline and
require a public law and a reviewed source. An upload inserts a job; the worker
writes the import, the source and the next job; review and draft read what it
wrote; the draft's rows come from the parser. The lifecycle reads the references
all the others make. Duties recorded by one handler are read by the decisions of
another. A transition, an amendment and most edits queue a reindex of the law,
which the worker takes from the same queue. Every request is guarded by a session
and the permissions read with it. The migrations make the columns all of them use,
and the contract is tested when API or worker start.

Hard behaviours. Amendments arrive in any order, also for days past and future,
and the calendar moves under versions already written. Worker ticks overlap
inside one process (`setInterval` does not wait) and across processes, a process
may stop between any two writes, and a claim is only taken back when a process
starts. API handlers interleave with the worker's writes, which do not look at the
state they overwrite. Policies and exceptions change while requests are under way.
A login is five statements without a transaction. Two requests walk a tree while
each moves a part of it. Forms are sent long after they were loaded. A migration
commits at every CREATE or ALTER and may die after any of them. The list of hazards
in `PROJECT.json` names each at its line.

## 2. Modules

| Module | What it models |
|---|---|
| `WorkflowRules` | the transition table and the status lists shared by the others |
| `TextHistory` | the abstract promise: per article and day one text in force; a step begins a text or replaces it from one day to the end of its period |
| `ArticleTimeline` | versions, amendments, register, workflow, administrative life and public reads of one law |
| `ArticleTimelineProofs` | its theorems and the refinement of `TextHistory` |
| `ImportPipeline` | imports, job queue, worker processes and ticks, sources, attachments, links |
| `SearchIndex` | the documents of a law in the index, the jobs, the rebuild, the calendar, the reader's filters |
| `Worker` | composes the two: what goes on behind the requests |
| `WorkerProofs` | the theorems about the imports, the search index and both together |
| `SeparationOfDuties`, `SeparationOfDutiesProofs` | users, duties, audit log, policies and exceptions around one law; theorems |
| `AccessPolicy` | roles, grants, overrides, authority; the checks and what the screens announce |
| `OneTimeCode` | the abstract promise of password recovery |
| `Accounts`, `AccountsProofs` | login, sessions, requests of administrators, recovery, over `AccessPolicy`; theorems and the refinement of `OneTimeCode` |
| `Hierarchy` | structure nodes and subjects with what hangs from them, under row locks |
| `SharedEditing` | edit revisions: rows, triggers, forms and their hook |
| `AmendmentDraft` | one amendment document under two writers |
| `Dictionary` | the sets and pairs of synonyms, with the rows and gaps requests lock |
| `StructureParser` | the loop of the parser and the rows of a draft law |
| `ContentPage` | the page of a law and the handlers it calls |
| `Migrations` | migrations 10 to 18, the command line and the schema contract |
| `Records` | composes the seven before it: one is at work, the others rest |
| `HierarchyProofs`, `StructureParserProofs`, `MigrationProofs` | the invariants of these three desks |
| `RecordsProofs` | the invariants of the other four, and the theorems of all seven in `Records` |
| `MC…` | small instances for TLC |

`ArticleTimeline`, `ImportPipeline`, `SeparationOfDuties` and `ContentPage` all extend
`WorkflowRules`, so the law moves in the same way in all of them. They are separate
state machines over different tables: the first keeps texts and no users, the
second files and no texts, the third users and no texts, the fourth the page. The
refinements compose the first with `TextHistory` and `Accounts` with `OneTimeCode`.
`Worker` and `Records` put machines that share no row under one next-state relation;
a variable says which of them moves in a behaviour, so that each is explored in
full and none is multiplied by the others. Where parts do share rows, they are one
module: law, files and jobs in `ImportPipeline`, accounts, roles, sessions and codes in
`Accounts`.

### ArticleTimeline

One action is one transaction. `versions[a]` is the sequence of rows of
`article_versions` of article `a`, `version_no` being the index; `to = Open`
stands for `valid_to IS NULL`. `Disjoint`, `InsertAdmitted` and `UpdateAdmitted`
are the two triggers and the CHECK. `Publish` is
`amendments.service.ts:publish` with `applyArticle` for each article of the
document; `Traces` is the loop over the operations, with the phrase that must
occur exactly once and the operation after a repeal that is refused; `Covering`
and `Before` are the query for the version in force on the effective day;
`Closed` and `Successor` are the UPDATE and the INSERT. `Transition(PUBLISHED)`
contains `publishCurrentDraftArticles`. `Shown` is the WHERE clause of the public
reads. `Tick` moves the calendar and nothing else: no code runs at midnight.

Abstractions. A text is a sequence of at most `MaxLen` words, so a phrase to
replace is a word and may occur never, once or twice. CORRECT acts as REPLACE and
DELETE as REPEAL, as in the code. Labels, sort keys and structure are left out. A
document holds the active operations only (those an editor disables one by one do
not reach publication). A disabled source stands for any source that is not active
and reviewed. The statuses AMENDED, REPEALED and SUSPENDED of a law appear in the
guards but no handler writes them. Articles of an imported draft enter as created
ones; the article identities of an ADD are fresh, as `randomUUID` makes them.

### ImportPipeline

`jobs` is `job_queue` in order of creation without reindex jobs. A tick goes
through *claimed* (the job is RUNNING), *working* (the import says EXTRACTING or
OCR_RUNNING) and either one finishing transaction or *failing*, between the two
statements of the `catch` block. `Stop` is a crash, a SIGTERM (which does not wait
for ticks in flight) or the end of a `--once` process; `Start` runs the only
statement that takes claims back. Instead of a clock a claim has a flag `stale`:
claimed more than fifteen minutes ago. `SlowJobs = FALSE` states that a live tick
ends within that time; a claim whose process stopped may always become stale. The
API handlers keep their guards on the import, its bundle and its law. `ActiveKeyFree`
and `InactiveKeyFree` are the unique key `(sha256, is_active)` of migration 18.

Abstractions. Files and texts are reduced to whether extraction yields text
without OCR (`Scanned`). An import is named by its source (the column is UNIQUE).
Of a law only its status is kept. At most one reference PDF comes with an upload, as
in the handler. Annex, relation and amendment references to sources are left out.

### SeparationOfDuties

`duties` is `content_responsibilities` of one law; `audit` the audit log entries
that name user, action and decision. `Decisions` is `assertWorkflowPolicy`: no
element means refused. `Authenticate` reads the user's exceptions
(`session.guard.ts`, `userById`); the handler runs later with what was read.
`DraftEdits` lists the handlers that change a draft's content, where they are
allowed and whether they record the duty EDIT; `updateDraftArticleMetadata` does
not. Bulk assignment of articles records EDIT like the others, and `createDraft`
records its caller, not the uploader.

Abstractions. Every user holds every permission, as SUPER does, so RBAC hides
nothing. Sessions are left out (a revoked one is renewed by logging in). The
import's text is available at once, and texts, articles and legal data are left out.
One request is under way at a time; handlers of the same law lock its row, so
what concurrency adds is the gap between authentication and handling, which
policy and exception changes may use. The audit log of the model keeps one entry
per user, action and decision.

### Worker and SearchIndex

`stored` is what a reindex reads of a law: its status, title and availability, the
versions of one article, an amendment, an annex and a relation. Every handler that
changes one of them is an action with the job it queues, or with none: archiving, for
one, relies on the filters of the reader. A reindex is
*claimed*, *indexing* with the snapshot and the day it began on, and committed; the
deletion at its start keeps other writers out (`Writing`). `ReindexLegislation` and
`RebuildSearchIndex` are the two computations of documents, which differ: the
rebuild by hand leaves out versions still to come. `Hits` and `HitsAt` are the
filters of the search today and for a day in the past, `Opens` the guards of the page
a hit leads to. `NextDay` moves the calendar; no code runs at midnight.

Abstractions. A document is its kind, its number, the title it was made from and
its period. Tokens, ranking and the fallback provider are left out.

### AccessPolicy, Accounts, OneTimeCode

The rows of roles, grants and overrides are variables; the checks of
`authorization-policy.service.ts` are predicates over them, and next to each stands
what a screen computes by queries of its own (`Shown…`). In `Accounts` a client is
*signing in* (five statements: read, compare, count or clear, insert the session, read the
answer), has a *request* under way with the permissions the guard read, has
*verified* an old password, or *redeems* a code it looked up. The ten handlers that
touch passwords, roles or grants close sessions; `GroundOf` is what a session was opened on.
A password is the number of times it was set: hashes are salted, so every setting is
a new value. `Accounts` implements `OneTimeCode`: `CodeState` maps a row to *unused*,
*asked*, *good*, *used* or *void*, and a code is good only while the fingerprint of
the password it was issued for is still the account's.

Abstractions. Legacy codes and scopes other than ALL (the API refuses them) are left
out here; `Migrations` has them. Cookies and CSRF tokens are left out; time is three
actions (a lock lapses, a session or code expires, an hour passes).

### Records: seven desks

**Hierarchy.** A request is a transaction that locks rows one at a time and reads some
without a lock; `holder` is the row locks. `assertParent` walks up the ancestors and
locks each; a deletion counts what hangs from the row. The database breaks a deadlock by rolling
one request back. Moving, creating, enabling, disabling and deleting nodes and
articles, bulk assignment and the filing of a law under subjects are the requests.

**SharedEditing.** What the user sees (`form.shown`), what the hook would send
(`hook.base`) and what is in the row are three revisions. Three kinds of screen place
the hook differently. Answers are lost, repeated or overtaken.

**AmendmentDraft.** Two writers hold lists of a document; `Raised` is the UPDATE that
moves the places up by `Shift` (100000 in the code) before they are given anew.

**Dictionary.** Requests find or make the draft set with the table and the gap after
its last row locked, or lock the one set they are about, and change pairs; activation
archives the set that was active.

**StructureParser.** A document is a sequence of kinds of line, the kinds the loop
tells apart; the result names the lines it holds. `CreateDraft` stores the tree. Lines
under a heading with no article of their own are collected, and a notice of them points at
the first; it quotes their first 180 characters, so the model keeps the place and not the
lines.

**ContentPage.** `Offered(c)` is the set of requests the tab lets its user send, from
rows loaded before and the user's permissions; `SendForm` gives one to its handler,
which judges by the rows as they are. Others change the law, the record and the
source meanwhile. Each tab is a behaviour of its own.

**Migrations.** A migration is a sequence of statements. TypeORM opens a transaction
for it, but every CREATE, ALTER or DROP commits, and nothing is open after it, so
`RollBack` undoes only what was written before the first. `facts` are columns, tables
and indexes, `access` the rows migration 12 converts. One table stands for those a
migration treats alike, a few codes for each way 12 treats one. A table that is dropped takes its
rows with it, and no grant refers to a code whose definition is gone. `used` is what
administrators have left in the rows (`AdministrativeState`): records withdrawn, tables
filled, roles disabled, levels set, roles given, grants and overrides made since migration 12;
`Forgotten` is what a statement takes of it. While a migration runs nobody uses the platform.

## 3. Runs

| Run | Instance | States | Question |
|---|---|---|---|
| `ArticleTimeline` | 2 articles, 2 documents, 3 days, texts of up to 2 words, 1 disabled record | 138,320 | all invariants, the immutable history and the refinement |
| `TextOnItsDay` | the same, drafts from day 1 | | **violated**: a version published ahead is never shown |
| `Worker` | imports: a text file and a scan, 2 processes with a tick each, 1 stop; index: 2 days, 3 changes, 2 overlapping rounds | 321,877 | run once, stage, final review, settling; open hits, nothing missed, catching up |
| `SourceBundles` | the imports with a reference PDF, one tick, no process stops, the law up to PUBLISHED | 978,088 | references and settled laws |
| `LostClaim` | one file, one process with two ticks, 1 stop | | **violated**: a lost claim is not recovered |
| `DeletedUnderOcr` | a text file and a scan, one tick | | **violated**: deletion between extraction and OCR |
| `SecondCopy` | two uploads of the same bytes | | **violated**: the second copy cannot be disabled |
| `SeparationOfDuties` | 3 users, one of whom may be excepted, one policy switched, 1 amendment, 6 log entries | 776,716 | independence of decisions |
| `SelfApproval` | 3 users, no exceptions, all draft edits | | **violated**: the uploader or a metadata editor approves |
| `Accounts` | a SUPER, a system administrator, a clerk to be created; 3 roles, 2 clients, 2 sessions, 1 code, 4 activities; counter compared with 3, so that the second failure locks | 247,354 | sessions, guesses, recovery, authority |
| `Records` | the seven desks, see below | 436,440 | one question for each desk |
| `DraftWontSave` | a document of 2 items and a third | | **violated**: a save ends on the unique key |

What the properties say. `NoOverlap`, `GaplessHistory` and
`TriggersAcceptAmendments` are about the table under every order of amendments;
`HistoryOnlySplits` about what a step may never do
to published texts; `HistoryExplained` ties every later version to exactly one entry
of the register and the register to whole documents; `PublishedWhole` is the
promise of publication; `PublicReadIsLegal` compares the public query with the text
in force; `TextsInForce` is the refinement. `OneRunPerJob`, `StatusTellsStage`,
`ReviewedStands` and `ImportsSettle` are about the worker and the reviewer;
`CitedSourcesKept` and `SettledLawKeepsSources` about sources under interleaved
handlers. `IndependentDecisions` reads the decisions against the earlier entries of
the audit log, `ThreeHands` the law's status against the whole log.

`HitsOpen` and `MissedOnlyWhileQueued` are the two ways an index can be wrong, at any
age of it; `SearchCatchesUp` says that the second passes. Two exceptions are part of
the statement because the code has them: a job that failed is never tried again, and
a version to come that a rebuild by hand left out is not indexed on its day (`LeftOut`).
`Found`, what must not be missed, is the law, its articles and its amendments: the handlers
of annexes and relations queue nothing (`admin/admin.service.ts:1381-1654`), so the search
learns of their changes with some later job, and only `HitsOpen` speaks of them.

`OneRunPerJob`, `StatusTellsStage` and `ReviewedStands` hold as long as no live tick is at a
job for fifteen minutes (`SlowJobs = FALSE`). `locked_at` is not renewed and nothing bounds
the time an OCR takes, so this is a condition on what is uploaded, not a fact of the code.

`SessionsKeepTheirGround` holds every open session against the password, roles and
permissions of now; a login that compared with an old password opens its session on the new
ground and is not covered. `GuessesAreBounded` counts the guesses that logins under way add
to the limit; `ScreensAgreeWithPolicy` compares the list of accounts, which takes a maximum
over all roles with those switched off as 0, with the policy, and the permissions shown of an
account with those its requests carry; `SuperOutOfReach`
and `AuthorityIsGivenFromAbove` are about long sequences of legal calls;
`RecoveryKeepsItsPromise` is the refinement of `OneTimeCode`.

`NoCycle` and `NothingHangsFromTheGone` are about pairs of requests; the part about
disabled nodes is about structure nodes alone, since the form of subjects writes
`is_active` past the check (`admin/admin.service.ts:459`). `NoLostUpdate` follows what
the user saw to what the save replaces, with one exception the code has: a card of
the settings page keeps its hook when its dialog closes
(`AdminSettingsPage.tsx:467`, `:739`), so choices made in an earlier opening lend
their revision to old values, although `docs/crud-coverage.md:171` speaks of every
conflict. `NoItemOverlooked` is the same promise for the items of a document.
`DictionaryStaysWhole` has no constraint of the database behind it.
`ReadsWhatIsWritten` says, of every document, where each of its lines must be, read
off the document and not off the parser's variables, and that what is in no row has a notice
that points at it (which keeps 180 characters of it); `DraftsWhatItParsed` compares
the draft's rows with the tree. `NoDecisionBeyondPermission` bounds what a form may do by
the permissions of who sends it, whatever was decided since it was loaded. It does not say
that decisions stand: a reviewed relation is taken back by `relation.update` alone, a
repealed annex by `annex.publish` alone, and texts may be edited while a law is IN_REVIEW.
`StartsOnWholeSchema` and `RevertLosesNothing` are about migrations that die or are refused;
the second excepts the reverts of 10, 12 and 14, which lose state without asking, and the
schema after a refused revert of 18.

Bounds, and why they are enough. Three days hold a version before, on and after
a middle day and two splits of one period, forward and backward; two documents
give the two orders of publication, and the three contents hold a whole
replacement with a renumbering, an addition, and a phrase replacement together
with a repeal in another article. Two words let a phrase be absent, unique or
doubled. Two processes and one stop give a claim that outlives its process beside
a live one; a text file and a scan give both paths through the queue. Two days and
three changes let the calendar or two changes fall between the snapshot of a
reindex and its commit. Six log
entries let a law be published after a return to the drafts, or archived or amended
after publication. Four activities let two clients overlap twice, or two logins, a
password change and a redemption meet. Three levels of authority suffice to stand
below, at and above somebody. Two requests over three nodes and an article make every
pair of handlers meet from two forests each. Three revisions and one save under way for two editors
let an answer be lost and the save be repeated on a newer row. Two curators and two sets let a
draft be made beside an active set. Three items, two writers, two steps. Documents of four lines hold a
heading of each level and a line, which is the deepest context the parser keeps. Three
edits by others or by the clerks between loading and sending. One use of the new columns and one broken
migration at a time, in each of nine migrations, forwards and back, on an empty
database and on one used before migration 12.

`MaxDisabled`, `MaxStops`, `MaxEvents`, `MaxChanges`, `LastDay`, `MaxStarts`,
`LockAfter`, `RoleChoices`, `GrantChoices`, `MaxRequests`, `MaxRevision`, `MaxMail`,
`LastSet`, `MaxSteps`, `Shift`, `MaxLines`, `MaxEdits`, `MaxUses`, `MaxBroken`,
`DraftDays`, `DraftTexts`, `EffectDays`, `Contents`, `ManualStates`, `LawTargets`, `Edits`,
`Togglable` and `Excepted` are bounds on inputs or counters, named as such where they
are declared. Symmetry is used on amendment documents, on the two users without
exceptions and on the clients of `Accounts`, in runs without liveness properties.

`CHECK_DEADLOCK FALSE`: the modelled systems may come to rest (the calendar ends,
all files are imported, the log is full, the bounded changes are made).

Fairness is on the worker's side only, and none is assumed of users. For the imports (`FairSpec`,
`Fairness`) it is weak: `setInterval` keeps
firing while a process is up, so a tick that can claim a job eventually does, and
what it then does ends one way or the other; a stopped process is started again
(`infra/systemd/yemen-legislation-worker.service`, `Restart=on-failure`; after a
clean stop an operator does it); and time passes, so claims grow stale. For the index
(`SearchFairness`) claiming and committing are weakly fair, for the same reason, and
so is the end of a rebuild; beginning a reindex is strongly fair, because it waits for a row lock that other
transactions take and release, and a waiting statement gets the lock in its turn. In `WorkerSpec`
the part that rests has none of its fair actions enabled, so its fairness asks for nothing.
`ImportsSettle` is promised for executions without a stop: with one,
`LostClaim` shows that it would be false. Fairness on `Start` makes that counterexample
stronger: the process does come back, and still the claim is lost.

## 4. Findings

Six runs end in a violation of what a document or a message of the repository
says; `PROJECT.json` quotes each line.

1. `TextOnItsDay`: nothing promotes a FUTURE version, and public reads ignore it.
2. `LostClaim`: stale claims are recovered only when a process starts.
3. `DeletedUnderOcr`: the deletion guard forgets imports waiting for OCR.
4. `SecondCopy`: the unique key leaves room for one inactive row per content.
5. `SelfApproval`: the uploader and the editor of article data are not on record.
6. `DraftWontSave`: a save meets the place that a deleted item was moved to.

What else modelling showed, and where the models have it:

- A failed REINDEX is not repeated, and a rebuild by hand leaves out texts to come
  (exceptions of `MissedOnlyWhileQueued`).
- `updateRelation` asks for `relation.review` by the new status alone
  (`admin.service.ts:1550`): a stale form of somebody without it takes a reviewed relation back
  to unreviewed. `RelationStands` therefore says only that what reads REVIEWED or REJECTED was
  put so, in these words, by somebody with the permission. A reviewer's own stale form decides again without notice, and the source form
  sends the extraction status it loaded, over what the worker wrote since.
- The page offers what the server refuses: structure editors outside the drafts without
  `published_metadata.update`, unlinking outside the drafts, new annexes, relations and
  transitions in a disabled law, the title of a published annex, statuses without
  reviewed evidence or without `source.review`. "Prepare" and "return" both send DRAFT.
- Migration 12 widens what denials used to cover: a custom role that held
  `user.disable` gets `user.enable` beside it, and an account's denial of the former
  does not cover the latter; nor does a denial of `relation.manage` cover the
  `relation.review` that the role gets.
- `docs/09_PERMISSION_MIGRATION_MAP.md:103` calls the conversion of references transactional.
  Its DDL commits, so a crash in migration 12 leaves grants half converted, and a second run fails at the
  first backup table; of 10 to 18 only 17 can be run again. After a revert that broke
  off, migrating forwards can satisfy the contract with columns missing, since it tests
  `users.deleted_at`, the recovery table and the edit revisions only. Migration 18 drops one index before it
  learns that it cannot restore the other; 12 cannot be reverted
  after a custom role was deleted, which it finds out before it changed anything.
- Three reverts have no refusal, though migration 15 speaks of refusing "once it would revive
  deleted records or discard administrative state" (its own, as written): 14 drops the tables
  of attachments and links; 12 puts the grants and overrides back as they were before it and
  drops the levels of roles; 10 drops `roles.is_active`, `user_roles.assigned_by` and both
  tables of grants. `RevertLosesNothing` excepts the three by number.
- The account is locked at the fourth wrong password, not the fifth: MariaDB assigns from left to
  right, so in `auth/auth.service.ts:65-66` the comparison adds one to a counter that was raised
  already. `LoginFails` has `failures + 2 >= LockAfter`.
- The parser's notice of unassigned text keeps its first 180 characters
  (`legal-structure-parser.ts:246-248`, `:405`); the rest is in the stored text of the import only.
- An article heading glued to its bracket, right under a bare heading, is taken for the
  heading's title (`:238`), though `docs/import-improvement/02_STRUCTURE_PARSER.md:20` says that
  the next line is not consumed when it is an article's.
- `updateAnnex` and `updateRelation` queue no reindex, so the search shows an annex or relation as it
  was, or not at all, until some other change of the law.

## 5. Proofs

Everything proved holds for every value of the constants that satisfies the named
assumptions.

**ArticleTimeline** (`TimelineAssumption`). Type and periods are proved together: the
inductive invariant `IInv` says that an article not yet created has no history and
that every history is a sequence of typed versions with disjoint periods, in which
a draft is the only version and open-ended, and in which no day is uncovered
from the first day on once it is published. Disjointness alone is
not inductive: closing a period needs the covering version to be unique, and no gap
needs to know that a successor ends where its predecessor ended. `SplitHistory`
shows the pair `Closed`/`Successor` keeps all that, `PublishInv` lifts it to all
articles of a document. From it follow `TypeCorrect`, `PeriodsDisjoint`,
`HistoriesGapless`, `AmendmentsFit` (the triggers accept what the service computes)
and, as an action property, `HistoryImmutable`.
`TimelineImplementsTextHistory` maps the initial state and every step to
`TextHistory` or a stutter, the state function being the text of the covering
version per day; `SplitForce` shows that a split is a change of the texts from the
effective day to the end of the period.

`PublishedWhole`, `HistoryExplained` and `PublicReadIsLegal` are about the law and need
more (`RInv`). `Whole`: an article that exists has a version, and none is a draft while the law is
public or archived. `Register`: every entry of the register is explained by its document and by
two versions of the article, the later of which is not a draft, every version but the first has
exactly one entry, and the entries of a document are of all its targets or, before it is
published, of none. That the recorded version is no draft keeps the edits and the publication of
drafts away from what the register speaks of (`WholeInv`, `RegisterPublish`). `ShownCovers` ties the
public query to the covering version, which is unique since periods are disjoint.

**ImportPipeline** (`PipelineAssumption`, `~SlowJobs`). The inductive invariant
follows the work under way on an import: a job that is not finished, or one whose
failure is not yet recorded on the import. At most one tick has that job, its claim
is not stale, an import has at most one, its status is of the job's stage, and no
text is stored yet. Without the part on staleness a starting process could take a
live claim back; without the part on failing ticks the second statement of the
`catch` block could undo a review. It gives `TypesHold`, `JobsRunOnce`,
`StatusIsStage` and `ReviewIsFinal`. `ReferencedSourcesKept` and `SettledSourcesFixed` are proved beside it. All
six assume that no live tick is at a job for fifteen minutes, which the code does not see to. Of the
jobs, the status and the review nothing else would be true: with `SlowJobs = TRUE` a
starting process takes a live claim back, and the job is run a second time.

**SearchIndex** and **Worker** (`DaysAssumption`, `RoundsAssumption`, `ChangesAssumption`; for the
types of the imports also `~SlowJobs`). `SearchInv` has three parts beside the types. `Grown`:
versions are only added, so a document that was written of one, or will be from a snapshot in
flight, still has it; with the filters of the reader that gives `HitsOpen` at any age of the
index. `OneWriter`: a reindex and the rebuild exclude each other. `UpToDate`: unless a job failed,
a job waits that has yet to read the tables, or else every snapshot in flight agrees with them,
and if none is in flight the index does. `AdministrationServes` is the lemma it hangs on: a
change queues a job or leaves alone what the jobs derive from a public law. `NothingMissedForLong`
follows, with the exceptions named in section 3: failed jobs, versions left out by a rebuild,
and annexes and relations, which are not among what is found.

**SeparationOfDuties** (`SeparationAssumption`). `Recorded` says that the acts in the
audit log are on record as duties, since duties are never removed; a decision
under the enforced policy then has no conflicting duty and hence no conflicting act.
`Stages` says which acts the log must hold in each status of the law, which gives
`PublishedByThree`.

**Accounts** (`AccountsAssumption`, `PolicyAssumption`, `InitAssumption`; the last says what the seed
and the foreign keys see to: SUPER is active and above every role, and only what is there is held).
All seven properties of the run are proved. The invariant `AInv` has a part for each way in
which a sequence of legal calls could undermine them:

- `Superior`: SUPER is active and nothing is above it. Then nobody has authority over its holders
  (`NobodyManagesSuper`).
- `Holdings`: only roles that are there are held, and nothing is both allowed and denied to one
  user, without which the permissions shown would not be those carried. Without the first a new role could move the
  ground of somebody who holds a deleted one, and nobody would close the sessions.
- `Known`: sessions and activities belong to accounts that were created, so that `CreateUser` moves
  no ground under a session.
- `Owned`: no code is issued for a holder of SUPER; with `ProtectedStays`, none for somebody who
  became one since.
- `Grounded`: `GroundSteps` shows that a step either leaves a ground alone or closes the sessions on
  it, and `SessionSteps` that only `LoginOpens` inserts one.
- `Counted`: while an account is open its counter has seen every wrong password, and there were
  fewer than `LockAfter - 1`; after it was locked, every further one uses up a login that had read the account before, of which there is
  at most one for each client. The bound in `GuessesAreBounded` follows.

`AuthorityStep` needs that a maximum over roles exists, which comes from the well-foundedness of <
(`MaximumIs`); `ShownLevelIs` needs it too, to show that a role that is switched off, counted as
0, changes no maximum. The refinement goes action by action with `Printed`: no password is older than the
code issued for it, hence setting a password turns every good code of the account into a void one,
and a redemption finds a good code in the step that uses it, because it looks again under the lock.

**Records.** Each desk has an inductive invariant of its own, kept by its own next-state relation.
Every step of `Records` is a step of one desk (the last section of `RecordsProofs`), so each
theorem is one of `Spec`, and `RecordsTypesHold` puts the types together.

- **Hierarchy** (`NoneAssumption`, `RowsAssumption`, `RequestsAssumption`; `ForestAssumption` and
  `LeavesAssumption` say that the first rows are forests in which nothing hangs from what is gone).
  `NoCycle` and `NothingHangsFromTheGone` are about rows, but a request decides by rows it read
  earlier. `TreeInv` therefore says of every request under way which rows it holds or has still to
  lock (`LocksTaken`), that what it saw of a row when it locked it is still so (`AsLocked`), that the
  row it makes is made by nobody else (`Fresh`), that the ancestors it walked over lead from
  the new parent to the one it walks to next (`Walked`), and that what it found without a lock is
  still so (`StillSo`). Whoever could change it needs a lock the request holds.
- **Dictionary** (`LastSetAssumption`, `TermsAssumption`). `DictInv`: versions are numbered without a
  gap, two requests share no row but the gap, who will insert a set holds the gap while there is no
  draft, who changes a set or its pairs holds its row, and there is one draft and one active
  set with pairs at most. Without the gap lock two requests could both find no draft.
- **SharedEditing** (`RecordAssumption`, `RevisionAssumption`). `EditInv`: an open form shows the
  values of the revision its hook would send (`FormAgrees`), and so does a save under way
  (`SaveAgrees`), unless choices of an earlier opening were merged, the exception `NoLostUpdate` names.
- **ContentPage** (`EditsAssumption`). `PageInv` types the rows and what pages loaded; the four parts
  of `NoDecisionBeyondPermission` then follow from what a form can carry and what its handler looks at again.
- **AmendmentDraft** (`ShiftAssumption`, `StepsAssumption`, `ItemsAssumption`). `DraftInv`: no two kept
  items share a place, and whoever has the newest revision has the list that goes with it.
  `RisingIsIdentity` shows that a document has only one list in the order of its places.
- **StructureParser** (`KindsAssumption`, `BoundAssumption`). `ParseInv` says what each variable of
  the loop stands for in terms of the lines read: the active headings are those that
  govern the next line, the open article is the last token, no title is still to come, the buffer
  holds the passage that is being left over (`Collecting`), every line of text is in its place, and articles and nodes rise with their lines. The loop is a behaviour
  and not a recursive operator, so documents of every length need no induction over data.
- **Migrations** (`GrantsAssumption`, `UsesAssumption`). First the scripts: each column, table and index
  has one migration that makes it (`Owner`); what a revert drops of administrative state it has asked
  about, except 10, 12 and 14 (`AsksFirst`); whatever refuses comes before anything that commits, except in 18
  (`RefusesEarly`). `MigrationInv` then follows the runner through a script. `SchemaStands`: unless a
  revert broke off, every recorded migration is done, but for the one being reverted.
  `AccessStands`: once 12 is recorded the grants are those it made of the copy, through all later
  migrations and their reverts. `DirectAgrees` and `SessionIsMapped` show that a session then
  holds what the map promises. `RevertsLoseNothing` and `ProcessesStartOnWholeSchema` follow.

All 40 properties of the passing runs but two are stated by a theorem. Only model-checked are the
liveness properties `ImportsSettle` and `SearchCatchesUp`, since the provers have no rules
for fairness and ENABLED; and the six findings are counterexamples of their runs.

## 6. Not modelled, and what could follow

Quality issues, reports, user tools (favourites, notes, saved searches) and health
are independent updates of single rows and reads. Backup scripts, seeds and
the public pages of the web only move or show data. Of the modelled parts are left
out: formats of files, texts and their normalisation, ranking and tokens of the search, labels and
sort keys, stored snapshots of previous texts, pages of annexes, cookies and CSRF
tokens, heartbeats, scopes other than ALL. The race of a revert with a live API is
not modelled; the procedure stops the platform first.

Two transactions that create the same amendment document from older snapshots
(`amendments.service.ts:138`) need a model of REPEATABLE READ beside that of row locks.
