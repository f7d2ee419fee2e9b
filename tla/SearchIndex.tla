----------------------------- MODULE SearchIndex -----------------------------
(***************************************************************************)
(* The search documents of one law: the worker that derives them from its  *)
(* tables when a REINDEX_ENTITY job says so, the rebuild of the whole      *)
(* index, and the filters the public search puts on them when it reads.    *)
(* The index is stale between a change and its job, and again whenever     *)
(* the calendar moves; what readers may then see, and what they may miss,  *)
(* is the subject of the module.                                           *)
(***************************************************************************)
EXTENDS Integers, Sequences, FiniteSets

CONSTANTS
  LastDay,      \* last day of the calendar
  Rounds,       \* runs of the worker's loop that can overlap
  MaxChanges    \* bound on the changes of a behaviour

ASSUME DaysAssumption == LastDay \in Nat \ {0}
ASSUME RoundsAssumption == IsFiniteSet(Rounds)
ASSUME ChangesAssumption == MaxChanges \in Nat

VARIABLES
  day,       \* CURRENT_DATE
  stored,    \* the tables a reindex reads
  indexed,   \* search_documents of the law
  queue,     \* its jobs: ready, stranded (RUNNING, process gone), failed
  round,     \* what each run of the worker's loop is doing
  rebuild,   \* the request that rebuilds the whole index
  built,     \* by whom and on which day the documents were written
  changes

searchVars == <<day, stored, indexed, queue, round, rebuild, built, changes>>

Calendar == 0..LastDay
NoEnd == LastDay + 1

Kinds == {"LEGISLATION", "ARTICLE_VERSION", "AMENDMENT", "ANNEX_PAGE", "RELATION"}
IndexDoc == [kind : Kinds, no : Nat, title : 0..MaxChanges,
             current : BOOLEAN, from : Calendar, to : 0..NoEnd]

(***************************************************************************)
(* The tables: one law with one article, and one amendment, annex and      *)
(* relation that may or may not have reached readers; `target` says        *)
(* whether the law at the other end of the relation is public.             *)
(***************************************************************************)
PublicLaw(s) == s.law.status = "PUBLISHED" /\ s.law.active

Tables == [law : [status : {"APPROVED_FOR_PUBLISHING", "PUBLISHED", "ARCHIVED"},
                  active : BOOLEAN, title : 0..MaxChanges],
           article : BOOLEAN,
           versions : Seq([status : {"DRAFT", "PUBLISHED", "REPEALED", "FUTURE"},
                           from : Calendar, to : 0..NoEnd]),
           amendment : [status : {"REVIEWED", "PUBLISHED"}, active : BOOLEAN],
           annex : [status : {"DRAFT", "PUBLISHED", "REPEALED"}, active : BOOLEAN],
           relation : [status : {"UNREVIEWED", "REVIEWED"}, active : BOOLEAN],
           target : BOOLEAN]

Prepared(from) ==
  [law |-> [status |-> "APPROVED_FOR_PUBLISHING", active |-> TRUE, title |-> 0],
   article |-> TRUE,
   versions |-> <<[status |-> "DRAFT", from |-> from, to |-> NoEnd]>>,
   amendment |-> [status |-> "REVIEWED", active |-> TRUE],
   annex |-> [status |-> "DRAFT", active |-> TRUE],
   relation |-> [status |-> "UNREVIEWED", active |-> TRUE],
   target |-> TRUE]

PublishedVersions(versions) ==
  [i \in DOMAIN versions |->
     [versions[i] EXCEPT !.status = IF @ = "DRAFT" THEN "PUBLISHED" ELSE @]]

Published(s) == [s EXCEPT !.law.status = "PUBLISHED",
                          !.versions = PublishedVersions(@)]
WithDependants(s) == [s EXCEPT !.annex.status = "PUBLISHED",
                               !.relation.status = "REVIEWED"]

-----------------------------------------------------------------------------
(***************************************************************************)
(* Writing the index                                                       *)
(***************************************************************************)
Whole(kind, s) ==
  [kind |-> kind, no |-> 0, title |-> IF kind = "LEGISLATION" THEN s.law.title ELSE 0,
   current |-> TRUE, from |-> 0, to |-> NoEnd]

InForce(v, d) == v.from <= d /\ d < v.to

VersionDoc(s, i, d) ==
  [kind |-> "ARTICLE_VERSION", no |-> i, title |-> 0,
   current |-> s.versions[i].status = "PUBLISHED" /\ InForce(s.versions[i], d),
   from |-> s.versions[i].from, to |-> s.versions[i].to]

\* The worker reads what has reached readers by its status, and every version of
\* every article; availability is left to the filters of the reader.
ReindexLegislation(s, d) ==
  LET kinds == {k \in Kinds :
        \/ k = "LEGISLATION"
        \/ k = "AMENDMENT" /\ s.amendment.status = "PUBLISHED"
        \/ k = "ANNEX_PAGE" /\ s.annex.status = "PUBLISHED"
        \/ k = "RELATION" /\ s.relation.status = "REVIEWED"}
  IN IF s.law.status # "PUBLISHED" THEN {}
     ELSE {Whole(k, s) : k \in kinds} \cup {VersionDoc(s, i, d) : i \in DOMAIN s.versions}

\* The rebuild asks for availability too, and for versions that have begun.
RebuildSearchIndex(s, d) ==
  LET kinds == {k \in Kinds :
        \/ k = "LEGISLATION"
        \/ k = "AMENDMENT" /\ s.amendment.active /\ s.amendment.status = "PUBLISHED"
        \/ k = "ANNEX_PAGE" /\ s.annex.active /\ s.annex.status = "PUBLISHED"
        \/ k = "RELATION" /\ s.relation.active /\ s.relation.status = "REVIEWED" /\ s.target}
      begun == {i \in DOMAIN s.versions :
                  /\ s.article
                  /\ s.versions[i].status \in {"PUBLISHED", "REPEALED"}
                  /\ s.versions[i].from <= d}
  IN IF ~PublicLaw(s) THEN {}
     ELSE {Whole(k, s) : k \in kinds} \cup {VersionDoc(s, i, d) : i \in begun}

(***************************************************************************)
(* Reading the index                                                       *)
(***************************************************************************)
Readable(v) == v.status \in {"PUBLISHED", "REPEALED"}

\* Mutant: a hit on an article version does not look at its article.
VisibleWhateverTheArticle(doc) ==
  /\ PublicLaw(stored)
  /\ CASE doc.kind = "LEGISLATION" -> TRUE
       [] doc.kind = "ARTICLE_VERSION" ->
            /\ Readable(stored.versions[doc.no]) /\ stored.versions[doc.no].from <= day
       [] doc.kind = "AMENDMENT" ->
            stored.amendment.active /\ stored.amendment.status = "PUBLISHED"
       [] doc.kind = "ANNEX_PAGE" ->
            stored.annex.active /\ stored.annex.status \in {"PUBLISHED", "REPEALED"}
       [] doc.kind = "RELATION" ->
            stored.relation.active /\ stored.relation.status = "REVIEWED" /\ stored.target

\* build: the state of the record is read again for every hit.
Visible(doc) ==
  /\ PublicLaw(stored)
  /\ CASE doc.kind = "LEGISLATION" -> TRUE
       [] doc.kind = "ARTICLE_VERSION" ->
            /\ stored.article
            /\ Readable(stored.versions[doc.no]) /\ stored.versions[doc.no].from <= day
       [] doc.kind = "AMENDMENT" ->
            stored.amendment.active /\ stored.amendment.status = "PUBLISHED"
       [] doc.kind = "ANNEX_PAGE" ->
            stored.annex.active /\ stored.annex.status \in {"PUBLISHED", "REPEALED"}
       [] doc.kind = "RELATION" ->
            stored.relation.active /\ stored.relation.status = "REVIEWED" /\ stored.target

\* Without a date the search shows what was current when it was indexed, or is now.
Hits == {doc \in indexed : Visible(doc) /\ (doc.current \/ InForce(doc, day))}

\* With a date, the law and the versions in force on it; other documents have none.
HitsAt(d) ==
  {doc \in indexed :
     /\ Visible(doc)
     /\ \/ doc.kind = "LEGISLATION"
        \/ doc.kind = "ARTICLE_VERSION" /\ InForce(doc, d)}
AnyHits == Hits \cup UNION {HitsAt(d) : d \in Calendar}

(***************************************************************************)
(* The pages a hit leads to (legislations.service.ts, articles.controller) *)
(***************************************************************************)
History == {i \in DOMAIN stored.versions :
              /\ PublicLaw(stored) /\ stored.article
              /\ Readable(stored.versions[i]) /\ stored.versions[i].from <= day}
ArticlesAt(d) == {i \in DOMAIN stored.versions :
                    /\ PublicLaw(stored) /\ stored.article
                    /\ Readable(stored.versions[i]) /\ InForce(stored.versions[i], d)}
Modifications ==
  PublicLaw(stored) /\ stored.amendment.active /\ stored.amendment.status = "PUBLISHED"
Annexes ==
  PublicLaw(stored) /\ stored.annex.active /\ stored.annex.status \in {"PUBLISHED", "REPEALED"}
Relations ==
  /\ PublicLaw(stored) /\ stored.target
  /\ stored.relation.active /\ stored.relation.status = "REVIEWED"

Opens(doc) ==
  CASE doc.kind = "LEGISLATION" -> PublicLaw(stored)
    [] doc.kind = "ARTICLE_VERSION" -> doc.no \in History
    [] doc.kind = "AMENDMENT" -> Modifications
    [] doc.kind = "ANNEX_PAGE" -> Annexes
    [] doc.kind = "RELATION" -> Relations

-----------------------------------------------------------------------------
IdleRun == [phase |-> "idle", view |-> Prepared(0), on |-> 0]

SearchInit ==
  /\ day = 0
  /\ stored \in {Prepared(0), Prepared(1), Published(WithDependants(Prepared(0)))}
  /\ indexed = ReindexLegislation(stored, day)
  /\ queue = [ready |-> 0, stranded |-> 0, failed |-> FALSE]
  /\ round = [t \in Rounds |-> IdleRun]
  /\ rebuild = IdleRun
  /\ built = [by |-> "worker", on |-> 0]
  /\ changes = 0

searchDocuments == <<indexed, built>>
work == <<queue, round, rebuild>>

(***************************************************************************)
(* The changes; what is said of the queue is in the same transaction       *)
(***************************************************************************)
\* Mutant: a job is not queued while one for the law is running.
EnqueuedOnce ==
  IF \E t \in Rounds : round[t].phase # "idle" THEN queue ELSE [queue EXCEPT !.ready = @ + 1]

Enqueued == [queue EXCEPT !.ready = @ + 1]

Changes(s) ==
  /\ changes < MaxChanges /\ changes' = changes + 1
  /\ stored' = s
  /\ UNCHANGED <<day, searchDocuments, round, rebuild>>

PublishLaw ==
  /\ stored.law.status = "APPROVED_FOR_PUBLISHING" /\ stored.law.active
  /\ Changes(Published(stored))
  /\ queue' = Enqueued

\* Archiving queues nothing: the filters hide what is no longer public.
ArchiveLaw ==
  /\ PublicLaw(stored)
  /\ Changes([stored EXCEPT !.law.status = "ARCHIVED"])
  /\ UNCHANGED queue

UpdateMetadata ==
  /\ stored.law.active
  /\ Changes([stored EXCEPT !.law.title = @ + 1])
  /\ queue' = Enqueued

\* applyArticle: the version in force on the day is closed, its successor added.
PublishAmendmentOn(from, repeal) ==
  \E i \in DOMAIN stored.versions :
    /\ PublicLaw(stored) /\ stored.article
    /\ stored.amendment.active /\ stored.amendment.status = "REVIEWED"
    /\ stored.versions[i].status # "DRAFT"
    /\ InForce(stored.versions[i], from) /\ stored.versions[i].from < from
    /\ LET status == IF repeal THEN "REPEALED"
                     ELSE IF from > day THEN "FUTURE" ELSE "PUBLISHED"
           new == [status |-> status, from |-> from, to |-> stored.versions[i].to]
       IN Changes([stored EXCEPT !.amendment.status = "PUBLISHED",
                                 !.versions = Append([@ EXCEPT ![i].to = from], new)])
    /\ queue' = Enqueued

PublishAmendment ==
  \E from \in Calendar, repeal \in BOOLEAN : PublishAmendmentOn(from, repeal)

\* Annexes and relations are written without a word to the queue.
UpdateAnnex ==
  \E status \in {"PUBLISHED", "REPEALED"} :
    /\ stored.annex.status # status
    /\ Changes([stored EXCEPT !.annex.status = status])
    /\ UNCHANGED queue

UpdateRelation ==
  \E status \in {"UNREVIEWED", "REVIEWED"} :
    /\ stored.relation.status # status
    /\ Changes([stored EXCEPT !.relation.status = status])
    /\ UNCHANGED queue

\* The law at the other end comes and goes; its own jobs are for its own index.
ChangeTarget ==
  /\ Changes([stored EXCEPT !.target = ~@])
  /\ UNCHANGED queue

\* Enable or disable one of the records; a record of the law is enabled only in
\* an active law.
Availability ==
  {[stored EXCEPT !.law.active = ~@]}
    \cup {s \in {[stored EXCEPT !.article = ~@], [stored EXCEPT !.amendment.active = ~@],
                 [stored EXCEPT !.annex.active = ~@], [stored EXCEPT !.relation.active = ~@]} :
            stored.law.active \/ (stored.article /\ ~s.article)
              \/ (stored.amendment.active /\ ~s.amendment.active)
              \/ (stored.annex.active /\ ~s.annex.active)
              \/ (stored.relation.active /\ ~s.relation.active)}

\* Mutant: the life cycle changes a record and leaves its index alone.
ChangeAvailabilityUnqueued == \E s \in Availability : Changes(s) /\ UNCHANGED queue

ChangeAvailability == \E s \in Availability : Changes(s) /\ queue' = Enqueued

NextDay ==
  /\ day < LastDay /\ day' = day + 1
  /\ UNCHANGED <<stored, searchDocuments, work, changes>>

(***************************************************************************)
(* The worker.  A reindex is one transaction: it deletes the documents of  *)
(* the law, reads its tables in one snapshot, writes the new documents and *)
(* closes the job.  The deletion keeps other writers of the same documents *)
(* out; of two that wait for each other the database rolls one back.       *)
(***************************************************************************)
Writing == (\E t \in Rounds : round[t].phase = "indexing") \/ rebuild.phase = "indexing"

ClaimJob(t) ==
  /\ round[t].phase = "idle" /\ queue.ready > 0
  /\ queue' = [queue EXCEPT !.ready = @ - 1]
  /\ round' = [round EXCEPT ![t].phase = "claimed"]
  /\ UNCHANGED <<day, stored, searchDocuments, rebuild, changes>>

BeginReindex(t) ==
  /\ round[t].phase = "claimed" /\ ~Writing
  /\ round' = [round EXCEPT ![t] = [phase |-> "indexing", view |-> stored, on |-> day]]
  /\ UNCHANGED <<day, stored, searchDocuments, queue, rebuild, changes>>

CommitReindex(t) ==
  /\ round[t].phase = "indexing"
  /\ indexed' = ReindexLegislation(round[t].view, round[t].on)
  /\ built' = [by |-> "worker", on |-> round[t].on]
  /\ round' = [round EXCEPT ![t] = IdleRun]
  /\ UNCHANGED <<day, stored, queue, rebuild, changes>>

\* Any error of the database: the job is marked as failed, and nothing tries again.
FailReindex(t) ==
  /\ round[t].phase # "idle"
  /\ queue' = [queue EXCEPT !.failed = TRUE]
  /\ round' = [round EXCEPT ![t] = IdleRun]
  /\ UNCHANGED <<day, stored, searchDocuments, rebuild, changes>>

\* The process ends with jobs RUNNING; those that are old enough when it starts
\* again are made READY.
CrashWorker ==
  /\ queue.stranded = 0 /\ changes < MaxChanges /\ changes' = changes + 1
  /\ \E t \in Rounds : round[t].phase # "idle"
  /\ queue' = [queue EXCEPT !.stranded = Cardinality({t \in Rounds : round[t].phase # "idle"})]
  /\ round' = [t \in Rounds |-> IdleRun]
  /\ UNCHANGED <<day, stored, searchDocuments, rebuild>>

ReclaimJobs ==
  \E n \in 1..queue.stranded :
    /\ queue' = [queue EXCEPT !.ready = @ + n, !.stranded = @ - n]
    /\ UNCHANGED <<day, stored, searchDocuments, round, rebuild, changes>>

(***************************************************************************)
(* The rebuild, in one transaction of the API                              *)
(***************************************************************************)
BeginRebuild ==
  /\ rebuild.phase = "idle" /\ ~Writing
  /\ changes < MaxChanges /\ changes' = changes + 1
  /\ rebuild' = [phase |-> "indexing", view |-> stored, on |-> day]
  /\ UNCHANGED <<day, stored, searchDocuments, queue, round>>

CommitRebuild ==
  /\ rebuild.phase = "indexing"
  /\ indexed' = RebuildSearchIndex(rebuild.view, rebuild.on)
  /\ built' = [by |-> "rebuild", on |-> rebuild.on]
  /\ rebuild' = IdleRun
  /\ UNCHANGED <<day, stored, queue, round, changes>>

AbortRebuild ==
  /\ rebuild.phase = "indexing"
  /\ rebuild' = IdleRun
  /\ UNCHANGED <<day, stored, searchDocuments, queue, round, changes>>

Administration ==
  \/ PublishLaw \/ ArchiveLaw \/ UpdateMetadata \/ PublishAmendment
  \/ UpdateAnnex \/ UpdateRelation \/ ChangeTarget \/ ChangeAvailability

SearchNext ==
  \/ NextDay \/ Administration
  \/ \E t \in Rounds : ClaimJob(t) \/ BeginReindex(t) \/ CommitReindex(t) \/ FailReindex(t)
  \/ CrashWorker \/ ReclaimJobs
  \/ BeginRebuild \/ CommitRebuild \/ AbortRebuild

\* setInterval starts a tick every second, and a statement sent is executed.
SearchFairness ==
  /\ \A t \in Rounds : /\ WF_searchVars(ClaimJob(t))
                      /\ SF_searchVars(BeginReindex(t))
                      /\ WF_searchVars(CommitReindex(t))
  /\ WF_searchVars(CommitRebuild \/ AbortRebuild)

-----------------------------------------------------------------------------
SearchTypeOK ==
  /\ day \in Calendar
  /\ stored \in Tables
  /\ indexed \subseteq IndexDoc
  /\ queue \in [ready : Nat, stranded : 0..Cardinality(Rounds), failed : BOOLEAN]
  /\ \A r \in {round[t] : t \in Rounds} \cup {rebuild} :
       /\ r.phase \in {"idle", "claimed", "indexing"}
       /\ r.view \in Tables /\ r.on \in Calendar
  /\ built \in [by : {"worker", "rebuild"}, on : Calendar]
  /\ changes \in 0..MaxChanges

\* What the search offers can be opened: however old the index is, no hit leads
\* to a law, a text, an amendment, an annex or a relation that its own page would
\* refuse or leave out today ("delayed reindex jobs cannot expose disabled
\* records", public-record-visibility.ts:1).
HitsOpen == \A doc \in AnyHits : Opens(doc)

\* A version to come that was left out by the last rebuild; nothing brings it in
\* when its day arrives (reindex.ts:66).
LeftOut(i) == built.by = "rebuild" /\ stored.versions[i].from > built.on

Found ==
  PublicLaw(stored) =>
    /\ \E doc \in Hits : doc.kind = "LEGISLATION" /\ doc.title = stored.law.title
    /\ Modifications => \E doc \in Hits : doc.kind = "AMENDMENT"
    /\ \A i \in ArticlesAt(day) : LeftOut(i) \/ \E doc \in Hits : doc.no = i
    /\ \A d \in 0..day :
         LET at == {doc.no : doc \in {x \in HitsAt(d) : x.kind = "ARTICLE_VERSION"}}
         IN at \subseteq ArticlesAt(d) /\ \A i \in ArticlesAt(d) : LeftOut(i) \/ i \in at

Pending == queue.ready > 0 \/ queue.stranded > 0 \/ \E t \in Rounds : round[t].phase # "idle"

\* A change of the law, of its articles or its amendments is never lost on the
\* way to the readers: unless a job is waiting, running or marked as failed, the
\* search finds the law as it stands, its published amendments and the text in
\* force, today and on any day before (main.ts:257-394; the jobs queued by
\* admin.service.ts:1827, :1910, amendments.service.ts:419, lifecycle.service.ts:256).
\* Three things are not promised: a version to come that a manual rebuild left out stays
\* away until the next job (LeftOut); a job marked as failed leaves its gap for good;
\* and Found is silent about annexes and relations, whose handlers queue nothing
\* (updateAnnex, updateRelation, admin.service.ts:1381-1654), so that the search learns
\* of their changes with the next job for the law at the earliest.
MissedOnlyWhileQueued == ~Found => Pending \/ queue.failed

\* The worker catches up: what the search misses, of what Found speaks of, it finds
\* again, unless a job failed or the process died with it (main.ts:408-451).
SearchCatchesUp == ~Found ~> Found \/ queue.failed \/ queue.stranded > 0
=============================================================================
