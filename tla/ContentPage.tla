----------------------------- MODULE ContentPage -----------------------------
(***************************************************************************)
(* The page of one law in the administration.  Each of its tabs shows      *)
(* forms and buttons by what was loaded and by the permissions of the      *)
(* account; the page is not told of what others do.  What it sends, later  *)
(* perhaps, the API judges by the rows it locks.  Each form is the set of  *)
(* the requests that it lets its user send; the handler of a request is    *)
(* when the API accepts it and what it then writes.  A refusal changes     *)
(* nothing: the dialog shows it and stays open.                            *)
(*                                                                         *)
(* A behaviour is about one tab, with one record of its kind and one       *)
(* source of the law.  Of the fields of a form one text is followed.  The  *)
(* conditions of the workflow beside permission are in SeparationOfDuties, *)
(* the tree of the structure and the life of its rows in Hierarchy.        *)
(***************************************************************************)
EXTENDS Integers, Sequences, FiniteSets, WorkflowRules

CONSTANTS
  Clerks,        \* those who have the page open
  Assignments,   \* the permissions they may hold: functions on Clerks
  MaxEdits       \* bound on the changes of a behaviour

ASSUME EditsAssumption == MaxEdits \in Nat

VARIABLES
  tab,      \* the tab the behaviour is about
  held,     \* the permissions of each clerk
  lawRow,   \* the row of the law: status, active
  record,   \* the record of the tab: state, text, active
  source,   \* the source file: extraction status, active, linked to the law
  loaded,   \* what each clerk's page has loaded, if it is open
  edits     \* changes so far, up to MaxEdits

pageVars == <<tab, held, lawRow, record, source, loaded, edits>>

InDraft == {"INBOX", "DRAFT"}
OpenForEdits == {"INBOX", "DRAFT", "IN_REVIEW"}

Tabs == {"general", "articles", "structure", "annexes", "relations", "sources", "workflow"}
Texts == {"as drawn up", "as reworded"}
SourceStates == {"PENDING", "OCR_UNREVIEWED", "REVIEWED"}
AnnexDecisions == {"PUBLISHED", "REPLACED", "REPEALED"}
RelationStates == {"UNREVIEWED", "REVIEWED", "REJECTED"}
RelationTypes == {"TOPICALLY_RELATED", "IMPLEMENTS"}  \* the latter for the six others
RowStates(t) ==
  CASE t = "articles" -> {"ABSENT", "DRAFT", "PUBLISHED"}
    [] t = "annexes" -> {"ABSENT", "DRAFT"} \cup AnnexDecisions
    [] t = "relations" -> {"ABSENT"} \cup RelationStates
    [] OTHER -> {"ABSENT", "PRESENT"}

Permission(from, to) ==
  CASE to = "IN_REVIEW" -> "legislation.submit"
    [] from = "INBOX" -> "legislation.prepare"
    [] from = "IN_REVIEW" /\ to = "DRAFT" -> "legislation.return"
    [] to = "APPROVED_FOR_PUBLISHING" -> "legislation.approve"
    [] to = "PUBLISHED" -> "legislation.publish"
    [] to = "ARCHIVED" -> "legislation.archive"
AnnexPermission(state) ==
  CASE state = "PUBLISHED" -> "annex.publish"
    [] state = "REPLACED" -> "annex.replace"
    [] state = "REPEALED" -> "annex.repeal"

-----------------------------------------------------------------------------
\* What the page offers an account with the permissions p, from what it loaded, g

MetadataForm(p, g) ==
  IF g.law.status \in OpenForEdits
  THEN {[form |-> "metadata", text |-> t] : t \in {x \in Texts : "legislation.update" \in p}}
  ELSE {r \in {[form |-> "metadata", text |-> "unsent"]} : "legislation.published_metadata.update" \in p}

WorkflowActions(p, g) ==
  {[form |-> "transition", target |-> m.to] :
     m \in {x \in Transitions : x.from = g.law.status /\ Permission(x.from, x.to) \in p}}

NewArticle(p, g) ==
  {r \in {[form |-> "new article", text |-> t] : t \in Texts} :
     g.law.status \in InDraft /\ "article.create" \in p}

ArticleEditor(p, g) ==
  {r \in {[form |-> "article", text |-> t] : t \in Texts} :
     g.row.state = "DRAFT" /\ "article.update" \in p}

NewStructureEditor(p) ==
  {r \in {[form |-> "new structure", text |-> t] : t \in Texts} : "structure.create" \in p}

StructureEditor(p, g) ==
  {r \in {[form |-> "structure", text |-> t] : t \in Texts} :
     g.row.state = "PRESENT" /\ "structure.update" \in p}

\* A published annex shows its form to those who may take the same decision again.
AnnexEditor(p, g) ==
  {[form |-> "annex", text |-> t, state |-> s] :
     t \in Texts,
     s \in {x \in RowStates("annexes") \ {"ABSENT"} :
              /\ g.row.state # "ABSENT" /\ "annex.update" \in p
              /\ g.row.state = "DRAFT" \/ AnnexPermission(g.row.state) \in p
              /\ x = g.row.state \/ (x # "DRAFT" /\ AnnexPermission(x) \in p)}}

NewAnnexEditor(p, g) ==
  {[form |-> "new annex", text |-> t, state |-> s] :
     t \in Texts,
     s \in {x \in {"DRAFT", "PUBLISHED"} :
              /\ g.source.linked /\ "annex.create" \in p
              /\ x = "DRAFT" \/ "annex.publish" \in p}}

RelationEditor(p, g) ==
  {[form |-> "relation", text |-> t, type |-> y, state |-> s, evidence |-> e] :
     t \in Texts, y \in RelationTypes, e \in {x \in BOOLEAN : x => g.source.linked},
     s \in {x \in RelationStates :
              /\ g.row.state # "ABSENT" /\ "relation.update" \in p
              /\ g.row.state = "UNREVIEWED" \/ "relation.review" \in p
              /\ x = "UNREVIEWED" \/ "relation.review" \in p}}

NewRelationEditor(p, g) ==
  {[form |-> "new relation", text |-> t, type |-> y, state |-> s, evidence |-> e] :
     t \in Texts, y \in RelationTypes, e \in {x \in BOOLEAN : x => g.source.linked},
     s \in {x \in RelationStates :
              /\ "relation.create" \in p
              /\ x = "UNREVIEWED" \/ "relation.review" \in p}}

SourceEditor(p, g) ==
  {r \in {[form |-> "source", state |-> s] : s \in SourceStates} :
     g.source.linked /\ "source.update" \in p}

SourceLinks(p, g) ==
  {r \in {[form |-> "unlink source"]} : g.source.linked /\ "source.delete" \in p}
  \cup {r \in {[form |-> "link source"]} :
          g.law.status \in InDraft /\ "source.update" \in p}

\* LifecycleActions: of the law on every tab, of an annex or a relation on its own;
\* those of articles and nodes are requests of Hierarchy, a source's of ImportPipeline.
LifecycleButtons(p, g) ==
  LET state(active) == IF active THEN "disable" ELSE "enable"
      resource == IF tab = "annexes" THEN "annex" ELSE "relation"
  IN {r \in {[form |-> "law", action |-> state(g.law.active)]} : "legislation." \o r.action \in p}
     \cup {r \in {[form |-> "row", action |-> a] : a \in {state(g.row.active), "delete"}} :
             /\ tab \in {"annexes", "relations"} /\ g.row.state # "ABSENT"
             /\ resource \o "." \o r.action \in p}

Offered(p, g) ==
  LifecycleButtons(p, g) \cup
  CASE tab = "general" -> MetadataForm(p, g)
    [] tab = "workflow" -> WorkflowActions(p, g)
    [] tab = "articles" -> NewArticle(p, g) \cup ArticleEditor(p, g)
    [] tab = "structure" -> NewStructureEditor(p) \cup StructureEditor(p, g)
    [] tab = "annexes" -> AnnexEditor(p, g) \cup NewAnnexEditor(p, g)
    [] tab = "relations" -> RelationEditor(p, g) \cup NewRelationEditor(p, g)
    [] tab = "sources" -> SourceEditor(p, g) \cup SourceLinks(p, g)

-----------------------------------------------------------------------------
\* The handlers: p are the permissions of the sender, r is the request

Wrote(newRow, newSource, newLaw) == record' = newRow /\ source' = newSource /\ lawRow' = newLaw
WroteRow(newRow) == Wrote(newRow, source, lawRow)

MetadataUpdated(p, r) ==
  /\ r.form = "metadata"
  /\ IF lawRow.status \in OpenForEdits THEN "legislation.update" \in p
     ELSE "legislation.published_metadata.update" \in p /\ r.text = "unsent"
  /\ WroteRow([record EXCEPT !.text = IF r.text = "unsent" THEN @ ELSE r.text])

\* Publication publishes the draft versions of the articles with the law.
Transitioned(p, r) ==
  /\ r.form = "transition" /\ lawRow.active
  /\ \E m \in Transitions :
       /\ m.from = lawRow.status /\ m.to = r.target /\ Permission(m.from, m.to) \in p
       /\ m.to \in NeedsSource => source.active
  /\ Wrote(IF r.target = "PUBLISHED" /\ tab = "articles" /\ record.state = "DRAFT"
           THEN [record EXCEPT !.state = "PUBLISHED"] ELSE record,
           source, [lawRow EXCEPT !.status = r.target])

Created(r, state) == record.state = "ABSENT" /\ WroteRow([state |-> state, text |-> r.text, active |-> TRUE])

ArticleCreated(p, r) ==
  /\ r.form = "new article" /\ "article.create" \in p
  /\ lawRow.status \in InDraft /\ source.active
  /\ Created(r, "DRAFT")

ArticleUpdated(p, r) ==
  /\ r.form = "article" /\ "article.update" \in p
  /\ lawRow.status \in OpenForEdits /\ record.state = "DRAFT"
  /\ WroteRow([record EXCEPT !.text = r.text])

MayRestructure(p) == lawRow.status \in OpenForEdits \/ "legislation.published_metadata.update" \in p

StructureCreated(p, r) ==
  /\ r.form = "new structure" /\ "structure.create" \in p
  /\ MayRestructure(p)
  /\ Created(r, "PRESENT")

StructureUpdated(p, r) ==
  /\ r.form = "structure" /\ "structure.update" \in p
  /\ record.state # "ABSENT" /\ MayRestructure(p)
  /\ WroteRow([record EXCEPT !.text = r.text])

Sound == source.active /\ source.state = "REVIEWED"
MayDecideAnnex(p, state) == state # "DRAFT" => AnnexPermission(state) \in p

\* Mutant: the words of an annex are compared only when it is to be published.
AnnexKeptOnlyOnPublication(r) ==
  /\ r.state = "PUBLISHED" => record.state = "DRAFT" \/ r.text = record.text
  /\ r.state = "DRAFT" => record.state = "DRAFT"

AnnexKept(r) ==
  /\ record.state # "DRAFT" => r.text = record.text
  /\ r.state = "DRAFT" => record.state = "DRAFT"

AnnexUpdated(p, r) ==
  /\ r.form = "annex" /\ "annex.update" \in p /\ MayDecideAnnex(p, r.state)
  /\ record.state # "ABSENT" /\ AnnexKept(r)
  /\ r.state = "PUBLISHED" => Sound
  /\ WroteRow([record EXCEPT !.text = r.text, !.state = r.state])

AnnexCreated(p, r) ==
  /\ r.form = "new annex" /\ "annex.create" \in p /\ MayDecideAnnex(p, r.state)
  /\ lawRow.active /\ source.active
  /\ r.state = "PUBLISHED" => Sound
  /\ Created(r, r.state)

MayDecideRelation(p, r) ==
  /\ r.state # "UNREVIEWED" => "relation.review" \in p
  /\ r.state = "REVIEWED" => r.evidence \/ r.type = "TOPICALLY_RELATED"
  /\ r.evidence => source.active

RelationUpdated(p, r) ==
  /\ r.form = "relation" /\ "relation.update" \in p
  /\ record.state # "ABSENT" /\ MayDecideRelation(p, r)
  /\ WroteRow([record EXCEPT !.text = r.text, !.state = r.state])

RelationCreated(p, r) ==
  /\ r.form = "new relation" /\ "relation.create" \in p
  /\ lawRow.active /\ MayDecideRelation(p, r)
  /\ Created(r, r.state)

MayReviewSource(p, r) ==
  r.state # source.state /\ "REVIEWED" \in {r.state, source.state} => "source.review" \in p

SourceUpdated(p, r) ==
  /\ r.form = "source" /\ "source.update" \in p
  /\ MayReviewSource(p, r)
  /\ Wrote(record, [source EXCEPT !.state = r.state], lawRow)

SourceLinked(p, r) ==
  /\ r.form = "link source" /\ "source.update" \in p
  /\ lawRow.status \in InDraft /\ source.active
  /\ Wrote(record, [source EXCEPT !.linked = TRUE], lawRow)

SourceUnlinked(p, r) ==
  /\ r.form = "unlink source" /\ "source.delete" \in p
  /\ lawRow.status \in InDraft /\ source.linked
  /\ Wrote(record, [source EXCEPT !.linked = FALSE], lawRow)

LawChanged(p, r) ==
  /\ r.form = "law" /\ "legislation." \o r.action \in p
  /\ Wrote(record, source, [lawRow EXCEPT !.active = r.action = "enable"])

RecordChanged(p, r) ==
  /\ r.form = "row" /\ record.state # "ABSENT"
  /\ (IF tab = "annexes" THEN "annex" ELSE "relation") \o "." \o r.action \in p
  /\ r.action = "delete" => record.state \in {"DRAFT", "UNREVIEWED", "REJECTED"}
  /\ r.action = "enable" => lawRow.active
  /\ WroteRow(IF r.action = "delete" THEN [record EXCEPT !.state = "ABSENT", !.active = FALSE]
              ELSE [record EXCEPT !.active = r.action = "enable"])

Accepted(p, r) ==
  \/ MetadataUpdated(p, r) \/ Transitioned(p, r)
  \/ ArticleCreated(p, r) \/ ArticleUpdated(p, r)
  \/ StructureCreated(p, r) \/ StructureUpdated(p, r)
  \/ AnnexUpdated(p, r) \/ AnnexCreated(p, r)
  \/ RelationUpdated(p, r) \/ RelationCreated(p, r)
  \/ SourceUpdated(p, r) \/ SourceLinked(p, r) \/ SourceUnlinked(p, r)
  \/ LawChanged(p, r) \/ RecordChanged(p, r)

-----------------------------------------------------------------------------
ClosedPage == [open |-> FALSE]
Snapshot == [open |-> TRUE, law |-> lawRow, row |-> record, source |-> source]

PageInit ==
  /\ tab \in Tabs /\ held \in Assignments
  /\ lawRow \in [status : {"INBOX", "APPROVED_FOR_PUBLISHING"}, active : {TRUE}]
  /\ record = [state |-> IF tab \in {"general", "structure"} THEN "PRESENT"
                         ELSE IF tab = "articles" THEN "DRAFT" ELSE "ABSENT",
               text |-> "as drawn up", active |-> TRUE]
  /\ source \in [state : SourceStates, active : {TRUE}, linked : {TRUE}]
  /\ loaded = [c \in Clerks |-> ClosedPage] /\ edits = 0

\* The page is opened or loaded anew.
OpenPage(c) ==
  /\ loaded' = [loaded EXCEPT ![c] = Snapshot]
  /\ UNCHANGED <<tab, held, lawRow, record, source, edits>>

Counted == edits < MaxEdits /\ edits' = edits + 1

\* A button or a form of the page; after an answer the page loads the law anew.
SendForm(c) ==
  /\ loaded[c].open /\ Counted
  /\ \E r \in Offered(held[c], loaded[c]) : Accepted(held[c], r)
  /\ loaded' = [loaded EXCEPT ![c] = Snapshot']
  /\ UNCHANGED <<tab, held>>

\* What goes on beside the page: the workflow tab of others, the worker that
\* finishes with the file, those who look after sources.
MovedElsewhere ==
  /\ Counted /\ tab # "workflow"
  /\ \E m \in Transitions : Transitioned({Permission(m.from, m.to)}, [form |-> "transition", target |-> m.to])
  /\ UNCHANGED <<tab, held, loaded>>
SourceElsewhere ==
  /\ Counted
  /\ Wrote(record, [source EXCEPT !.state = IF @ = "PENDING" THEN "OCR_UNREVIEWED" ELSE "REVIEWED"], lawRow)
  /\ UNCHANGED <<tab, held, loaded>>
DisabledElsewhere ==
  /\ Counted
  /\ Wrote(record, [source EXCEPT !.active = ~@], lawRow)
  /\ UNCHANGED <<tab, held, loaded>>

PageNext ==
  \/ \E c \in Clerks : OpenPage(c) \/ SendForm(c)
  \/ MovedElsewhere \/ SourceElsewhere \/ DisabledElsewhere

-----------------------------------------------------------------------------
PageTypeOK ==
  /\ tab \in Tabs /\ held \in Assignments
  /\ lawRow \in [status : LawStatus, active : BOOLEAN]
  /\ record \in [state : RowStates(tab), text : Texts, active : BOOLEAN]
  /\ source \in [state : SourceStates, active : BOOLEAN, linked : BOOLEAN]
  /\ \A c \in Clerks : loaded[c].open => loaded[c].law.status \in LawStatus
  /\ edits \in 0..MaxEdits

\* What a request of somebody with the permissions p may do to what was decided.
AnnexStands(p) ==
  record.state \in AnnexDecisions =>
    /\ record'.text = record.text /\ record'.state \in AnnexDecisions
    /\ record'.state # record.state => AnnexPermission(record'.state) \in p
RelationStands(p) ==
  record'.state \in {"REVIEWED", "REJECTED"}
    /\ (record.state # record'.state \/ record'.text # record.text) =>
    "relation.review" \in p
SourceStands(p) ==
  /\ source'.state # source.state /\ "REVIEWED" \in {source.state, source'.state} => "source.review" \in p
  /\ lawRow.status \notin InDraft => source'.linked = source.linked
TextStands(p) ==
  tab \in {"general", "articles", "structure"} /\ record'.text # record.text =>
    \/ lawRow.status \in OpenForEdits
    \/ tab = "structure" /\ "legislation.published_metadata.update" \in p

\* However long a page has been open and whatever it still shows, what it sends
\* decides nothing that its user has not the permission to decide.
\*  - A published, replaced or repealed annex keeps its words, is not deleted and
\*    is no draft again.  From one of the three states it goes to another by the
\*    permission of the new one alone: annex.publish puts a repealed annex back
\*    (admin.service.ts:1395-1406, :2318-2328).
\*  - What reads REVIEWED or REJECTED of a relation was put so, in the words it has,
\*    by somebody with relation.review.  That it stays so is not said: a form opened
\*    before the review takes it back to UNREVIEWED with relation.update alone, the
\*    permission being asked for by the new status only (:1549-1550).
\*  - A source becomes REVIEWED, or is opened again, by source.review only, and its
\*    link to the law is set and removed while the law is in INBOX or DRAFT
\*    (:107, :170, :1205-1209).
\*  - The words of articles, nodes and the preamble change while the law is in INBOX,
\*    DRAFT or IN_REVIEW; later those of nodes do by published_metadata.update.
\*  - A button shown for one move of the workflow makes another only for somebody who
\*    may make both: "prepare" and "return" ask for the same status
\*    (AdminContentDetailPage.tsx:2342-2347, admin.service.ts:37-46, :1857).
NoDecisionBeyondPermission ==
  [][\A c \in Clerks : SendForm(c) =>
       /\ tab = "annexes" => AnnexStands(held[c])
       /\ tab = "relations" => RelationStands(held[c])
       /\ SourceStands(held[c]) /\ TextStands(held[c])
       /\ lawRow'.status # lawRow.status /\ loaded[c].law.status # lawRow.status =>
            {"legislation.prepare", "legislation.return"} \subseteq held[c]]_pageVars
=============================================================================
