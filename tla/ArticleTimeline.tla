--------------------------- MODULE ArticleTimeline ---------------------------
(***************************************************************************)
(* The articles of one legislation and the history of their texts.         *)
(*                                                                         *)
(* Drafts are edited in place; publishing the legislation publishes the    *)
(* draft version of each article; afterwards only a reviewed amendment     *)
(* document changes a text, by closing the version that covers its         *)
(* effective day and appending a new one.  The database guards the table   *)
(* article_versions with triggers and a CHECK.                             *)
(*                                                                         *)
(* One action is one database transaction.  Each of them starts by locking *)
(* the row it decides on (the law, or the amendment and then the law) with *)
(* SELECT ... FOR UPDATE, so transactions on one law are serialised.       *)
(***************************************************************************)
EXTENDS Naturals, Sequences, FiniteSets, WorkflowRules

CONSTANTS
  Articles,       \* identities of articles, the not yet created ones included
  Amendments,     \* identities of amendment documents
  Words,          \* an article text is a short sequence of words (phrases)
  NoPhrase,       \* replacement_from IS NULL
  MaxLen,         \* bound on the length of a text
  LastDay,        \* bound: the calendar is 1..LastDay
  DraftDays,      \* bound: the valid_from an editor enters for a draft article
  DraftTexts,     \* bound: the texts an editor enters for a draft article
  EffectDays,     \* bound: the effective days an amendment may carry
  Contents,       \* bound: the operations an amendment may carry, by article
  Law, Source,    \* the legislation and the reviewed source its texts cite
  MaxDisabled     \* bound: how many records are disabled at the same time

Days == 1..LastDay

\* valid_to IS NULL, which the triggers read as 9999-12-31: after every day.
Open == LastDay + 1

Text == UNION {[1..n -> Words] : n \in 0..MaxLen}

\* CORRECT is treated as REPLACE and DELETE as REPEAL wherever texts change.  A
\* RENUMBER changes articles.current_label alone, and labels are left out.
Operation ==
  [type : {"ADD", "REPLACE", "REPEAL", "RENUMBER"},
   text : Text, phrase : Words \cup {NoPhrase}]

Records == Articles \cup Amendments \cup {Law, Source}

ASSUME TimelineAssumption ==
  /\ LastDay \in Nat \ {0} /\ MaxLen \in Nat /\ MaxDisabled \in Nat
  /\ NoPhrase \notin Words \cup Text
  /\ DraftDays \subseteq Days /\ EffectDays \subseteq Days
  /\ DraftTexts \subseteq Text \ {<<>>}
  /\ Contents \subseteq [Articles -> Seq(Operation)]
  /\ \A ops \in Contents : \E a \in Articles : ops[a] # <<>>

VARIABLES
  today,          \* the current date of the API and of the database
  lawStatus,      \* legislations.status
  disabled,       \* records, not deleted, whose is_active is FALSE
  article,        \* per article: ABSENT, PRESENT or DELETED (soft)
  versions,       \* article_versions of each article, in version_no order
  amendment,      \* amendments with their active operations grouped by article
  modifications   \* article_modifications, one per document and article

vars == <<today, lawStatus, disabled, article, versions, amendment, modifications>>

VersionStatus == {"DRAFT", "PUBLISHED", "REPEALED", "FUTURE"}

\* prev is the version_no of previous_version_id, 0 for NULL.
Version == [from : Days, to : 2..Open, status : VersionStatus, text : Text, prev : Nat]

Document ==
  [status : {"ABSENT", "DRAFT", "REVIEWED", "PUBLISHED", "DELETED"},
   day : Days, ops : [Articles -> Seq(Operation)]]

\* before is the version_no of before_version_id, 0 for NULL; previous and new are
\* previous_text of the first operation and new_text of the last one.
Modification ==
  [amendment : Amendments, article : Articles, before : Nat, after : Nat,
   previous : Text, new : Text]

NoOps == [a \in Articles |-> <<>>]

-----------------------------------------------------------------------------
\* What the table article_versions admits (triggers and ck_av_period).

Disjoint(v, w) == ~(v.from < w.to /\ w.from < v.to)

InsertAdmitted(history, v) ==
  /\ v.from < v.to
  /\ \A i \in DOMAIN history : Disjoint(v, history[i])

UpdateAdmitted(history, i, v) ==
  /\ v.from < v.to
  /\ history[i].status = "PUBLISHED" => v.text = history[i].text
  /\ \A j \in DOMAIN history \ {i} : Disjoint(v, history[j])

-----------------------------------------------------------------------------
\* Reading the history of an article.

Latest(a) == versions[a][Len(versions[a])]

\* The versions an amendment effective on day d may continue.
Covering(history, d) ==
  {i \in DOMAIN history :
     /\ history[i].status \in {"PUBLISHED", "REPEALED", "FUTURE"}
     /\ history[i].from <= d /\ d < history[i].to}

\* ORDER BY valid_from DESC LIMIT 1.
Before(history, d) ==
  CHOOSE i \in Covering(history, d) :
    \A j \in Covering(history, d) : history[j].from <= history[i].from

\* Mutant: the end of a period is read as inclusive.
ShownInclusive(a, d) ==
  {i \in DOMAIN versions[a] :
     /\ lawStatus \in PublicStatus /\ Law \notin disabled
     /\ article[a] = "PRESENT" /\ a \notin disabled
     /\ versions[a][i].status \in {"PUBLISHED", "REPEALED"}
     /\ versions[a][i].from <= d /\ d <= versions[a][i].to}

\* What the public endpoints read: versions shown for day d.
Shown(a, d) ==
  {i \in DOMAIN versions[a] :
     /\ lawStatus \in PublicStatus /\ Law \notin disabled
     /\ article[a] = "PRESENT" /\ a \notin disabled
     /\ versions[a][i].status \in {"PUBLISHED", "REPEALED"}
     /\ versions[a][i].from <= d /\ d < versions[a][i].to}

-----------------------------------------------------------------------------
\* Applying the operations of one document to one text.

Occurrences(t, w) == {i \in DOMAIN t : t[i] = w}

\* A replaced phrase must occur exactly once.
Applies(op, t) ==
  op.type \in {"ADD", "REPLACE"} /\ op.phrase # NoPhrase =>
    Cardinality(Occurrences(t, op.phrase)) = 1

Applied(op, t) ==
  LET at == CHOOSE i \in DOMAIN t : t[i] = op.phrase
  IN  CASE op.type = "REPEAL" -> <<>>
        [] op.type = "RENUMBER" -> t
        [] op.type \in {"ADD", "REPLACE"} /\ op.phrase # NoPhrase ->
             SubSeq(t, 1, at - 1) \o op.text \o SubSeq(t, at + 1, Len(t))
        [] OTHER -> op.text

\* The text before the first operation and after each of them; every operation
\* must apply, and nothing may follow a repeal of the article.
Traces(ops, t) ==
  {trace \in [0..Len(ops) -> Text] :
     /\ trace[0] = t
     /\ \A i \in 1..Len(ops) :
          /\ Applies(ops[i], trace[i - 1])
          /\ trace[i] = Applied(ops[i], trace[i - 1])
          /\ ops[i].type = "REPEAL" => i = Len(ops)}

\* The text that results from operations that apply.
Outcome(ops, t) == (CHOOSE trace \in Traces(ops, t) : TRUE)[Len(ops)]

Has(type, ops) == {i \in DOMAIN ops : ops[i].type = type}

Adds(ops) == ops # <<>> /\ ops[1].type = "ADD"

NewStatus(ops, d) ==
  IF Has("REPEAL", ops) # {} THEN "REPEALED"
  ELSE IF d > today THEN "FUTURE" ELSE "PUBLISHED"

-----------------------------------------------------------------------------
\* The two statements by which an amendment enters a history.

\* Mutant: the period is closed on the eve of the effective day.
ClosedOnEve(history, i, d) == [history EXCEPT ![i].to = d - 1]

\* Mutant: the version that ends is marked as repealed.
ClosedAsRepealed(history, i, d) == [history EXCEPT ![i].to = d, ![i].status = "REPEALED"]

\* UPDATE article_versions SET valid_to of the version i that covers day d.
Closed(history, i, d) == [history EXCEPT ![i].to = d]

\* Mutant: the new version is open-ended instead of ending with the old one.
SuccessorOpen(history, i, d, status, text) ==
  [from |-> d, to |-> Open, status |-> status, text |-> text, prev |-> i]

\* Mutant: the new version ends one day after the old one.
SuccessorLonger(history, i, d, status, text) ==
  [from |-> d, to |-> history[i].to + 1, status |-> status, text |-> text, prev |-> i]

\* INSERT INTO article_versions of the version that continues version i.
Successor(history, i, d, status, text) ==
  [from |-> d, to |-> history[i].to, status |-> status, text |-> text, prev |-> i]

First(d, status, text) ==
  [from |-> d, to |-> Open, status |-> status, text |-> text, prev |-> 0]

\* The triggers let both statements through.
SplitAdmitted(history, i, v) ==
  /\ UpdateAdmitted(history, i, Closed(history, i, v.from)[i])
  /\ InsertAdmitted(Closed(history, i, v.from), v)

-----------------------------------------------------------------------------
Init ==
  /\ today \in Days
  /\ lawStatus \in {"INBOX", "DRAFT"}
  /\ disabled = {}
  /\ article = [a \in Articles |-> "ABSENT"]
  /\ versions = [a \in Articles |-> <<>>]
  /\ amendment = [m \in Amendments |-> [status |-> "ABSENT", day |-> 1, ops |-> NoOps]]
  /\ modifications = {}

\* The calendar moves on; no code runs at midnight.
Tick ==
  /\ today < LastDay
  /\ today' = today + 1
  /\ UNCHANGED <<lawStatus, disabled, article, versions, amendment, modifications>>

-----------------------------------------------------------------------------
\* Draft articles (admin.service.ts).

CreateArticle(a, d, t) ==
  /\ lawStatus \in {"INBOX", "DRAFT"}
  /\ Source \notin disabled
  /\ article[a] = "ABSENT"
  /\ article' = [article EXCEPT ![a] = "PRESENT"]
  /\ versions' = [versions EXCEPT ![a] = <<First(d, "DRAFT", t)>>]
  /\ UNCHANGED <<today, lawStatus, disabled, amendment, modifications>>

\* The newest version of an article that exists is a draft.
InDraft(a) == article[a] = "PRESENT" /\ versions[a] # <<>> /\ Latest(a).status = "DRAFT"

\* Replace the newest version of a by v, if the triggers let it through.
RewriteLatest(a, v) ==
  /\ UpdateAdmitted(versions[a], Len(versions[a]), v)
  /\ versions' = [versions EXCEPT ![a][Len(versions[a])] = v]

UpdateDraftArticle(a, t) ==
  /\ lawStatus \in {"DRAFT", "IN_REVIEW"}
  /\ InDraft(a)
  /\ RewriteLatest(a, [Latest(a) EXCEPT !.text = t])
  /\ UNCHANGED <<today, lawStatus, disabled, article, amendment, modifications>>

UpdateDraftArticleMetadata(a, d, t) ==
  /\ lawStatus \in {"INBOX", "DRAFT", "IN_REVIEW"}
  /\ InDraft(a)
  /\ RewriteLatest(a, [Latest(a) EXCEPT !.from = d, !.text = t])
  /\ UNCHANGED <<today, lawStatus, disabled, article, amendment, modifications>>

-----------------------------------------------------------------------------
\* The publication workflow of the law (admin.service.ts).

\* Mutant: disabled articles are left out of the publication.
PublishActiveDraftArticles ==
  /\ \A a \in Articles : article[a] = "PRESENT" => versions[a] # <<>>
  /\ versions' =
       [a \in Articles |->
          IF InDraft(a) /\ a \notin disabled
          THEN [versions[a] EXCEPT ![Len(versions[a])].status = "PUBLISHED"]
          ELSE versions[a]]

\* publishCurrentDraftArticles: disabled articles are published with the others.
PublishCurrentDraftArticles ==
  /\ \A a \in Articles : article[a] = "PRESENT" => versions[a] # <<>>
  /\ versions' =
       [a \in Articles |->
          IF InDraft(a) THEN [versions[a] EXCEPT ![Len(versions[a])].status = "PUBLISHED"]
          ELSE versions[a]]

Transition(target) ==
  /\ Law \notin disabled
  /\ \E rule \in Transitions : rule.from = lawStatus /\ rule.to = target
  /\ target \in NeedsSource => Source \notin disabled
  /\ IF target = "PUBLISHED" THEN PublishCurrentDraftArticles ELSE UNCHANGED versions
  /\ lawStatus' = target
  /\ UNCHANGED <<today, disabled, article, amendment, modifications>>

-----------------------------------------------------------------------------
\* Amendment documents (amendments.service.ts).

\* The law can be amended and the source of the document may be cited.
LawAmendable == lawStatus \in PublicStatus /\ {Law, Source} \cap disabled = {}

\* The target of an ADD gets a fresh identity and keeps it while the draft is edited.
TargetAdmitted(m, a, ops) ==
  IF Has("ADD", ops) # {}
  THEN /\ Len(ops) = 1
       /\ article[a] = "ABSENT"
       /\ \A n \in Amendments \ {m} : amendment[n].ops[a] = <<>>
  ELSE article[a] = "PRESENT" /\ a \notin disabled

Save(m, d, ops) ==
  /\ amendment[m].status \in {"ABSENT", "DRAFT"}
  /\ LawAmendable
  /\ \A a \in Articles : ops[a] # <<>> => TargetAdmitted(m, a, ops[a])
  /\ amendment' = [amendment EXCEPT ![m] = [status |-> "DRAFT", day |-> d, ops |-> ops]]
  /\ UNCHANGED <<today, lawStatus, disabled, article, versions, modifications>>

Review(m) ==
  /\ amendment[m].status = "DRAFT" /\ m \notin disabled
  /\ amendment[m].ops # NoOps
  /\ amendment' = [amendment EXCEPT ![m].status = "REVIEWED"]
  /\ UNCHANGED <<today, lawStatus, disabled, article, versions, modifications>>

Targets(m) == {a \in Articles : amendment[m].ops[a] # <<>>}

\* Mutant: the newest version is taken for the one in force.
NewestText(m, a) == IF Adds(amendment[m].ops[a]) THEN <<>> ELSE Latest(a).text

\* The text of article a that document m starts from.
PreviousText(m, a) ==
  IF Adds(amendment[m].ops[a]) THEN <<>>
  ELSE versions[a][Before(versions[a], amendment[m].day)].text

\* applyArticle: the version document m appends to the history of article a ...
NewVersion(m, a) ==
  LET ops == amendment[m].ops[a]
      d == amendment[m].day
      text == Outcome(ops, PreviousText(m, a))
  IN  IF Adds(ops) THEN First(d, NewStatus(ops, d), text)
      ELSE Successor(versions[a], Before(versions[a], d), d, NewStatus(ops, d), text)

\* ... and the conditions under which it does.
ArticleAmendable(m, a) ==
  LET ops == amendment[m].ops[a]
      d == amendment[m].day
      i == Before(versions[a], d)
  IN  /\ IF Adds(ops)
         THEN article[a] = "ABSENT" /\ Len(ops) = 1
         ELSE /\ article[a] = "PRESENT" /\ a \notin disabled
              /\ Covering(versions[a], d) # {}
              /\ versions[a][i].from # d
      /\ Traces(ops, PreviousText(m, a)) # {}
      /\ ~Adds(ops) => SplitAdmitted(versions[a], i, NewVersion(m, a))

\* Mutant: the version that ends is not closed (and no trigger objects).
ApplyUnclosed(m, a) == Append(versions[a], NewVersion(m, a))

\* Mutant: the text is overwritten in place.
ApplyInPlace(m, a) ==
  IF Adds(amendment[m].ops[a]) THEN <<NewVersion(m, a)>>
  ELSE [versions[a] EXCEPT ![NewVersion(m, a).prev].text = NewVersion(m, a).text]

ApplyArticle(m, a) ==
  IF Adds(amendment[m].ops[a]) THEN <<NewVersion(m, a)>>
  ELSE Append(Closed(versions[a], NewVersion(m, a).prev, amendment[m].day), NewVersion(m, a))

Publish(m) ==
  /\ amendment[m].status = "REVIEWED" /\ m \notin disabled
  /\ LawAmendable
  /\ \A a \in Targets(m) : ArticleAmendable(m, a)
  /\ versions' = [a \in Articles |-> IF a \in Targets(m) THEN ApplyArticle(m, a) ELSE versions[a]]
  /\ article' = [a \in Articles |-> IF a \in Targets(m) THEN "PRESENT" ELSE article[a]]
  /\ modifications' = modifications \cup
       { [amendment |-> m, article |-> a, before |-> NewVersion(m, a).prev,
          after |-> Len(versions[a]) + 1, previous |-> PreviousText(m, a),
          new |-> NewVersion(m, a).text] : a \in Targets(m) }
  /\ amendment' = [amendment EXCEPT ![m].status = "PUBLISHED"]
  /\ UNCHANGED <<today, lawStatus, disabled>>

-----------------------------------------------------------------------------
\* The administrative lifecycle of records (lifecycle.service.ts).

Exists(r) ==
  CASE r \in Articles -> article[r] = "PRESENT"
    [] r \in Amendments -> amendment[r].status \notin {"ABSENT", "DELETED"}
    [] OTHER -> TRUE

Disable(r) ==
  /\ Exists(r)
  /\ Cardinality(disabled \cup {r}) <= MaxDisabled
  /\ disabled' = disabled \cup {r}
  /\ UNCHANGED <<today, lawStatus, article, versions, amendment, modifications>>

\* A record of the law comes back only into an active law.
Enable(r) ==
  /\ r \in disabled /\ Exists(r)
  /\ r \in Articles \cup Amendments => Law \notin disabled
  /\ disabled' = disabled \ {r}
  /\ UNCHANGED <<today, lawStatus, article, versions, amendment, modifications>>

\* A soft-deleted record is out of the lifecycle: disabled lists the others only.
DeleteArticle(a) ==
  /\ article[a] = "PRESENT"
  /\ lawStatus \in {"INBOX", "DRAFT"}
  /\ \A i \in DOMAIN versions[a] :
       versions[a][i].status = "DRAFT" /\ versions[a][i].prev = 0
  /\ \A m \in Amendments : amendment[m].ops[a] = <<>>
  /\ article' = [article EXCEPT ![a] = "DELETED"]
  /\ disabled' = disabled \ {a}
  /\ UNCHANGED <<today, lawStatus, versions, amendment, modifications>>

DeleteAmendment(m) ==
  /\ amendment[m].status = "DRAFT"
  /\ amendment' = [amendment EXCEPT ![m].status = "DELETED"]
  /\ disabled' = disabled \ {m}
  /\ UNCHANGED <<today, lawStatus, article, versions, modifications>>

-----------------------------------------------------------------------------
DraftSteps ==
  \E a \in Articles, t \in DraftTexts :
    \/ UpdateDraftArticle(a, t)
    \/ \E d \in DraftDays :
         CreateArticle(a, d, t) \/ UpdateDraftArticleMetadata(a, d, t)

AmendmentSteps ==
  \E m \in Amendments :
    \/ \E d \in EffectDays, ops \in Contents : Save(m, d, ops)
    \/ Review(m)
    \/ Publish(m)
    \/ DeleteAmendment(m)

LifecycleSteps ==
  \/ \E r \in Records : Disable(r) \/ Enable(r)
  \/ \E a \in Articles : DeleteArticle(a)

Next ==
  \/ Tick
  \/ DraftSteps
  \/ \E target \in LawStatus : Transition(target)
  \/ AmendmentSteps
  \/ LifecycleSteps

Spec == Init /\ [][Next]_vars

-----------------------------------------------------------------------------
\* Every variable has its type.
TypeOK ==
  /\ today \in Days
  /\ lawStatus \in LawStatus
  /\ disabled \subseteq Records
  /\ article \in [Articles -> {"ABSENT", "PRESENT", "DELETED"}]
  /\ versions \in [Articles -> Seq(Version)]
  /\ amendment \in [Amendments -> Document]
  /\ modifications \subseteq Modification

\* ADR-0002: whatever sequence of edits, publications and (also retroactive)
\* amendments, the periods of two versions of one article never overlap.
NoOverlap ==
  \A a \in Articles : \A i, j \in DOMAIN versions[a] :
    i # j => Disjoint(versions[a][i], versions[a][j])

\* The database never refuses what the service computed: in every reachable
\* history, closing the covering version and appending its successor passes the
\* period triggers and the CHECK (amendments.service.ts against the triggers).
TriggersAcceptAmendments ==
  \A a \in Articles, d \in Days :
    LET history == versions[a]
        i == Before(history, d)
    IN  Covering(history, d) # {} /\ history[i].from # d =>
          SplitAdmitted(history, i, Successor(history, i, d, "PUBLISHED", <<>>))

\* Once an article is in force it stays documented: from the first day of its
\* first version on, every day is covered by a version.  (A repeal is a version.)
GaplessHistory ==
  \A a \in Articles, d \in Days :
    versions[a] # <<>> /\ versions[a][1].status # "DRAFT" /\ versions[a][1].from <= d =>
      Covering(versions[a], d) # {}

\* A law that the public can read, or could, has no unpublished article left
\* behind, disabled articles included (publishCurrentDraftArticles).
PublishedWhole ==
  lawStatus \in PublicStatus \cup {"ARCHIVED"} =>
    \A a \in Articles : article[a] = "PRESENT" =>
      /\ versions[a] # <<>>
      /\ \A i \in DOMAIN versions[a] : versions[a][i].status # "DRAFT"

\* The amendment register explains the history: a version that continues another,
\* or an article that was not part of the published draft, stems from exactly one
\* recorded modification of one published document, which starts from the text of
\* the version before and carries its own operations to the text after; and a
\* published document is recorded for all of its articles or none.
HistoryExplained ==
  /\ \A x \in modifications :
       LET ops == amendment[x.amendment].ops[x.article]
           after == versions[x.article][x.after]
       IN  /\ amendment[x.amendment].status = "PUBLISHED"
           /\ x.after \in DOMAIN versions[x.article] /\ x.before < x.after
           /\ Traces(ops, x.previous) # {} /\ x.new = Outcome(ops, x.previous)
           /\ after.prev = x.before /\ after.text = x.new
           /\ after.from = amendment[x.amendment].day
           /\ IF x.before = 0 THEN x.previous = <<>>
              ELSE versions[x.article][x.before].text = x.previous
  /\ \A a \in Articles : \A i \in DOMAIN versions[a] \ {1} :
       Cardinality({x \in modifications : x.article = a /\ x.after = i}) = 1
  /\ \A m \in Amendments :
       {x.article : x \in {y \in modifications : y.amendment = m}} =
         IF amendment[m].status = "PUBLISHED" THEN Targets(m) ELSE {}

\* The text in force: that of the published version covering the day, be its
\* status PUBLISHED, REPEALED or FUTURE.
InForce ==
  [a \in Articles |-> [d \in Days |->
     IF Covering(versions[a], d) = {} THEN NoPhrase
     ELSE versions[a][Before(versions[a], d)].text]]

\* What the public endpoints show for a day is the text in force that day, once.
PublicReadIsLegal ==
  \A a \in Articles, d \in Days :
    /\ Cardinality(Shown(a, d)) <= 1
    /\ \A i \in Shown(a, d) : versions[a][i].text = InForce[a][d]

\* A published version is never rewritten and never disappears; at most its end
\* moves forward, and then exactly to where a version that continues it begins.
HistoryOnlySplits ==
  [][\A a \in Articles : \A i \in DOMAIN versions[a] :
       versions[a][i].status # "DRAFT" =>
         /\ i \in DOMAIN versions'[a]
         /\ LET old == versions[a][i]
                new == versions'[a][i]
            IN  \/ new = old
                \/ /\ new = [old EXCEPT !.to = new.to] /\ new.to < old.to
                   /\ \E j \in DOMAIN versions'[a] \ DOMAIN versions[a] :
                        /\ versions'[a][j].from = new.to /\ versions'[a][j].to = old.to
                        /\ versions'[a][j].prev = i]_vars

\* What the platform promises about texts in force (TextHistory) is implemented.
TH == INSTANCE TextHistory WITH force <- InForce, NoText <- NoPhrase
TextsInForce == TH!Spec

\* What the public is told on the day itself, once a version takes effect.
EffectiveTextIsPublic ==
  lawStatus \in PublicStatus /\ Law \notin disabled =>
    \A a \in Articles :
      article[a] = "PRESENT" /\ a \notin disabled /\ Covering(versions[a], today) # {} =>
        \E i \in Shown(a, today) : versions[a][i].text = InForce[a][today]
=============================================================================
