------------------------- MODULE ArticleTimelineProofs -------------------------
(***************************************************************************)
(* Proofs about ArticleTimeline for every set of articles, documents, texts *)
(* and days.  The inductive invariant says of each history that its periods *)
(* do not overlap (which makes "the version that covers a day" unique), that *)
(* a draft is the only, open-ended version of its article, and that a       *)
(* published history has no gap after its first day.                       *)
(***************************************************************************)
EXTENDS ArticleTimeline, FiniteSetTheorems, TLAPS

Periods(h) == \A i, j \in DOMAIN h : i # j => Disjoint(h[i], h[j])

Drafts(h) == \A i \in DOMAIN h : h[i].status = "DRAFT" => Len(h) = 1 /\ h[i].to = Open

Gapless(h) ==
  \A d \in Days :
    h # <<>> /\ h[1].status # "DRAFT" /\ h[1].from <= d => Covering(h, d) # {}

History(h) == h \in Seq(Version) /\ Periods(h) /\ Drafts(h) /\ Gapless(h)

Fresh == \A a \in Articles : article[a] = "ABSENT" => versions[a] = <<>>

IInv == TypeOK /\ Fresh /\ \A a \in Articles : History(versions[a])

-----------------------------------------------------------------------------
\* Facts about the operators on histories.

LEMMA CalendarType == LastDay \in Nat /\ LastDay >= 1 /\ Open \in 2..Open /\ Open \in Nat
  BY TimelineAssumption DEF Open

LEMMA VersionFields ==
  ASSUME NEW v \in Version
  PROVE  /\ v.from \in Nat /\ v.from \in Days /\ v.to \in Nat /\ v.to \in 2..Open
         /\ v.status \in VersionStatus /\ v.text \in Text /\ v.prev \in Nat
  BY CalendarType DEF Version, Days

\* The covering version of a day is unique, and Before finds it.
LEMMA CoveringUnique ==
  ASSUME NEW h, h \in Seq(Version), Periods(h), NEW d \in Days, Covering(h, d) # {}
  PROVE  /\ Before(h, d) \in Covering(h, d)
         /\ \A i \in Covering(h, d) : i = Before(h, d)
<1>1. \A i, j \in Covering(h, d) : i = j
  <2>1. SUFFICES ASSUME NEW i \in Covering(h, d), NEW j \in Covering(h, d), i # j
                 PROVE  FALSE
    OBVIOUS
  <2>2. /\ i \in DOMAIN h /\ h[i].from <= d /\ d < h[i].to
        /\ j \in DOMAIN h /\ h[j].from <= d /\ d < h[j].to
    BY DEF Covering
  <2>3. h[i] \in Version /\ h[j] \in Version
    BY <2>2
  <2>4. h[i].from < h[j].to /\ h[j].from < h[i].to
    BY <2>2, <2>3, VersionFields DEF Days
  <2> QED BY <2>1, <2>2, <2>4 DEF Periods, Disjoint
<1>2. PICK i \in Covering(h, d) : TRUE
  OBVIOUS
<1>3. h[i].from <= h[i].from
  <2>1. h[i] \in Version
    BY DEF Covering
  <2> QED BY <2>1, CalendarType DEF Version, Days
<1>4. \A j \in Covering(h, d) : h[j].from <= h[i].from
  BY <1>1, <1>3
<1>5. Before(h, d) \in Covering(h, d)
  BY <1>2, <1>4 DEF Before
<1> QED BY <1>1, <1>5

\* The text operations lead to is a text.
LEMMA OutcomeType ==
  ASSUME NEW ops, ops \in Seq(Operation), NEW t, Traces(ops, t) # {}
  PROVE  Outcome(ops, t) \in Text
<1>1. (CHOOSE trace \in Traces(ops, t) : TRUE) \in [0..Len(ops) -> Text]
  BY DEF Traces
<1>2. Len(ops) \in 0..Len(ops)
  <2>1. Len(ops) \in Nat
    OBVIOUS
  <2> QED BY <2>1
<1> QED BY <1>1, <1>2 DEF Outcome

LEMMA NewStatusType ==
  ASSUME NEW ops, NEW d
  PROVE  NewStatus(ops, d) \in VersionStatus \ {"DRAFT"}
  BY DEF NewStatus, VersionStatus

\* A first version is a history of its own.
LEMMA FirstHistory ==
  ASSUME NEW d \in Days, NEW s \in VersionStatus, NEW t \in Text
  PROVE  History(<<First(d, s, t)>>)
<1> DEFINE h == <<First(d, s, t)>>
<1>1. h \in Seq(Version) /\ DOMAIN h = {1} /\ Len(h) = 1
  BY CalendarType DEF First, Version
<1>2. Periods(h)
  BY <1>1 DEF Periods
<1>3. Drafts(h)
  BY <1>1 DEF Drafts, First
<1>4. Gapless(h)
  <2>1. SUFFICES ASSUME NEW x \in Days, h[1].status # "DRAFT", h[1].from <= x
                 PROVE  1 \in Covering(h, x)
    BY DEF Gapless
  <2>2. h[1].status \in {"PUBLISHED", "REPEALED", "FUTURE"} /\ x < h[1].to
    BY <2>1, CalendarType DEF First, VersionStatus, Days, Open
  <2> QED BY <1>1, <2>1, <2>2 DEF Covering
<1> QED BY <1>1, <1>2, <1>3, <1>4 DEF History

-----------------------------------------------------------------------------
\* The two statements of applyArticle on a history that is in order.

\* Shape of the history after the covering version i was closed at day d and its
\* successor appended.
LEMMA SplitShape ==
  ASSUME NEW h, h \in Seq(Version), NEW i \in DOMAIN h, NEW d \in Days,
         NEW s \in VersionStatus, NEW t \in Text, h[i].from < d, d < h[i].to
  PROVE  LET n == Len(h) + 1
             v == Successor(h, i, d, s, t)
             g == Append(Closed(h, i, d), v)
         IN  /\ v \in Version /\ Closed(h, i, d) \in Seq(Version) /\ g \in Seq(Version)
             /\ DOMAIN Closed(h, i, d) = DOMAIN h /\ DOMAIN g = DOMAIN h \cup {n}
             /\ n \notin DOMAIN h /\ n \in Nat /\ Len(g) = n
             /\ g[n] = v /\ g[i] = [h[i] EXCEPT !.to = d]
             /\ \A j \in DOMAIN h \ {i} : g[j] = h[j]
             /\ \A j \in DOMAIN h : g[j] = Closed(h, i, d)[j]
<1> DEFINE n == Len(h) + 1
           v == Successor(h, i, d, s, t)
           c == Closed(h, i, d)
           g == Append(c, v)
<1>1. h[i] \in Version /\ DOMAIN h = 1..Len(h) /\ Len(h) \in Nat
  OBVIOUS
<1>2. d \in 2..Open /\ d \in Nat
  BY <1>1, CalendarType DEF Version, Days, Open
<1>3. v \in Version
  BY <1>1 DEF Successor, Version
<1>4. [h[i] EXCEPT !.to = d] \in Version
  BY <1>1, <1>2 DEF Version
<1>5. c = [h EXCEPT ![i] = [h[i] EXCEPT !.to = d]]
  BY DEF Closed
<1>6. c \in Seq(Version) /\ DOMAIN c = DOMAIN h /\ Len(c) = Len(h)
  BY <1>1, <1>4, <1>5
<1>7. g \in Seq(Version) /\ Len(g) = n /\ DOMAIN g = DOMAIN h \cup {n} /\ n \notin DOMAIN h
  BY <1>1, <1>3, <1>6
<1>8. g[n] = v /\ \A j \in DOMAIN h : g[j] = c[j]
  BY <1>1, <1>3, <1>6
<1>9. c[i] = [h[i] EXCEPT !.to = d] /\ \A j \in DOMAIN h \ {i} : c[j] = h[j]
  BY <1>1, <1>5
<1> QED BY <1>1, <1>3, <1>6, <1>7, <1>8, <1>9

\* The triggers let the split of a covering version through.
LEMMA SplitIsAdmitted ==
  ASSUME NEW h, h \in Seq(Version), Periods(h), NEW i \in DOMAIN h, NEW d \in Days,
         NEW s \in VersionStatus, NEW t \in Text, h[i].from < d, d < h[i].to
  PROVE  SplitAdmitted(h, i, Successor(h, i, d, s, t))
<1> DEFINE v == Successor(h, i, d, s, t)
           c == Closed(h, i, d)
<1>1. h[i] \in Version /\ \A j \in DOMAIN h : h[j] \in Version
  OBVIOUS
<1>2. c[i] = [h[i] EXCEPT !.to = d] /\ DOMAIN c = DOMAIN h /\ \A j \in DOMAIN h \ {i} : c[j] = h[j]
  BY <1>1 DEF Closed
<1>3. /\ c[i].from = h[i].from /\ c[i].to = d /\ c[i].text = h[i].text
      /\ v.from = d /\ v.to = h[i].to
  BY <1>1, <1>2 DEF Successor, Version
<1>4. \A j \in DOMAIN h \ {i} : Disjoint(c[i], h[j]) /\ Disjoint(v, h[j])
  <2>1. SUFFICES ASSUME NEW j \in DOMAIN h \ {i}
                 PROVE  Disjoint(c[i], h[j]) /\ Disjoint(v, h[j])
    OBVIOUS
  <2>2. Disjoint(h[i], h[j])
    BY DEF Periods
  <2>3. /\ h[i].from \in Nat /\ h[i].to \in Nat /\ h[j].from \in Nat /\ h[j].to \in Nat
        /\ d \in Nat
    BY <1>1, VersionFields DEF Days
  <2> QED BY <1>3, <2>2, <2>3 DEF Disjoint
<1>5. Disjoint(v, c[i])
  <2>1. d \in Nat
    BY CalendarType DEF Days
  <2> QED BY <1>3, <2>1 DEF Disjoint
<1>6. UpdateAdmitted(h, i, c[i])
  BY <1>3, <1>4 DEF UpdateAdmitted
<1>7. InsertAdmitted(c, v)
  BY <1>2, <1>3, <1>4, <1>5 DEF InsertAdmitted
<1> QED BY <1>3, <1>6, <1>7 DEF SplitAdmitted

\* After the split the history is still in order.
LEMMA SplitHistory ==
  ASSUME NEW h, History(h), NEW i \in DOMAIN h, h[i].status # "DRAFT", NEW d \in Days,
         NEW s \in VersionStatus \ {"DRAFT"}, NEW t \in Text, h[i].from < d, d < h[i].to
  PROVE  History(Append(Closed(h, i, d), Successor(h, i, d, s, t)))
<1> DEFINE n == Len(h) + 1
           v == Successor(h, i, d, s, t)
           g == Append(Closed(h, i, d), v)
<1>1. h \in Seq(Version) /\ Periods(h) /\ Drafts(h) /\ Gapless(h) /\ s \in VersionStatus
  BY DEF History
<1>2. /\ g \in Seq(Version) /\ DOMAIN g = DOMAIN h \cup {n} /\ n \notin DOMAIN h
      /\ g[n] = v /\ g[i] = [h[i] EXCEPT !.to = d]
      /\ \A j \in DOMAIN h \ {i} : g[j] = h[j]
      /\ \A j \in DOMAIN h : g[j] = Closed(h, i, d)[j]
      /\ DOMAIN Closed(h, i, d) = DOMAIN h
  BY <1>1, SplitShape
<1>3. /\ g[n].from = d /\ g[n].to = h[i].to /\ g[n].status = s
      /\ g[i].from = h[i].from /\ g[i].to = d /\ g[i].status = h[i].status
  <2>1. h[i] \in Version
    BY <1>1
  <2> QED BY <1>2, <2>1 DEF Successor, Version
<1>4. Periods(g)
  <2>1. SplitAdmitted(h, i, v)
    BY <1>1, SplitIsAdmitted
  <2>2. v.from = d
    BY DEF Successor
  <2>3. UpdateAdmitted(h, i, Closed(h, i, d)[i]) /\ InsertAdmitted(Closed(h, i, d), v)
    BY <2>1, <2>2 DEF SplitAdmitted
  <2>4. \A j \in DOMAIN h \ {i} : Disjoint(g[i], g[j])
    BY <1>2, <2>3 DEF UpdateAdmitted
  <2>5. \A j \in DOMAIN h : Disjoint(g[n], g[j])
    BY <1>2, <2>3 DEF InsertAdmitted
  <2>6. \A j, k : Disjoint(g[j], g[k]) => Disjoint(g[k], g[j])
    BY DEF Disjoint
  <2>7. \A j, k \in DOMAIN h \ {i} : j # k => Disjoint(g[j], g[k])
    BY <1>1, <1>2 DEF Periods
  <2> QED BY <1>2, <2>4, <2>5, <2>6, <2>7 DEF Periods
<1>5. Drafts(g)
  <2>1. \A j \in DOMAIN h : h[j].status # "DRAFT"
    <3>1. SUFFICES ASSUME NEW j \in DOMAIN h, h[j].status = "DRAFT" PROVE FALSE
      OBVIOUS
    <3>2. Len(h) = 1
      BY <1>1, <3>1 DEF Drafts
    <3>3. j = i
      BY <1>1, <3>2
    <3> QED BY <3>1, <3>3
  <2>2. \A j \in DOMAIN g : g[j].status # "DRAFT"
    BY <1>2, <1>3, <2>1
  <2> QED BY <2>2 DEF Drafts
<1>6. Gapless(g)
  <2>1. SUFFICES ASSUME NEW x \in Days, g # <<>>, g[1].status # "DRAFT", g[1].from <= x
                 PROVE  Covering(g, x) # {}
    BY DEF Gapless
  <2>2. 1 \in DOMAIN h /\ h # <<>>
    BY <1>1
  <2>3. h[1].status # "DRAFT" /\ h[1].from <= x
    BY <1>2, <1>3, <2>1, <2>2
  <2>4. PICK j \in Covering(h, x) : TRUE
    BY <1>1, <2>2, <2>3 DEF Gapless
  <2>5. /\ j \in DOMAIN h /\ h[j].status \in {"PUBLISHED", "REPEALED", "FUTURE"}
        /\ h[j].from <= x /\ x < h[j].to
    BY <2>4 DEF Covering
  <2>6. CASE j # i
    BY <1>2, <2>5, <2>6 DEF Covering
  <2>7. CASE j = i /\ x < d
    <3>1. j \in Covering(g, x)
      BY <1>2, <1>3, <2>5, <2>7 DEF Covering
    <3> QED BY <3>1
  <2>8. CASE j = i /\ ~(x < d)
    <3>1. d <= x
      BY <2>8, CalendarType DEF Days
    <3>2. s \in {"PUBLISHED", "REPEALED", "FUTURE"}
      BY DEF VersionStatus
    <3>3. n \in Covering(g, x)
      BY <1>2, <1>3, <2>5, <2>8, <3>1, <3>2 DEF Covering
    <3> QED BY <3>3
  <2> QED BY <2>6, <2>7, <2>8
<1> QED BY <1>2, <1>4, <1>5, <1>6 DEF History

\* Editing the draft of an article leaves its history in order.
LEMMA RewriteHistory ==
  ASSUME NEW h, History(h), h # <<>>, h[Len(h)].status = "DRAFT",
         NEW d \in Days, NEW t \in Text
  PROVE  History([h EXCEPT ![Len(h)] = [h[Len(h)] EXCEPT !.from = d, !.text = t]])
<1> DEFINE v == [h[Len(h)] EXCEPT !.from = d, !.text = t]
           g == [h EXCEPT ![Len(h)] = v]
<1>1. h \in Seq(Version) /\ Len(h) = 1 /\ DOMAIN h = {1} /\ h[1] \in Version
  <2>1. h \in Seq(Version) /\ Len(h) \in DOMAIN h
    BY DEF History
  <2>2. Len(h) = 1
    BY <2>1 DEF History, Drafts
  <2> QED BY <2>1, <2>2
<1>2. v \in Version /\ v.status = "DRAFT" /\ v.to = h[1].to
  BY <1>1 DEF Version
<1>3. g \in Seq(Version) /\ Len(g) = 1 /\ DOMAIN g = {1} /\ g[1] = v
  BY <1>1, <1>2
<1>4. Periods(g)
  BY <1>3 DEF Periods
<1>5. Drafts(g)
  BY <1>1, <1>2, <1>3 DEF Drafts, History
<1>6. Gapless(g)
  BY <1>2, <1>3 DEF Gapless
<1> QED BY <1>3, <1>4, <1>5, <1>6 DEF History

\* Publishing the draft of an article starts a history in order.
LEMMA PublishHistory ==
  ASSUME NEW h, History(h), h # <<>>, h[Len(h)].status = "DRAFT"
  PROVE  History([h EXCEPT ![Len(h)].status = "PUBLISHED"])
<1> DEFINE v == [h[Len(h)] EXCEPT !.status = "PUBLISHED"]
           g == [h EXCEPT ![Len(h)].status = "PUBLISHED"]
<1>1. /\ h \in Seq(Version) /\ Len(h) = 1 /\ DOMAIN h = {1} /\ h[1] \in Version
      /\ h[1].to = Open
  <2>1. h \in Seq(Version) /\ Len(h) \in DOMAIN h
    BY DEF History
  <2>2. Len(h) = 1 /\ h[Len(h)].to = Open
    BY <2>1 DEF History, Drafts
  <2> QED BY <2>1, <2>2
<1>2. /\ v \in Version /\ v.status = "PUBLISHED" /\ v.to = Open
      /\ v.from = h[1].from
  BY <1>1 DEF Version, VersionStatus
<1>3. g \in Seq(Version) /\ Len(g) = 1 /\ DOMAIN g = {1} /\ g[1] = v
  BY <1>1, <1>2
<1>4. Periods(g)
  BY <1>3 DEF Periods
<1>5. Drafts(g)
  BY <1>2, <1>3 DEF Drafts
<1>6. Gapless(g)
  <2>1. SUFFICES ASSUME NEW x \in Days, g[1].from <= x
                 PROVE  1 \in Covering(g, x)
    BY DEF Gapless
  <2>2. x < g[1].to
    BY <1>2, <1>3, CalendarType DEF Days, Open
  <2> QED BY <1>2, <1>3, <2>1, <2>2 DEF Covering
<1> QED BY <1>3, <1>4, <1>5, <1>6 DEF History

-----------------------------------------------------------------------------
\* Every step keeps the inductive invariant.

LEMMA EmptyText == <<>> \in Text
<1>1. <<>> \in [1..0 -> Words] /\ 0 \in 0..MaxLen
  BY TimelineAssumption
<1> QED BY <1>1 DEF Text

\* The version that closes the covering one: what applyArticle reads.
LEMMA BeforeFacts ==
  ASSUME IInv, NEW m \in Amendments, NEW a \in Targets(m), ArticleAmendable(m, a),
         ~Adds(amendment[m].ops[a])
  PROVE  LET d == amendment[m].day
             h == versions[a]
             i == Before(h, d)
         IN  /\ i \in DOMAIN h /\ i \in Nat /\ h[i] \in Version
             /\ h[i].status # "DRAFT" /\ h[i].from < d /\ d < h[i].to
<1> DEFINE d == amendment[m].day
           h == versions[a]
           i == Before(h, d)
<1>1. a \in Articles /\ d \in Days /\ History(h) /\ Covering(h, d) # {} /\ h[i].from # d
  BY DEF IInv, TypeOK, Targets, Document, ArticleAmendable
<1>2. i \in Covering(h, d)
  BY <1>1, CoveringUnique DEF History
<1>3. i \in DOMAIN h /\ i \in Nat /\ h[i] \in Version
  BY <1>1, <1>2 DEF Covering, History
<1>4. h[i].from \in Nat /\ h[i].to \in Nat /\ d \in Nat
  BY <1>1, <1>3, VersionFields DEF Days
<1> QED BY <1>1, <1>2, <1>3, <1>4 DEF Covering

\* What applyArticle writes for one article.
LEMMA ApplyFacts ==
  ASSUME IInv, NEW m \in Amendments, NEW a \in Targets(m), ArticleAmendable(m, a)
  PROVE  /\ a \in Articles /\ PreviousText(m, a) \in Text
         /\ NewVersion(m, a).prev \in Nat /\ NewVersion(m, a).text \in Text
         /\ History(ApplyArticle(m, a))
<1> DEFINE ops == amendment[m].ops[a]
           d == amendment[m].day
           h == versions[a]
           i == Before(h, d)
           t == Outcome(ops, PreviousText(m, a))
           s == NewStatus(ops, d)
<1>1. a \in Articles /\ ops \in Seq(Operation) /\ d \in Days /\ History(h)
  BY DEF IInv, TypeOK, Targets, Document
<1>2. t \in Text
  BY <1>1, OutcomeType DEF ArticleAmendable
<1>3. s \in VersionStatus \ {"DRAFT"} /\ s \in VersionStatus
  BY NewStatusType
<1>4. CASE Adds(ops)
  <2>1. NewVersion(m, a) = First(d, s, t) /\ PreviousText(m, a) = <<>>
    BY <1>4 DEF NewVersion, PreviousText
  <2>2. ApplyArticle(m, a) = <<First(d, s, t)>>
    BY <1>4, <2>1 DEF ApplyArticle
  <2>3. History(ApplyArticle(m, a))
    BY <1>1, <1>2, <1>3, <2>2, FirstHistory
  <2> QED BY <1>1, <1>2, <2>1, <2>3, EmptyText DEF First
<1>5. CASE ~Adds(ops)
  <2>1. NewVersion(m, a) = Successor(h, i, d, s, t) /\ PreviousText(m, a) = h[i].text
    BY <1>5 DEF NewVersion, PreviousText
  <2>2. /\ i \in DOMAIN h /\ i \in Nat /\ h[i] \in Version
        /\ h[i].status # "DRAFT" /\ h[i].from < d /\ d < h[i].to
    BY <1>5, BeforeFacts
  <2>3. NewVersion(m, a).prev = i /\ NewVersion(m, a).text = t
    BY <2>1 DEF Successor
  <2>4. ApplyArticle(m, a) = Append(Closed(h, i, d), Successor(h, i, d, s, t))
    BY <1>5, <2>1, <2>3 DEF ApplyArticle
  <2>5. History(ApplyArticle(m, a))
    BY <1>1, <1>2, <1>3, <2>2, <2>4, SplitHistory
  <2>6. h[i].text \in Text
    BY <2>2, VersionFields
  <2> QED BY <1>1, <1>2, <2>1, <2>2, <2>3, <2>5, <2>6
<1> QED BY <1>4, <1>5

LEMMA InitInv == Init => IInv
<1> SUFFICES ASSUME Init PROVE IInv
  OBVIOUS
<1>1. \A a \in Articles : History(versions[a])
  <2>1. SUFFICES ASSUME NEW a \in Articles PROVE History(<<>>)
    BY DEF Init
  <2> QED BY DEF History, Periods, Drafts, Gapless
<1>2. NoOps \in [Articles -> Seq(Operation)] /\ 1 \in Days
  BY CalendarType DEF NoOps, Days
<1>3. TypeOK
  BY <1>2 DEF Init, TypeOK, LawStatus, Document
<1>4. Fresh
  BY DEF Init, Fresh
<1> QED BY <1>1, <1>3, <1>4 DEF IInv

\* Steps that leave articles and their histories alone need the types only.
LEMMA QuietStep ==
  ASSUME IInv, TypeOK', UNCHANGED <<article, versions>>
  PROVE  IInv'
  BY DEF IInv, Fresh, History, Periods, Drafts, Gapless, Covering, Disjoint

LEMMA DraftInv ==
  ASSUME IInv, NEW a \in Articles, NEW t \in DraftTexts, NEW d \in Days,
         \/ CreateArticle(a, d, t)
         \/ UpdateDraftArticle(a, t)
         \/ UpdateDraftArticleMetadata(a, d, t)
  PROVE  IInv'
<1>1. t \in Text /\ d \in Days /\ "DRAFT" \in VersionStatus
  BY TimelineAssumption DEF VersionStatus
<1>2. TypeOK /\ Fresh /\ \A b \in Articles : History(versions[b])
  BY DEF IInv
<1>3. CASE CreateArticle(a, d, t)
  <2>1. History(<<First(d, "DRAFT", t)>>)
    BY <1>1, FirstHistory
  <2>2. /\ versions' = [versions EXCEPT ![a] = <<First(d, "DRAFT", t)>>]
        /\ article' = [article EXCEPT ![a] = "PRESENT"]
        /\ UNCHANGED <<today, lawStatus, disabled, amendment, modifications>>
    BY <1>3 DEF CreateArticle
  <2>3. \A b \in Articles : versions'[b] = IF b = a THEN <<First(d, "DRAFT", t)>> ELSE versions[b]
    BY <1>2, <2>2 DEF TypeOK
  <2>4. TypeOK'
    BY <1>2, <2>1, <2>2 DEF TypeOK, History
  <2>5. Fresh'
    BY <1>2, <2>2, <2>3 DEF Fresh, TypeOK
  <2> QED BY <1>2, <2>1, <2>3, <2>4, <2>5 DEF IInv
<1>4. CASE UpdateDraftArticle(a, t) \/ UpdateDraftArticleMetadata(a, d, t)
  <2> DEFINE h == versions[a]
  <2>1. /\ article[a] = "PRESENT" /\ h # <<>> /\ h[Len(h)].status = "DRAFT"
        /\ UNCHANGED <<today, lawStatus, disabled, article, amendment, modifications>>
    BY <1>4 DEF UpdateDraftArticle, UpdateDraftArticleMetadata, InDraft, Latest
  <2>2. Len(h) \in DOMAIN h /\ h[Len(h)] \in Version
    BY <1>2, <2>1 DEF TypeOK
  <2>3. PICK e \in Days :
          versions' = [versions EXCEPT
                         ![a] = [h EXCEPT ![Len(h)] = [h[Len(h)] EXCEPT !.from = e, !.text = t]]]
    <3>1. CASE UpdateDraftArticle(a, t)
      <4>1. [h[Len(h)] EXCEPT !.from = h[Len(h)].from, !.text = t] = [h[Len(h)] EXCEPT !.text = t]
        BY <2>2 DEF Version
      <4>2. h[Len(h)].from \in Days
        BY <2>2, VersionFields
      <4> QED BY <3>1, <4>1, <4>2, <1>2 DEF UpdateDraftArticle, RewriteLatest, Latest, TypeOK
    <3>2. CASE UpdateDraftArticleMetadata(a, d, t)
      BY <3>2, <1>1, <1>2 DEF UpdateDraftArticleMetadata, RewriteLatest, Latest, TypeOK
    <3> QED BY <1>4, <3>1, <3>2
  <2> DEFINE g == [h EXCEPT ![Len(h)] = [h[Len(h)] EXCEPT !.from = e, !.text = t]]
  <2>4. History(g)
    BY <1>1, <1>2, <2>1, RewriteHistory
  <2>5. \A b \in Articles : versions'[b] = IF b = a THEN g ELSE versions[b]
    BY <1>2, <2>3 DEF TypeOK
  <2>6. TypeOK'
    <3>1. versions' \in [Articles -> Seq(Version)]
      BY <1>2, <2>3, <2>4 DEF TypeOK, History
    <3> QED BY <1>2, <2>1, <3>1 DEF TypeOK
  <2>7. Fresh'
    BY <1>2, <2>1, <2>5 DEF Fresh
  <2> QED BY <1>2, <2>4, <2>5, <2>6, <2>7 DEF IInv
<1> QED BY <1>3, <1>4

LEMMA TransitionInv ==
  ASSUME IInv, NEW target \in LawStatus, Transition(target)
  PROVE  IInv'
<1>1. TypeOK /\ Fresh /\ \A b \in Articles : History(versions[b])
  BY DEF IInv
<1>2. lawStatus' = target /\ UNCHANGED <<today, disabled, article, amendment, modifications>>
  BY DEF Transition
<1>3. CASE target # "PUBLISHED"
  <2>1. UNCHANGED versions
    BY <1>3 DEF Transition
  <2>2. TypeOK'
    BY <1>1, <1>2, <2>1 DEF TypeOK
  <2> QED BY <1>2, <2>1, <2>2, QuietStep
<1>4. CASE target = "PUBLISHED"
  <2>1. versions' = [a \in Articles |->
                       IF InDraft(a)
                       THEN [versions[a] EXCEPT ![Len(versions[a])].status = "PUBLISHED"]
                       ELSE versions[a]]
    BY <1>4 DEF Transition, PublishCurrentDraftArticles
  <2>2. \A a \in Articles : History(versions'[a])
    <3>1. SUFFICES ASSUME NEW a \in Articles PROVE History(versions'[a])
      OBVIOUS
    <3>2. CASE InDraft(a)
      <4>1. History([versions[a] EXCEPT ![Len(versions[a])].status = "PUBLISHED"])
        BY <1>1, <3>2, PublishHistory DEF InDraft, Latest
      <4> QED BY <2>1, <3>2, <4>1
    <3>3. CASE ~InDraft(a)
      BY <1>1, <2>1, <3>3
    <3> QED BY <3>2, <3>3
  <2>3. TypeOK'
    <3>1. versions' \in [Articles -> Seq(Version)]
      BY <2>1, <2>2 DEF History
    <3> QED BY <1>1, <1>2, <3>1 DEF TypeOK
  <2>4. Fresh'
    BY <1>1, <1>2, <2>1 DEF Fresh, InDraft
  <2> QED BY <2>2, <2>3, <2>4 DEF IInv
<1> QED BY <1>3, <1>4

LEMMA PublishInv ==
  ASSUME IInv, NEW m \in Amendments, Publish(m)
  PROVE  IInv'
<1>1. TypeOK /\ Fresh /\ \A b \in Articles : History(versions[b])
  BY DEF IInv
<1>2. \A a \in Targets(m) :
        /\ a \in Articles /\ PreviousText(m, a) \in Text
        /\ NewVersion(m, a).prev \in Nat /\ NewVersion(m, a).text \in Text
        /\ History(ApplyArticle(m, a))
  BY ApplyFacts DEF Publish
<1>3. /\ versions' = [a \in Articles |->
                        IF a \in Targets(m) THEN ApplyArticle(m, a) ELSE versions[a]]
      /\ article' = [a \in Articles |-> IF a \in Targets(m) THEN "PRESENT" ELSE article[a]]
      /\ amendment' = [amendment EXCEPT ![m].status = "PUBLISHED"]
      /\ UNCHANGED <<today, lawStatus, disabled>>
  BY DEF Publish
<1>4. \A a \in Articles : History(versions'[a])
  BY <1>1, <1>2, <1>3
<1>5. versions' \in [Articles -> Seq(Version)]
  BY <1>3, <1>4 DEF History
<1>6. article' \in [Articles -> {"ABSENT", "PRESENT", "DELETED"}]
  BY <1>1, <1>3 DEF TypeOK
<1>7. amendment' \in [Amendments -> Document]
  <2>1. amendment[m] \in Document
    BY <1>1 DEF TypeOK
  <2>2. [amendment[m] EXCEPT !.status = "PUBLISHED"] \in Document
    BY <2>1 DEF Document
  <2> QED BY <1>1, <1>3, <2>2 DEF TypeOK
<1>8. modifications' \subseteq Modification
  <2>1. \A a \in Targets(m) :
          [amendment |-> m, article |-> a, before |-> NewVersion(m, a).prev,
           after |-> Len(versions[a]) + 1, previous |-> PreviousText(m, a),
           new |-> NewVersion(m, a).text] \in Modification
    <3>1. SUFFICES ASSUME NEW a \in Targets(m)
                   PROVE  Len(versions[a]) + 1 \in Nat
      BY <1>2 DEF Modification
    <3> QED BY <1>1, <1>2 DEF TypeOK
  <2> QED BY <1>1, <2>1 DEF Publish, TypeOK
<1>9. TypeOK'
  BY <1>1, <1>3, <1>5, <1>6, <1>7, <1>8 DEF TypeOK
<1>10. Fresh'
  BY <1>1, <1>3 DEF Fresh
<1> QED BY <1>4, <1>9, <1>10 DEF IInv

LEMMA DocumentInv ==
  ASSUME IInv, NEW m \in Amendments,
         \/ \E d \in EffectDays, ops \in Contents : Save(m, d, ops)
         \/ Review(m)
         \/ DeleteAmendment(m)
  PROVE  IInv'
<1>1. TypeOK /\ amendment[m] \in Document
  BY DEF IInv, TypeOK
<1>2. UNCHANGED <<today, lawStatus, article, versions, modifications>>
  BY DEF Save, Review, DeleteAmendment
<1>3. disabled' \subseteq Records
  BY <1>1 DEF Save, Review, DeleteAmendment, TypeOK
<1>4. PICK x \in Document : amendment' = [amendment EXCEPT ![m] = x]
  <2>1. CASE \E d \in EffectDays, ops \in Contents : Save(m, d, ops)
    <3>1. PICK d \in EffectDays, ops \in Contents : Save(m, d, ops)
      BY <2>1
    <3>2. [status |-> "DRAFT", day |-> d, ops |-> ops] \in Document
      BY TimelineAssumption DEF Document
    <3> QED BY <3>1, <3>2 DEF Save
  <2>2. CASE Review(m)
    <3>1. [amendment[m] EXCEPT !.status = "REVIEWED"] \in Document
      BY <1>1 DEF Document
    <3> QED BY <2>2, <3>1 DEF Review
  <2>3. CASE DeleteAmendment(m)
    <3>1. [amendment[m] EXCEPT !.status = "DELETED"] \in Document
      BY <1>1 DEF Document
    <3> QED BY <2>3, <3>1 DEF DeleteAmendment
  <2> QED BY <2>1, <2>2, <2>3
<1>5. TypeOK'
  BY <1>1, <1>2, <1>3, <1>4 DEF TypeOK
<1> QED BY <1>2, <1>5, QuietStep

LEMMA LifecycleInv ==
  ASSUME IInv,
         \/ \E r \in Records : Disable(r) \/ Enable(r)
         \/ \E a \in Articles : DeleteArticle(a)
  PROVE  IInv'
<1>1. TypeOK /\ Fresh
  BY DEF IInv
<1>2. CASE \E r \in Records : Disable(r) \/ Enable(r)
  <2>1. /\ UNCHANGED <<today, lawStatus, article, versions, amendment, modifications>>
        /\ disabled' \subseteq Records
    BY <1>1, <1>2 DEF Disable, Enable, TypeOK
  <2>2. TypeOK'
    BY <1>1, <2>1 DEF TypeOK
  <2> QED BY <2>1, <2>2, QuietStep
<1>3. CASE \E a \in Articles : DeleteArticle(a)
  <2>1. PICK a \in Articles : DeleteArticle(a)
    BY <1>3
  <2>2. /\ article' = [article EXCEPT ![a] = "DELETED"]
        /\ disabled' = disabled \ {a}
        /\ UNCHANGED <<today, lawStatus, versions, amendment, modifications>>
    BY <2>1 DEF DeleteArticle
  <2>3. TypeOK'
    BY <1>1, <2>2 DEF TypeOK
  <2>4. Fresh'
    BY <1>1, <2>2 DEF Fresh, TypeOK
  <2> QED BY <2>2, <2>3, <2>4 DEF IInv
<1> QED BY <1>2, <1>3

LEMMA NextInv == IInv /\ [Next]_vars => IInv'
<1> SUFFICES ASSUME IInv, [Next]_vars PROVE IInv'
  OBVIOUS
<1>1. CASE Tick
  <2>1. TypeOK' /\ UNCHANGED <<article, versions>>
    BY <1>1, CalendarType DEF Tick, IInv, TypeOK, Days
  <2> QED BY <2>1, QuietStep
<1>2. CASE DraftSteps
  <2>1. PICK a \in Articles, t \in DraftTexts :
          \/ UpdateDraftArticle(a, t)
          \/ \E d \in DraftDays : CreateArticle(a, d, t) \/ UpdateDraftArticleMetadata(a, d, t)
    BY <1>2 DEF DraftSteps
  <2>2. DraftDays \subseteq Days /\ 1 \in Days
    BY TimelineAssumption, CalendarType DEF Days
  <2> QED BY <2>1, <2>2, DraftInv
<1>3. CASE \E target \in LawStatus : Transition(target)
  BY <1>3, TransitionInv
<1>4. CASE AmendmentSteps
  BY <1>4, DocumentInv, PublishInv DEF AmendmentSteps
<1>5. CASE LifecycleSteps
  BY <1>5, LifecycleInv DEF LifecycleSteps
<1>6. CASE UNCHANGED vars
  <2>1. TypeOK' /\ UNCHANGED <<article, versions>>
    BY <1>6 DEF vars, IInv, TypeOK
  <2> QED BY <2>1, QuietStep
<1> QED BY <1>1, <1>2, <1>3, <1>4, <1>5, <1>6 DEF Next

LEMMA Invariance == Spec => []IInv
<1>1. Init => IInv
  BY InitInv
<1>2. IInv /\ [Next]_vars => IInv'
  BY NextInv
<1> QED BY <1>1, <1>2, PTL DEF Spec

-----------------------------------------------------------------------------
\* Every reachable state is well typed.
THEOREM TypeCorrect == Spec => []TypeOK
<1>1. IInv => TypeOK
  BY DEF IInv
<1> QED BY <1>1, Invariance, PTL

\* No two versions of an article are in force on the same day, after any sequence
\* of edits, publications, amendments and lifecycle steps.
THEOREM PeriodsDisjoint == Spec => []NoOverlap
<1>1. IInv => NoOverlap
  BY DEF IInv, History, Periods, NoOverlap
<1> QED BY <1>1, Invariance, PTL

\* The triggers never refuse the statements of applyArticle: the service computes
\* periods that fit, so an approved amendment is not rejected by the database.
THEOREM AmendmentsFit == Spec => []TriggersAcceptAmendments
<1>1. ASSUME IInv PROVE TriggersAcceptAmendments
  <2>1. SUFFICES ASSUME NEW a \in Articles, NEW d \in Days,
                        Covering(versions[a], d) # {},
                        versions[a][Before(versions[a], d)].from # d
                 PROVE  SplitAdmitted(versions[a], Before(versions[a], d),
                          Successor(versions[a], Before(versions[a], d), d, "PUBLISHED", <<>>))
    BY DEF TriggersAcceptAmendments
  <2> DEFINE h == versions[a]
             i == Before(h, d)
  <2>2. h \in Seq(Version) /\ Periods(h)
    BY <1>1 DEF IInv, History
  <2>3. i \in Covering(h, d)
    BY <2>1, <2>2, CoveringUnique
  <2>4. i \in DOMAIN h /\ h[i] \in Version /\ h[i].from <= d /\ d < h[i].to
    BY <2>2, <2>3 DEF Covering
  <2>5. h[i].from < d
    BY <2>1, <2>4, VersionFields DEF Days
  <2>6. "PUBLISHED" \in VersionStatus
    BY DEF VersionStatus
  <2> QED BY <2>2, <2>4, <2>5, <2>6, EmptyText, SplitIsAdmitted
<1> QED BY <1>1, Invariance, PTL

\* From the first day of a published article on, no day is without a text.
THEOREM HistoriesGapless == Spec => []GaplessHistory
<1>1. IInv => GaplessHistory
  BY DEF IInv, History, Gapless, GaplessHistory
<1> QED BY <1>1, Invariance, PTL

-----------------------------------------------------------------------------
\* What one step may do to one history.

\* A version of an article whose newest version is a draft is a draft.
LEMMA DraftAlone ==
  ASSUME NEW h, History(h), h # <<>>, h[Len(h)].status = "DRAFT"
  PROVE  Len(h) = 1 /\ DOMAIN h = {1} /\ h[1].status = "DRAFT" /\ h[1] \in Version
<1>1. h \in Seq(Version) /\ Len(h) \in DOMAIN h
  BY DEF History
<1>2. Len(h) = 1
  BY <1>1 DEF History, Drafts
<1> QED BY <1>1, <1>2

\* Apart from Publish, a step that changes the history of an article found in it
\* nothing, or a draft.
LEMMA DraftOnlySteps ==
  ASSUME IInv, [Next]_vars, \A m \in Amendments : ~Publish(m), NEW a \in Articles
  PROVE  \/ versions'[a] = versions[a]
         \/ \A i \in DOMAIN versions[a] : versions[a][i].status = "DRAFT"
<1>1. TypeOK /\ Fresh /\ \A b \in Articles : History(versions[b])
  BY DEF IInv
<1>2. \A b \in Articles : InDraft(b) => \A i \in DOMAIN versions[b] : versions[b][i].status = "DRAFT"
  BY <1>1, DraftAlone DEF InDraft, Latest
<1>3. CASE DraftSteps
  <2>1. PICK b \in Articles, t \in DraftTexts :
          \/ UpdateDraftArticle(b, t)
          \/ \E d \in DraftDays : CreateArticle(b, d, t) \/ UpdateDraftArticleMetadata(b, d, t)
    BY <1>3 DEF DraftSteps
  <2>2. \E g : versions' = [versions EXCEPT ![b] = g]
    BY <2>1, <1>1 DEF UpdateDraftArticle, CreateArticle, UpdateDraftArticleMetadata, RewriteLatest
  <2>3. versions[b] = <<>> \/ InDraft(b)
    BY <2>1, <1>1 DEF UpdateDraftArticle, CreateArticle, UpdateDraftArticleMetadata, Fresh
  <2> QED BY <1>1, <1>2, <2>2, <2>3 DEF TypeOK
<1>4. CASE \E target \in LawStatus : Transition(target)
  <2>1. PICK target \in LawStatus : Transition(target)
    BY <1>4
  <2>2. \/ UNCHANGED versions
        \/ versions' = [b \in Articles |->
                         IF InDraft(b)
                         THEN [versions[b] EXCEPT ![Len(versions[b])].status = "PUBLISHED"]
                         ELSE versions[b]]
    BY <2>1 DEF Transition, PublishCurrentDraftArticles
  <2> QED BY <1>2, <2>2
<1>5. CASE UNCHANGED versions
  BY <1>5
<1>6. Tick \/ AmendmentSteps \/ LifecycleSteps \/ UNCHANGED vars => UNCHANGED versions
  BY DEF Tick, AmendmentSteps, Save, Review, DeleteAmendment, LifecycleSteps, Disable,
         Enable, DeleteArticle, vars
<1> QED BY <1>3, <1>4, <1>5, <1>6 DEF Next

\* What Publish does to the history of one article.
LEMMA PublishSteps ==
  ASSUME IInv, NEW m \in Amendments, Publish(m), NEW a \in Articles
  PROVE  \/ versions'[a] = versions[a]
         \/ /\ versions[a] = <<>>
            /\ \E s \in VersionStatus \ {"DRAFT"}, t \in Text :
                 versions'[a] = <<First(amendment[m].day, s, t)>>
         \/ \E i \in DOMAIN versions[a], s \in VersionStatus \ {"DRAFT"}, t \in Text :
              /\ i \in Covering(versions[a], amendment[m].day)
              /\ versions[a][i].from < amendment[m].day
              /\ versions'[a] = Append(Closed(versions[a], i, amendment[m].day),
                                 Successor(versions[a], i, amendment[m].day, s, t))
<1> DEFINE ops == amendment[m].ops[a]
           d == amendment[m].day
           h == versions[a]
           i == Before(h, d)
           t == Outcome(ops, PreviousText(m, a))
           s == NewStatus(ops, d)
<1>1. a \notin Targets(m) => versions'[a] = h
  BY DEF Publish
<1>2. ASSUME a \in Targets(m)
      PROVE  /\ ArticleAmendable(m, a) /\ versions'[a] = ApplyArticle(m, a)
             /\ t \in Text /\ s \in VersionStatus \ {"DRAFT"}
  <2>1. ArticleAmendable(m, a) /\ versions'[a] = ApplyArticle(m, a)
    BY <1>2 DEF Publish
  <2>2. ops \in Seq(Operation)
    BY DEF IInv, TypeOK, Document
  <2> QED BY <2>1, <2>2, OutcomeType, NewStatusType DEF ArticleAmendable
<1>3. CASE a \in Targets(m) /\ Adds(ops)
  <2>1. h = <<>>
    BY <1>2, <1>3 DEF ArticleAmendable, IInv, Fresh
  <2>2. versions'[a] = <<First(d, s, t)>>
    BY <1>2, <1>3 DEF ApplyArticle, NewVersion
  <2> QED BY <1>2, <1>3, <2>1, <2>2
<1>4. CASE a \in Targets(m) /\ ~Adds(ops)
  <2>1. NewVersion(m, a) = Successor(h, i, d, s, t)
    BY <1>4 DEF NewVersion
  <2>2. NewVersion(m, a).prev = i
    BY <2>1 DEF Successor
  <2>3. versions'[a] = Append(Closed(h, i, d), Successor(h, i, d, s, t))
    BY <1>2, <1>4, <2>1, <2>2 DEF ApplyArticle
  <2>4. i \in DOMAIN h /\ h[i].from < d
    BY <1>2, <1>4, BeforeFacts
  <2>5. i \in Covering(h, d)
    <3>1. h \in Seq(Version) /\ Periods(h) /\ d \in Days
      BY DEF IInv, History, TypeOK, Document
    <3>2. Covering(h, d) # {}
      BY <1>2, <1>4 DEF ArticleAmendable
    <3> QED BY <3>1, <3>2, CoveringUnique
  <2> QED BY <1>2, <1>4, <2>3, <2>4, <2>5
<1> QED BY <1>1, <1>3, <1>4

\* Published versions are never rewritten or removed; a step may only end one
\* earlier, where a version that continues it begins.
THEOREM HistoryImmutable == Spec => HistoryOnlySplits
<1> DEFINE Splits ==
      \A a \in Articles : \A i \in DOMAIN versions[a] :
        versions[a][i].status # "DRAFT" =>
          /\ i \in DOMAIN versions'[a]
          /\ LET old == versions[a][i]
                 new == versions'[a][i]
             IN  \/ new = old
                 \/ /\ new = [old EXCEPT !.to = new.to] /\ new.to < old.to
                    /\ \E j \in DOMAIN versions'[a] \ DOMAIN versions[a] :
                         /\ versions'[a][j].from = new.to /\ versions'[a][j].to = old.to
                         /\ versions'[a][j].prev = i
<1>1. ASSUME IInv, [Next]_vars PROVE Splits
  <2>1. SUFFICES ASSUME NEW a \in Articles, NEW i \in DOMAIN versions[a],
                        versions[a][i].status # "DRAFT", versions'[a] # versions[a]
                 PROVE  /\ i \in DOMAIN versions'[a]
                        /\ LET old == versions[a][i]
                               new == versions'[a][i]
                           IN  \/ new = old
                               \/ /\ new = [old EXCEPT !.to = new.to] /\ new.to < old.to
                                  /\ \E j \in DOMAIN versions'[a] \ DOMAIN versions[a] :
                                       /\ versions'[a][j].from = new.to
                                       /\ versions'[a][j].to = old.to
                                       /\ versions'[a][j].prev = i
    OBVIOUS
  <2>2. PICK m \in Amendments : Publish(m)
    BY <1>1, <2>1, DraftOnlySteps
  <2> DEFINE h == versions[a]
             d == amendment[m].day
  <2>3. PICK k \in DOMAIN h, s \in VersionStatus \ {"DRAFT"}, t \in Text :
          /\ k \in Covering(h, d) /\ h[k].from < d
          /\ versions'[a] = Append(Closed(h, k, d), Successor(h, k, d, s, t))
    BY <1>1, <2>1, <2>2, PublishSteps
  <2> DEFINE n == Len(h) + 1
             g == Append(Closed(h, k, d), Successor(h, k, d, s, t))
  <2>4. h \in Seq(Version) /\ d \in Days /\ d < h[k].to /\ h[k] \in Version
    BY <1>1, <2>3 DEF IInv, History, TypeOK, Document, Covering
  <2>5. /\ DOMAIN g = DOMAIN h \cup {n} /\ n \notin DOMAIN h
        /\ g[n] = Successor(h, k, d, s, t) /\ g[k] = [h[k] EXCEPT !.to = d]
        /\ \A j \in DOMAIN h \ {k} : g[j] = h[j]
    BY <2>3, <2>4, SplitShape
  <2>6. CASE i # k
    BY <2>3, <2>5, <2>6
  <2>7. CASE i = k
    <3>1. g[k].to = d /\ g[k] = [h[k] EXCEPT !.to = g[k].to] /\ g[k].to < h[k].to
      BY <2>4, <2>5 DEF Version
    <3>2. g[n].from = d /\ g[n].to = h[k].to /\ g[n].prev = k
      BY <2>5 DEF Successor
    <3>3. n \in DOMAIN g \ DOMAIN h /\ versions'[a] = g
      BY <2>3, <2>5
    <3> HIDE DEF g, n
    <3>4. \E j \in DOMAIN g \ DOMAIN h :
            g[j].from = g[k].to /\ g[j].to = h[k].to /\ g[j].prev = k
      BY <3>1, <3>2, <3>3
    <3>5. k \in DOMAIN g
      BY <2>5
    <3> QED BY <2>7, <3>1, <3>3, <3>4, <3>5
  <2> QED BY <2>6, <2>7
<1>2. IInv /\ [Next]_vars => [Splits]_vars
  BY <1>1
<1>3. Spec => [][Splits]_vars
  BY <1>2, Invariance, PTL DEF Spec
<1> QED BY <1>3 DEF HistoryOnlySplits

(***************************************************************************)
(* The whole law, on top of the order of single histories: what the public *)
(* reads, what publishing leaves behind, and that the register             *)
(* article_modifications explains every version an amendment made.  The    *)
(* invariant Register adds two facts to the properties themselves: an      *)
(* article that exists has a version, and the version a modification       *)
(* records is not a draft, so no edit of a draft and no publication of     *)
(* drafts can touch what the register speaks of.                           *)
(***************************************************************************)
AtPublic == lawStatus \in PublicStatus \cup {"ARCHIVED"}

Undrafted(h) == \A i \in DOMAIN h : h[i].status # "DRAFT"

\* What PublishedWhole says, and that no article exists without a version.
Whole ==
  /\ \A a \in Articles : article[a] = "PRESENT" => versions[a] # <<>>
  /\ AtPublic => \A a \in Articles : article[a] = "PRESENT" => Undrafted(versions[a])

\* The entry x of the register agrees with its document and with the history h.
Explained(x, doc, h) ==
  /\ doc.status = "PUBLISHED"
  /\ x.after \in DOMAIN h /\ x.before < x.after
  /\ Traces(doc.ops[x.article], x.previous) # {}
  /\ x.new = Outcome(doc.ops[x.article], x.previous)
  /\ h[x.after].prev = x.before /\ h[x.after].text = x.new /\ h[x.after].from = doc.day
  /\ IF x.before = 0 THEN x.previous = <<>> ELSE h[x.before].text = x.previous

Entries(a, i) == {x \in modifications : x.article = a /\ x.after = i}

Recorded(m) == {x.article : x \in {y \in modifications : y.amendment = m}}

Register ==
  /\ \A x \in modifications :
       /\ Explained(x, amendment[x.amendment], versions[x.article])
       /\ versions[x.article][x.after].status # "DRAFT"
  /\ \A a \in Articles : \A i \in DOMAIN versions[a] \ {1} : Cardinality(Entries(a, i)) = 1
  /\ \A m \in Amendments :
       Recorded(m) = IF amendment[m].status = "PUBLISHED" THEN Targets(m) ELSE {}

RInv == IInv /\ Whole /\ Register

-----------------------------------------------------------------------------
\* What the public reads.

\* A version shown for a day is one that covers it.
LEMMA ShownCovers ==
  ASSUME NEW a \in Articles, NEW d \in Days
  PROVE  Shown(a, d) \subseteq Covering(versions[a], d)
  BY DEF Shown, Covering

\* The public endpoints show at most one version of an article for a day, and it
\* carries the text in force that day.
THEOREM PublicReadsLegal == Spec => []PublicReadIsLegal
<1>1. ASSUME IInv PROVE PublicReadIsLegal
  <2>1. SUFFICES ASSUME NEW a \in Articles, NEW d \in Days
                 PROVE  /\ Cardinality(Shown(a, d)) <= 1
                        /\ \A i \in Shown(a, d) : versions[a][i].text = InForce[a][d]
    BY DEF PublicReadIsLegal
  <2>2. versions[a] \in Seq(Version) /\ Periods(versions[a])
    BY <1>1 DEF IInv, History
  <2>3. Shown(a, d) \subseteq Covering(versions[a], d)
    BY ShownCovers
  <2>4. CASE Shown(a, d) = {}
    BY <2>4, FS_EmptySet
  <2>5. CASE Shown(a, d) # {}
    <3>1. \A i \in Shown(a, d) : i = Before(versions[a], d)
      BY <2>2, <2>3, <2>5, CoveringUnique
    <3>2. Shown(a, d) = {Before(versions[a], d)}
      BY <2>5, <3>1
    <3>3. Cardinality(Shown(a, d)) = 1
      BY <3>2, FS_Singleton
    <3>4. InForce[a][d] = versions[a][Before(versions[a], d)].text
      BY <2>3, <2>5 DEF InForce
    <3> QED BY <3>1, <3>3, <3>4
  <2> QED BY <2>4, <2>5
<1> QED BY <1>1, Invariance, PTL

-----------------------------------------------------------------------------
\* What the steps do to the histories.

\* A document that is published changes the histories of its targets only, and
\* there it keeps text, beginning, status and predecessor of every version.
LEMMA PublishKeeps ==
  ASSUME IInv, NEW m \in Amendments, Publish(m), NEW a \in Articles
  PROVE  /\ DOMAIN versions[a] \subseteq DOMAIN versions'[a]
         /\ \A j \in DOMAIN versions[a] :
              /\ versions'[a][j].text = versions[a][j].text
              /\ versions'[a][j].from = versions[a][j].from
              /\ versions'[a][j].status = versions[a][j].status
              /\ versions'[a][j].prev = versions[a][j].prev
<1> DEFINE h == versions[a]
           d == amendment[m].day
<1>1. CASE versions'[a] = h
  BY <1>1
<1>2. CASE h = <<>>
  BY <1>2
<1>3. ASSUME NEW i \in DOMAIN h, NEW s \in VersionStatus \ {"DRAFT"}, NEW t \in Text,
             i \in Covering(h, d), h[i].from < d,
             versions'[a] = Append(Closed(h, i, d), Successor(h, i, d, s, t))
      PROVE  /\ DOMAIN h \subseteq DOMAIN versions'[a]
             /\ \A j \in DOMAIN h :
                  /\ versions'[a][j].text = h[j].text
                  /\ versions'[a][j].from = h[j].from
                  /\ versions'[a][j].status = h[j].status
                  /\ versions'[a][j].prev = h[j].prev
  <2>1. h \in Seq(Version) /\ d \in Days /\ d < h[i].to
    BY <1>3 DEF IInv, History, TypeOK, Document, Covering
  <2>2. /\ DOMAIN h \subseteq DOMAIN versions'[a]
        /\ versions'[a][i] = [h[i] EXCEPT !.to = d]
        /\ \A j \in DOMAIN h \ {i} : versions'[a][j] = h[j]
    BY <1>3, <2>1, SplitShape
  <2>3. h[i] \in Version
    BY <2>1
  <2>4. /\ versions'[a][i].text = h[i].text /\ versions'[a][i].from = h[i].from
        /\ versions'[a][i].status = h[i].status /\ versions'[a][i].prev = h[i].prev
    BY <2>2, <2>3 DEF Version
  <2> QED BY <2>2, <2>4
<1> QED BY <1>1, <1>2, <1>3, PublishSteps

\* The version a document that is published appends to the history of a target.
LEMMA PublishAppends ==
  ASSUME IInv, NEW m \in Amendments, Publish(m), NEW a \in Targets(m)
  PROVE  /\ a \in Articles /\ versions[a] \in Seq(Version)
         /\ DOMAIN versions'[a] = DOMAIN versions[a] \cup {Len(versions[a]) + 1}
         /\ versions'[a][Len(versions[a]) + 1] = NewVersion(m, a)
         /\ Len(versions[a]) + 1 \notin DOMAIN versions[a]
         /\ NewVersion(m, a).from = amendment[m].day
         /\ NewVersion(m, a).status # "DRAFT"
         /\ NewVersion(m, a).text = Outcome(amendment[m].ops[a], PreviousText(m, a))
         /\ Traces(amendment[m].ops[a], PreviousText(m, a)) # {}
         /\ NewVersion(m, a).prev < Len(versions[a]) + 1
         /\ IF NewVersion(m, a).prev = 0 THEN PreviousText(m, a) = <<>>
            ELSE /\ NewVersion(m, a).prev \in DOMAIN versions[a]
                 /\ PreviousText(m, a) = versions[a][NewVersion(m, a).prev].text
<1> DEFINE ops == amendment[m].ops[a]
           d == amendment[m].day
           h == versions[a]
           i == Before(h, d)
           t == Outcome(ops, PreviousText(m, a))
           s == NewStatus(ops, d)
           n == Len(h) + 1
<1>1. a \in Articles /\ h \in Seq(Version) /\ ops \in Seq(Operation) /\ d \in Days
  BY DEF IInv, TypeOK, Targets, History, Document
<1>2. ArticleAmendable(m, a) /\ versions'[a] = ApplyArticle(m, a)
  BY <1>1 DEF Publish
<1>3. t \in Text /\ Traces(ops, PreviousText(m, a)) # {}
  BY <1>1, <1>2, OutcomeType DEF ArticleAmendable
<1>4. s \in VersionStatus /\ s # "DRAFT"
  BY NewStatusType
<1>5. CASE Adds(ops)
  <2>1. NewVersion(m, a) = First(d, s, t) /\ PreviousText(m, a) = <<>>
    BY <1>5 DEF NewVersion, PreviousText
  <2>2. h = <<>> /\ versions'[a] = <<First(d, s, t)>>
    BY <1>1, <1>2, <1>5, <2>1 DEF ArticleAmendable, IInv, Fresh, ApplyArticle
  <2>3. Len(h) = 0 /\ DOMAIN h = {} /\ DOMAIN versions'[a] = {1}
    BY <2>2
  <2>4. /\ First(d, s, t).from = d /\ First(d, s, t).status = s /\ First(d, s, t).text = t
        /\ First(d, s, t).prev = 0
    BY DEF First
  <2> QED BY <1>1, <1>3, <1>4, <2>1, <2>2, <2>3, <2>4
<1>6. CASE ~Adds(ops)
  <2>1. NewVersion(m, a) = Successor(h, i, d, s, t) /\ PreviousText(m, a) = h[i].text
    BY <1>6 DEF NewVersion, PreviousText
  <2>2. i \in DOMAIN h /\ h[i].from < d /\ d < h[i].to
    BY <1>2, <1>6, BeforeFacts
  <2>3. /\ Successor(h, i, d, s, t).from = d /\ Successor(h, i, d, s, t).status = s
        /\ Successor(h, i, d, s, t).text = t /\ Successor(h, i, d, s, t).prev = i
    BY DEF Successor
  <2>4. versions'[a] = Append(Closed(h, i, d), Successor(h, i, d, s, t))
    BY <1>2, <1>6, <2>1, <2>3 DEF ApplyArticle
  <2>5. /\ DOMAIN versions'[a] = DOMAIN h \cup {n} /\ n \notin DOMAIN h
        /\ versions'[a][n] = Successor(h, i, d, s, t)
    <3> HIDE DEF i, s, t
    <3>1. LET g == Append(Closed(h, i, d), Successor(h, i, d, s, t))
          IN  /\ DOMAIN g = DOMAIN h \cup {n} /\ n \notin DOMAIN h
              /\ g[n] = Successor(h, i, d, s, t) /\ g[i] = [h[i] EXCEPT !.to = d]
      BY <1>1, <1>3, <1>4, <2>2, SplitShape
    <3> QED BY <2>4, <3>1
  <2>6. i < n /\ i # 0
    BY <1>1, <2>2
  <2> QED BY <1>1, <1>3, <1>4, <2>1, <2>2, <2>3, <2>5, <2>6
<1> QED BY <1>5, <1>6

\* Apart from Publish, a step leaves the register and the published documents
\* alone, and a history it changes had no version but a draft, and has one after.
LEMMA QuietRegister ==
  ASSUME RInv, [Next]_vars, \A m \in Amendments : ~Publish(m)
  PROVE  /\ modifications' = modifications
         /\ \A m \in Amendments :
              (amendment[m].status = "PUBLISHED" \/ amendment'[m].status = "PUBLISHED")
                => amendment'[m] = amendment[m]
         /\ \A a \in Articles :
              \/ versions'[a] = versions[a]
              \/ /\ \A i \in DOMAIN versions[a] : versions[a][i].status = "DRAFT"
                 /\ DOMAIN versions'[a] \subseteq {1}
<1>1. TypeOK /\ \A b \in Articles : History(versions[b])
  BY DEF RInv, IInv
<1>2. \A b \in Articles : InDraft(b) => DOMAIN versions[b] = {1} /\ Len(versions[b]) = 1
  BY <1>1, DraftAlone DEF InDraft, Latest
<1>3. modifications' = modifications
  BY DEF Next, Tick, DraftSteps, CreateArticle, UpdateDraftArticle, UpdateDraftArticleMetadata,
         Transition, AmendmentSteps, Save, Review, DeleteAmendment, LifecycleSteps, Disable,
         Enable, DeleteArticle, vars
<1>4. SUFFICES ASSUME TRUE
               PROVE  /\ \A m \in Amendments :
                           (amendment[m].status = "PUBLISHED" \/ amendment'[m].status = "PUBLISHED")
                             => amendment'[m] = amendment[m]
                      /\ \A a \in Articles :
                           versions'[a] # versions[a] => DOMAIN versions'[a] \subseteq {1}
  BY <1>3, DraftOnlySteps DEF RInv
<1>5. CASE \E m \in Amendments : \/ \E d \in EffectDays, ops \in Contents : Save(m, d, ops)
                                 \/ Review(m) \/ DeleteAmendment(m)
  <2>1. PICK m \in Amendments : \/ \E d \in EffectDays, ops \in Contents : Save(m, d, ops)
                                \/ Review(m) \/ DeleteAmendment(m)
    BY <1>5
  <2>2. UNCHANGED versions
    BY <2>1 DEF Save, Review, DeleteAmendment
  <2>3. amendment[m].status # "PUBLISHED"
    BY <2>1 DEF Save, Review, DeleteAmendment
  <2>4. \E x : amendment' = [amendment EXCEPT ![m] = x] /\ x.status # "PUBLISHED"
    <3>1. amendment[m] \in Document
      BY <1>1 DEF TypeOK
    <3>2. [amendment[m] EXCEPT !.status = "REVIEWED"].status = "REVIEWED"
      BY <3>1 DEF Document
    <3>3. [amendment[m] EXCEPT !.status = "DELETED"].status = "DELETED"
      BY <3>1 DEF Document
    <3>4. CASE \E d \in EffectDays, ops \in Contents : Save(m, d, ops)
      <4>1. PICK d \in EffectDays, ops \in Contents : Save(m, d, ops)
        BY <3>4
      <4>2. [status |-> "DRAFT", day |-> d, ops |-> ops].status # "PUBLISHED"
        OBVIOUS
      <4> QED BY <4>1, <4>2 DEF Save
    <3> QED BY <2>1, <3>2, <3>3, <3>4 DEF Review, DeleteAmendment
  <2> QED BY <1>1, <2>2, <2>3, <2>4 DEF TypeOK
<1>6. CASE DraftSteps
  <2>1. PICK b \in Articles, t \in DraftTexts :
          \/ UpdateDraftArticle(b, t)
          \/ \E d \in DraftDays : CreateArticle(b, d, t) \/ UpdateDraftArticleMetadata(b, d, t)
    BY <1>6 DEF DraftSteps
  <2>2. UNCHANGED amendment
    BY <2>1 DEF UpdateDraftArticle, CreateArticle, UpdateDraftArticleMetadata
  <2>3. \E g : versions' = [versions EXCEPT ![b] = g] /\ DOMAIN g \subseteq {1}
    <3>1. CASE \E d \in DraftDays : CreateArticle(b, d, t)
      <4>1. PICK d \in DraftDays : CreateArticle(b, d, t)
        BY <3>1
      <4>2. DOMAIN <<First(d, "DRAFT", t)>> = {1}
        OBVIOUS
      <4> QED BY <4>1, <4>2 DEF CreateArticle
    <3>2. CASE \/ UpdateDraftArticle(b, t)
               \/ \E d \in DraftDays : UpdateDraftArticleMetadata(b, d, t)
      <4>1. InDraft(b) /\ \E v : versions' = [versions EXCEPT ![b][Len(versions[b])] = v]
        BY <3>2 DEF UpdateDraftArticle, UpdateDraftArticleMetadata, RewriteLatest
      <4>2. PICK v :
              versions' = [versions EXCEPT ![b] = [versions[b] EXCEPT ![Len(versions[b])] = v]]
        BY <1>1, <4>1 DEF TypeOK
      <4>3. DOMAIN [versions[b] EXCEPT ![Len(versions[b])] = v] = DOMAIN versions[b]
        OBVIOUS
      <4> QED BY <1>2, <4>1, <4>2, <4>3
    <3> QED BY <2>1, <3>1, <3>2
  <2> QED BY <1>1, <2>2, <2>3 DEF TypeOK
<1>7. CASE \E target \in LawStatus : Transition(target)
  <2>1. UNCHANGED amendment
    BY <1>7 DEF Transition
  <2>2. \/ UNCHANGED versions
        \/ versions' = [b \in Articles |->
                         IF InDraft(b)
                         THEN [versions[b] EXCEPT ![Len(versions[b])].status = "PUBLISHED"]
                         ELSE versions[b]]
    BY <1>7 DEF Transition, PublishCurrentDraftArticles
  <2>3. \A b \in Articles :
          DOMAIN [versions[b] EXCEPT ![Len(versions[b])].status = "PUBLISHED"] = DOMAIN versions[b]
    OBVIOUS
  <2> QED BY <1>2, <2>1, <2>2, <2>3
<1>8. CASE Tick \/ LifecycleSteps \/ UNCHANGED vars
  BY <1>8 DEF Tick, LifecycleSteps, Disable, Enable, DeleteArticle, vars
<1> QED BY <1>5, <1>6, <1>7, <1>8 DEF Next, AmendmentSteps

-----------------------------------------------------------------------------
\* What publishing leaves behind.

LEMMA WholeInit == Init => Whole
  BY DEF Init, Whole, AtPublic, PublicStatus

\* Publishing the drafts of a law leaves no draft: the newest version of an article
\* tells whether it has one.
LEMMA PublishedUndrafted ==
  ASSUME NEW h, History(h), h # <<>>
  PROVE  /\ h[Len(h)].status # "DRAFT" => Undrafted(h)
         /\ LET g == [h EXCEPT ![Len(h)].status = "PUBLISHED"]
            IN  h[Len(h)].status = "DRAFT" => g # <<>> /\ Undrafted(g)
<1>1. h \in Seq(Version) /\ Len(h) \in DOMAIN h /\ DOMAIN h = 1..Len(h)
  BY DEF History
<1>2. ASSUME h[Len(h)].status # "DRAFT", NEW i \in DOMAIN h PROVE h[i].status # "DRAFT"
  <2>1. SUFFICES ASSUME h[i].status = "DRAFT" PROVE FALSE
    OBVIOUS
  <2>2. Len(h) = 1
    BY <2>1 DEF History, Drafts
  <2>3. i = Len(h)
    BY <1>1, <2>2
  <2> QED BY <1>2, <2>1, <2>3
<1>3. ASSUME h[Len(h)].status = "DRAFT"
      PROVE  LET g == [h EXCEPT ![Len(h)].status = "PUBLISHED"] IN g # <<>> /\ Undrafted(g)
  <2> DEFINE v == [h[Len(h)] EXCEPT !.status = "PUBLISHED"]
             g == [h EXCEPT ![Len(h)] = v]
  <2>1. Len(h) = 1 /\ DOMAIN h = {1} /\ h[1] \in Version
    BY <1>3, DraftAlone
  <2>2. v.status = "PUBLISHED"
    BY <2>1 DEF Version
  <2>3. DOMAIN g = {1} /\ g[1] = v
    BY <2>1
  <2>4. g # <<>>
    BY <2>3
  <2> QED BY <2>2, <2>3, <2>4 DEF Undrafted
<1> QED BY <1>2, <1>3 DEF Undrafted

LEMMA WholeTransition ==
  ASSUME RInv, NEW target \in LawStatus, Transition(target)
  PROVE  Whole'
<1>1. /\ Whole /\ \A a \in Articles : History(versions[a])
      /\ \A a \in Articles : article[a] = "PRESENT" => versions[a] # <<>>
  BY DEF RInv, IInv, Whole
<1>2. lawStatus' = target /\ UNCHANGED article
  BY DEF Transition
<1>3. CASE target = "PUBLISHED"
  <2>1. versions' = [a \in Articles |->
                       IF InDraft(a)
                       THEN [versions[a] EXCEPT ![Len(versions[a])].status = "PUBLISHED"]
                       ELSE versions[a]]
    BY <1>3 DEF Transition, PublishCurrentDraftArticles
  <2>2. ASSUME NEW a \in Articles, article[a] = "PRESENT"
        PROVE  versions'[a] # <<>> /\ Undrafted(versions'[a])
    <3>1. CASE InDraft(a)
      <4>1. versions'[a] = [versions[a] EXCEPT ![Len(versions[a])].status = "PUBLISHED"]
        BY <2>1, <3>1
      <4> QED BY <1>1, <3>1, <4>1, PublishedUndrafted DEF InDraft, Latest
    <3>2. CASE ~InDraft(a)
      <4>1. versions'[a] = versions[a] /\ versions[a] # <<>>
        BY <1>1, <2>1, <2>2, <3>2
      <4>2. Undrafted(versions[a])
        BY <1>1, <2>2, <3>2, <4>1, PublishedUndrafted DEF InDraft, Latest
      <4> QED BY <4>1, <4>2
    <3> QED BY <3>1, <3>2
  <2> QED BY <1>2, <2>2 DEF Whole, Undrafted
<1>4. CASE target # "PUBLISHED"
  <2>1. UNCHANGED versions
    BY <1>4 DEF Transition
  <2>2. AtPublic' => AtPublic
    <3>1. PICK rule \in Transitions : rule.from = lawStatus /\ rule.to = target
      BY DEF Transition
    <3>2. rule.to \in PublicStatus \cup {"ARCHIVED"} => rule.from \in PublicStatus
      BY <1>4, <3>1 DEF Transitions, PublicStatus
    <3> QED BY <1>2, <3>1, <3>2 DEF AtPublic
  <2> QED BY <1>1, <1>2, <2>1, <2>2 DEF Whole, Undrafted
<1> QED BY <1>3, <1>4

LEMMA WholePublish ==
  ASSUME RInv, NEW m \in Amendments, Publish(m)
  PROVE  Whole'
<1>1. IInv /\ Whole /\ lawStatus \in PublicStatus /\ AtPublic
  BY DEF RInv, Publish, LawAmendable, AtPublic
<1>2. SUFFICES ASSUME NEW a \in Articles, article'[a] = "PRESENT"
               PROVE  versions'[a] # <<>> /\ Undrafted(versions'[a])
  BY DEF Whole, Undrafted
<1>3. CASE a \in Targets(m)
  <2> DEFINE n == Len(versions[a]) + 1
  <2>1. /\ DOMAIN versions'[a] = DOMAIN versions[a] \cup {n}
        /\ versions'[a][n] = NewVersion(m, a) /\ NewVersion(m, a).status # "DRAFT"
    BY <1>1, <1>3, PublishAppends
  <2>2. \A j \in DOMAIN versions[a] : versions'[a][j].status = versions[a][j].status
    BY <1>1, PublishKeeps
  <2>3. Undrafted(versions[a])
    <3>1. article[a] = "PRESENT" \/ article[a] = "ABSENT"
      BY <1>3 DEF Publish, ArticleAmendable
    <3>2. CASE article[a] = "PRESENT"
      BY <1>1, <3>2 DEF Whole
    <3>3. CASE article[a] = "ABSENT"
      <4>1. versions[a] = <<>>
        BY <1>1, <3>3 DEF IInv, Fresh
      <4> QED BY <4>1 DEF Undrafted
    <3> QED BY <3>1, <3>2, <3>3
  <2>4. versions'[a] # <<>>
    <3> HIDE DEF n
    <3>1. n \in DOMAIN versions'[a]
      BY <2>1
    <3> QED BY <3>1
  <2> QED BY <2>1, <2>2, <2>3, <2>4 DEF Undrafted
<1>4. CASE a \notin Targets(m)
  <2>1. versions'[a] = versions[a] /\ article'[a] = article[a]
    BY <1>4 DEF Publish
  <2> QED BY <1>1, <1>2, <2>1 DEF Whole
<1> QED BY <1>3, <1>4

LEMMA WholeInv == RInv /\ [Next]_vars => Whole'
<1> SUFFICES ASSUME RInv, [Next]_vars PROVE Whole'
  OBVIOUS
<1>1. Whole /\ TypeOK
  BY DEF RInv, IInv
<1>2. CASE DraftSteps
  <2>1. PICK b \in Articles, t \in DraftTexts :
          \/ UpdateDraftArticle(b, t)
          \/ \E d \in DraftDays : CreateArticle(b, d, t) \/ UpdateDraftArticleMetadata(b, d, t)
    BY <1>2 DEF DraftSteps
  <2>2. lawStatus' = lawStatus /\ ~AtPublic
    BY <2>1 DEF UpdateDraftArticle, CreateArticle, UpdateDraftArticleMetadata, AtPublic,
                PublicStatus
  <2>3. \A a \in Articles : article'[a] = "PRESENT" => versions'[a] # <<>>
    <3>1. CASE \E d \in DraftDays : CreateArticle(b, d, t)
      <4>1. PICK d \in DraftDays : CreateArticle(b, d, t)
        BY <3>1
      <4>2. <<First(d, "DRAFT", t)>> # <<>>
        OBVIOUS
      <4> QED BY <1>1, <4>1, <4>2 DEF CreateArticle, TypeOK, Whole
    <3>2. CASE \/ UpdateDraftArticle(b, t)
               \/ \E d \in DraftDays : UpdateDraftArticleMetadata(b, d, t)
      <4>1. UNCHANGED article /\ InDraft(b)
        BY <3>2 DEF UpdateDraftArticle, UpdateDraftArticleMetadata
      <4>2. \E v : versions' = [versions EXCEPT ![b] = [versions[b] EXCEPT ![Len(versions[b])] = v]]
        BY <3>2, <1>1 DEF UpdateDraftArticle, UpdateDraftArticleMetadata, RewriteLatest, TypeOK
      <4>3. \A v : [versions[b] EXCEPT ![Len(versions[b])] = v] # <<>>
        <5>1. TAKE v
        <5>2. versions[b] \in Seq(Version) /\ versions[b] # <<>>
          BY <1>1, <4>1 DEF TypeOK, InDraft
        <5>3. 1 \in DOMAIN versions[b]
          BY <5>2
        <5>4. 1 \in DOMAIN [versions[b] EXCEPT ![Len(versions[b])] = v]
          BY <5>3
        <5> HIDE <5>2
        <5> QED BY <5>4
      <4> QED BY <1>1, <4>1, <4>2, <4>3 DEF TypeOK, Whole
    <3> QED BY <2>1, <3>1, <3>2
  <2> QED BY <2>2, <2>3 DEF Whole, AtPublic
<1>3. CASE \E target \in LawStatus : Transition(target)
  BY <1>3, WholeTransition
<1>4. CASE \E m \in Amendments : Publish(m)
  BY <1>4, WholePublish
<1>5. CASE /\ UNCHANGED <<lawStatus, versions>>
           /\ \A a \in Articles : article'[a] = "PRESENT" => article[a] = "PRESENT"
  BY <1>1, <1>5 DEF Whole, AtPublic, Undrafted
<1>6. Tick \/ UNCHANGED vars => UNCHANGED <<lawStatus, versions, article>>
  BY DEF Tick, vars
<1>7. ASSUME NEW m \in Amendments,
             \/ \E d \in EffectDays, ops \in Contents : Save(m, d, ops)
             \/ Review(m)
             \/ DeleteAmendment(m)
      PROVE  UNCHANGED <<lawStatus, versions, article>>
  BY <1>7 DEF Save, Review, DeleteAmendment
<1>8. ASSUME LifecycleSteps
      PROVE  /\ UNCHANGED <<lawStatus, versions>>
             /\ \A a \in Articles : article'[a] = "PRESENT" => article[a] = "PRESENT"
  <2>1. CASE \E r \in Records : Disable(r) \/ Enable(r)
    BY <2>1 DEF Disable, Enable
  <2>2. CASE \E a \in Articles : DeleteArticle(a)
    BY <1>1, <2>2 DEF DeleteArticle, TypeOK
  <2> QED BY <1>8, <2>1, <2>2 DEF LifecycleSteps
<1> QED BY <1>2, <1>3, <1>4, <1>5, <1>6, <1>7, <1>8 DEF Next, AmendmentSteps

-----------------------------------------------------------------------------
\* The register explains the history.

LEMMA RegisterInit == Init => Register
<1> SUFFICES ASSUME Init PROVE Register
  OBVIOUS
<1>1. modifications = {} /\ \A a \in Articles : DOMAIN versions[a] = {}
  BY DEF Init
<1>2. \A m \in Amendments : amendment[m].status = "ABSENT"
  BY DEF Init
<1>3. \A m \in Amendments : Recorded(m) = {}
  BY <1>1 DEF Recorded
<1> QED BY <1>1, <1>2, <1>3 DEF Register

LEMMA RegisterQuiet ==
  ASSUME RInv, [Next]_vars, \A m \in Amendments : ~Publish(m)
  PROVE  Register'
<1>1. TypeOK /\ Register
  BY DEF RInv, IInv
<1>2. /\ modifications' = modifications
      /\ \A m \in Amendments :
           (amendment[m].status = "PUBLISHED" \/ amendment'[m].status = "PUBLISHED")
             => amendment'[m] = amendment[m]
      /\ \A a \in Articles :
           \/ versions'[a] = versions[a]
           \/ /\ \A i \in DOMAIN versions[a] : versions[a][i].status = "DRAFT"
              /\ DOMAIN versions'[a] \subseteq {1}
  BY QuietRegister
<1>3. ASSUME NEW x \in modifications
      PROVE  /\ Explained(x, amendment'[x.amendment], versions'[x.article])
             /\ versions'[x.article][x.after].status # "DRAFT"
  <2>1. x.amendment \in Amendments /\ x.article \in Articles
    BY <1>1 DEF TypeOK, Modification
  <2>2. /\ Explained(x, amendment[x.amendment], versions[x.article])
        /\ versions[x.article][x.after].status # "DRAFT"
    BY <1>1 DEF Register
  <2>3. amendment'[x.amendment] = amendment[x.amendment]
    BY <1>2, <2>1, <2>2 DEF Explained
  <2>4. versions'[x.article] = versions[x.article]
    BY <1>2, <2>1, <2>2 DEF Explained
  <2> QED BY <2>2, <2>3, <2>4
<1>4. ASSUME NEW a \in Articles, NEW i \in DOMAIN versions'[a] \ {1}
      PROVE  Cardinality(Entries(a, i)') = 1
  <2>1. versions'[a] = versions[a] /\ Entries(a, i)' = Entries(a, i)
    BY <1>2, <1>4 DEF Entries
  <2> QED BY <1>1, <1>4, <2>1 DEF Register
<1>5. ASSUME NEW m \in Amendments
      PROVE  Recorded(m)' = IF amendment'[m].status = "PUBLISHED" THEN Targets(m)' ELSE {}
  <2>1. Recorded(m)' = Recorded(m)
    BY <1>2 DEF Recorded
  <2>2. Recorded(m) = IF amendment[m].status = "PUBLISHED" THEN Targets(m) ELSE {}
    BY <1>1 DEF Register
  <2>3. amendment'[m] = amendment[m] => Targets(m)' = Targets(m)
    BY DEF Targets
  <2> QED BY <1>2, <2>1, <2>2, <2>3
<1> QED BY <1>2, <1>3, <1>4, <1>5 DEF Register

\* What document m writes to the register about article a.
Entry(m, a) ==
  [amendment |-> m, article |-> a, before |-> NewVersion(m, a).prev,
   after |-> Len(versions[a]) + 1, previous |-> PreviousText(m, a),
   new |-> NewVersion(m, a).text]

LEMMA RegisterPublish ==
  ASSUME RInv, NEW m \in Amendments, Publish(m)
  PROVE  Register'
<1>1. TypeOK /\ Register /\ IInv
  BY DEF RInv, IInv
<1>2. amendment[m] \in Document /\ amendment[m].status = "REVIEWED"
  BY <1>1 DEF TypeOK, Publish
<1>3. /\ amendment'[m] = [amendment[m] EXCEPT !.status = "PUBLISHED"]
      /\ \A k \in Amendments \ {m} : amendment'[k] = amendment[k]
  BY <1>1 DEF Publish, TypeOK
<1>4. /\ amendment'[m].status = "PUBLISHED" /\ amendment'[m].ops = amendment[m].ops
      /\ amendment'[m].day = amendment[m].day
  BY <1>2, <1>3 DEF Document
<1>5. modifications' = modifications \cup {Entry(m, a) : a \in Targets(m)}
  BY DEF Publish, Entry
<1>6. \A a \in Targets(m) :
        /\ a \in Articles
        /\ DOMAIN versions'[a] = DOMAIN versions[a] \cup {Len(versions[a]) + 1}
        /\ Len(versions[a]) + 1 \notin DOMAIN versions[a]
  BY <1>1, PublishAppends
<1>7. ASSUME NEW x \in modifications
      PROVE  /\ x.amendment \in Amendments \ {m} /\ x.article \in Articles
             /\ x.after \in DOMAIN versions[x.article]
             /\ Explained(x, amendment'[x.amendment], versions'[x.article])
             /\ versions'[x.article][x.after].status # "DRAFT"
  <2>1. x.amendment \in Amendments /\ x.article \in Articles /\ x.before \in Nat
    BY <1>1 DEF TypeOK, Modification
  <2>2. /\ Explained(x, amendment[x.amendment], versions[x.article])
        /\ versions[x.article][x.after].status # "DRAFT"
    BY <1>1 DEF Register
  <2>3. x.amendment # m /\ x.after \in DOMAIN versions[x.article] /\ x.before < x.after
    BY <1>2, <2>2 DEF Explained
  <2>4. x.before # 0 => x.before \in DOMAIN versions[x.article]
    <3>1. versions[x.article] \in Seq(Version)
      BY <1>1, <2>1 DEF TypeOK
    <3> QED BY <2>1, <2>3, <3>1
  <2>5. amendment'[x.amendment] = amendment[x.amendment]
    BY <1>3, <2>1, <2>3
  <2>6. /\ DOMAIN versions[x.article] \subseteq DOMAIN versions'[x.article]
        /\ \A j \in DOMAIN versions[x.article] :
             /\ versions'[x.article][j].text = versions[x.article][j].text
             /\ versions'[x.article][j].from = versions[x.article][j].from
             /\ versions'[x.article][j].status = versions[x.article][j].status
             /\ versions'[x.article][j].prev = versions[x.article][j].prev
    BY <1>1, <2>1, PublishKeeps
  <2> QED BY <2>1, <2>2, <2>3, <2>4, <2>5, <2>6 DEF Explained
<1>8. ASSUME NEW a \in Targets(m)
      PROVE  LET x == Entry(m, a)
             IN  /\ Explained(x, amendment'[x.amendment], versions'[x.article])
                 /\ versions'[x.article][x.after].status # "DRAFT"
  <2> DEFINE n == Len(versions[a]) + 1
             v == NewVersion(m, a)
             t == PreviousText(m, a)
  <2>1. /\ a \in Articles /\ n \in DOMAIN versions'[a] /\ versions'[a][n] = v
        /\ v.from = amendment[m].day /\ v.status # "DRAFT" /\ v.prev < n
        /\ v.text = Outcome(amendment[m].ops[a], t) /\ Traces(amendment[m].ops[a], t) # {}
        /\ IF v.prev = 0 THEN t = <<>>
           ELSE v.prev \in DOMAIN versions[a] /\ t = versions[a][v.prev].text
    BY <1>1, PublishAppends
  <2>2. v.prev # 0 => versions'[a][v.prev].text = t
    <3>1. \A j \in DOMAIN versions[a] : versions'[a][j].text = versions[a][j].text
      BY <1>1, <2>1, PublishKeeps
    <3> QED BY <2>1, <3>1
  <2>3. /\ Entry(m, a).amendment = m /\ Entry(m, a).article = a /\ Entry(m, a).before = v.prev
        /\ Entry(m, a).after = n /\ Entry(m, a).previous = t /\ Entry(m, a).new = v.text
    BY DEF Entry
  <2> HIDE DEF n, v, t
  <2> QED BY <1>4, <2>1, <2>2, <2>3 DEF Explained
<1>9. ASSUME NEW a \in Articles, NEW i \in DOMAIN versions'[a] \ {1}
      PROVE  Cardinality(Entries(a, i)') = 1
  <2>1. \A b \in Targets(m) :
          Entry(m, b).article = b /\ Entry(m, b).after = Len(versions[b]) + 1
    BY DEF Entry
  <2>2. CASE i \in DOMAIN versions[a]
    <3>1. Entries(a, i)' = Entries(a, i)
      BY <1>5, <1>6, <2>1, <2>2 DEF Entries
    <3> QED BY <1>1, <1>9, <2>2, <3>1 DEF Register
  <2>3. CASE i \notin DOMAIN versions[a]
    <3>1. a \in Targets(m) /\ i = Len(versions[a]) + 1
      <4>1. a \in Targets(m)
        BY <1>9, <2>3 DEF Publish
      <4> QED BY <1>6, <1>9, <2>3, <4>1
    <3>2. Entries(a, i)' = {Entry(m, a)}
      <4>1. \A x \in modifications : ~(x.article = a /\ x.after = i)
        BY <1>7, <2>3
      <4> QED BY <1>5, <2>1, <3>1, <4>1 DEF Entries
    <3> QED BY <3>2, FS_Singleton
  <2> QED BY <2>2, <2>3
<1>10. ASSUME NEW k \in Amendments
       PROVE  Recorded(k)' = IF amendment'[k].status = "PUBLISHED" THEN Targets(k)' ELSE {}
  <2>1. Recorded(k) = IF amendment[k].status = "PUBLISHED" THEN Targets(k) ELSE {}
    BY <1>1 DEF Register
  <2>2. \A a \in Targets(m) : Entry(m, a).amendment = m /\ Entry(m, a).article = a
    BY DEF Entry
  <2>3. CASE k = m
    <3>1. Recorded(m) = {}
      BY <1>2, <2>1, <2>3
    <3>2. Recorded(m)' = {Entry(m, a).article : a \in Targets(m)}
      BY <1>5, <2>2, <3>1 DEF Recorded
    <3>3. Recorded(m)' = Targets(m)
      BY <2>2, <3>2
    <3>4. Targets(m)' = Targets(m)
      BY <1>4 DEF Targets
    <3> QED BY <1>4, <2>3, <3>3, <3>4
  <2>4. CASE k # m
    <3>1. Recorded(k)' = Recorded(k)
      BY <1>5, <2>2, <2>4 DEF Recorded
    <3>2. amendment'[k] = amendment[k]
      BY <1>3, <2>4
    <3>3. Targets(k)' = Targets(k)
      BY <3>2 DEF Targets
    <3> QED BY <2>1, <3>1, <3>2, <3>3
  <2> QED BY <2>3, <2>4
<1> QED BY <1>5, <1>7, <1>8, <1>9, <1>10 DEF Register

LEMMA RegisterInvariance == Spec => []RInv
<1>1. Init => RInv
  BY InitInv, WholeInit, RegisterInit DEF RInv
<1>2. RInv /\ [Next]_vars => RInv'
  BY NextInv, WholeInv, RegisterQuiet, RegisterPublish DEF RInv
<1> QED BY <1>1, <1>2, PTL DEF Spec

\* A law that is published or archived has no draft version left in any article,
\* disabled articles included: publishing it publishes them all, and no later step lets
\* a draft into it (publishCurrentDraftArticles).  Of the amendment documents it says
\* nothing; RegisterExplainsHistory does.
THEOREM PublicationIsWhole == Spec => []PublishedWhole
<1>1. RInv => PublishedWhole
  BY DEF RInv, Whole, AtPublic, Undrafted, PublishedWhole
<1> QED BY <1>1, RegisterInvariance, PTL

\* Every version an amendment made is accounted for by exactly one entry of the
\* register, which names its document, the text before and the text after; and a
\* published document is recorded for all of its articles (applyArticle, publish).
THEOREM RegisterExplainsHistory == Spec => []HistoryExplained
<1>1. RInv => HistoryExplained
  BY DEF RInv, Register, Explained, Entries, Recorded, HistoryExplained
<1> QED BY <1>1, RegisterInvariance, PTL

-----------------------------------------------------------------------------
(***************************************************************************)
(* ArticleTimeline implements TextHistory: tables, statuses and periods add *)
(* up to one text in force per article and day, which publications begin    *)
(* and amendments change from their effective day on, to the end of the     *)
(* period that day falls into and no further.                               *)
(***************************************************************************)

\* The text in force on each day according to one history.
ForceOf(h) ==
  [d \in Days |-> IF Covering(h, d) = {} THEN NoPhrase ELSE h[Before(h, d)].text]

Silence == [d \in Days |-> NoPhrase]

\* The text t from day d on, after no text.
From(d, t) == [x \in Days |-> IF x < d THEN NoPhrase ELSE t]

LEMMA ForceAt ==
  ASSUME NEW h, History(h), NEW d \in Days, NEW i \in Covering(h, d)
  PROVE  ForceOf(h)[d] = h[i].text
<1>1. i = Before(h, d)
  BY CoveringUnique DEF History
<1> QED BY <1>1 DEF ForceOf

LEMMA DraftSilent ==
  ASSUME NEW h, \A i \in DOMAIN h : h[i].status = "DRAFT"
  PROVE  ForceOf(h) = Silence
<1>1. \A d \in Days : Covering(h, d) = {}
  BY DEF Covering
<1> QED BY <1>1 DEF ForceOf, Silence

LEMMA FirstForce ==
  ASSUME NEW h, History(h), DOMAIN h = {1}, h[1].status # "DRAFT", h[1].to = Open
  PROVE  ForceOf(h) = From(h[1].from, h[1].text)
<1>1. h[1] \in Version
  BY DEF History
<1>2. SUFFICES ASSUME NEW d \in Days
               PROVE  ForceOf(h)[d] = IF d < h[1].from THEN NoPhrase ELSE h[1].text
  BY DEF ForceOf, From
<1>3. CASE d < h[1].from
  <2>1. ~(h[1].from <= d)
    BY <1>1, <1>3, VersionFields DEF Days
  <2>2. Covering(h, d) = {}
    BY <2>1 DEF Covering
  <2> QED BY <1>3, <2>2 DEF ForceOf
<1>4. CASE ~(d < h[1].from)
  <2>1. h[1].from <= d /\ d < h[1].to
    BY <1>1, <1>4, VersionFields, CalendarType DEF Days, Open
  <2>2. 1 \in Covering(h, d)
    BY <1>1, <2>1, VersionFields DEF Covering, VersionStatus
  <2> QED BY <1>4, <2>2, ForceAt
<1> QED BY <1>3, <1>4

\* The split changes the text from day d to the end of the covering period, where
\* it was the same before, and on the eve of d.
LEMMA SplitForce ==
  ASSUME NEW h, History(h), NEW d \in Days, NEW i \in Covering(h, d), h[i].from < d,
         NEW s \in VersionStatus \ {"DRAFT"}, NEW t \in Text
  PROVE  LET g == Append(Closed(h, i, d), Successor(h, i, d, s, t))
             e == h[i].to
         IN  /\ e \in (d + 1)..(LastDay + 1) /\ d - 1 \in Days
             /\ ForceOf(h)[d] \in Text
             /\ \A x \in (d - 1)..(e - 1) : ForceOf(h)[x] = ForceOf(h)[d]
             /\ ForceOf(g) = [x \in Days |-> IF d <= x /\ x < e THEN t ELSE ForceOf(h)[x]]
<1> DEFINE n == Len(h) + 1
           g == Append(Closed(h, i, d), Successor(h, i, d, s, t))
           e == h[i].to
<1>1. /\ h \in Seq(Version) /\ i \in DOMAIN h /\ h[i] \in Version /\ d < e
      /\ h[i].status \in {"PUBLISHED", "REPEALED", "FUTURE"} /\ s \in VersionStatus
      /\ s \in {"PUBLISHED", "REPEALED", "FUTURE"} /\ h[i].status # "DRAFT"
  BY DEF History, Covering, VersionStatus
<1>2. /\ g \in Seq(Version) /\ DOMAIN g = DOMAIN h \cup {n} /\ n \notin DOMAIN h
      /\ g[n] = Successor(h, i, d, s, t) /\ g[i] = [h[i] EXCEPT !.to = d]
      /\ \A j \in DOMAIN h \ {i} : g[j] = h[j]
  BY <1>1, SplitShape
<1>3. History(g)
  BY <1>1, SplitHistory
<1>4. /\ h[i].from \in Nat /\ h[i].from >= 1 /\ e \in Nat /\ e <= LastDay + 1
      /\ d \in Nat /\ d <= LastDay /\ LastDay \in Nat
  BY <1>1, VersionFields, CalendarType DEF Days, Open
<1>5. e \in (d + 1)..(LastDay + 1) /\ d - 1 \in Days
  BY <1>1, <1>4 DEF Days
<1>6. \A x \in (d - 1)..(e - 1) : x \in Days /\ i \in Covering(h, x)
  BY <1>1, <1>4 DEF Covering, Days
<1>7. \A x \in (d - 1)..(e - 1) : ForceOf(h)[x] = h[i].text
  BY <1>6, ForceAt
<1>8. ForceOf(h)[d] = h[i].text /\ h[i].text \in Text
  BY <1>1, ForceAt, VersionFields
<1>9. \A x \in Days : ForceOf(g)[x] = IF d <= x /\ x < e THEN t ELSE ForceOf(h)[x]
  <2>1. SUFFICES ASSUME NEW x \in Days
                 PROVE  ForceOf(g)[x] = IF d <= x /\ x < e THEN t ELSE ForceOf(h)[x]
    OBVIOUS
  <2> HIDE DEF g
  <2>2. CASE d <= x /\ x < e
    <3>1. g[n].status = s /\ g[n].from = d /\ g[n].to = e /\ g[n].text = t
      BY <1>2 DEF Successor
    <3>2. n \in Covering(g, x)
      BY <1>1, <1>2, <2>2, <3>1 DEF Covering
    <3> QED BY <1>3, <2>2, <3>1, <3>2, ForceAt
  <2>3. CASE ~(d <= x /\ x < e) /\ Covering(h, x) = {}
    <3>1. x \in Nat
      BY CalendarType DEF Days
    <3>2. Covering(g, x) = {}
      <4>1. n \notin Covering(g, x)
        BY <1>2, <2>3 DEF Covering, Successor
      <4>2. i \notin Covering(g, x)
        <5>1. g[i].from = h[i].from /\ g[i].to = d
          BY <1>1, <1>2 DEF Version
        <5>2. ~(h[i].from <= x /\ x < d)
          <6>1. ~(h[i].from <= x /\ x < e)
            BY <1>1, <2>3 DEF Covering
          <6> QED BY <1>1, <1>4, <3>1, <6>1
        <5> QED BY <5>1, <5>2 DEF Covering
      <4>3. \A j \in DOMAIN h \ {i} : j \notin Covering(g, x)
        BY <1>2, <2>3 DEF Covering
      <4>4. Covering(g, x) \subseteq DOMAIN h \cup {n}
        BY <1>2 DEF Covering
      <4> QED BY <4>1, <4>2, <4>3, <4>4
    <3> QED BY <2>3, <3>2 DEF ForceOf
  <2>4. CASE ~(d <= x /\ x < e) /\ Covering(h, x) # {}
    <3>1. PICK j \in Covering(h, x) : TRUE
      BY <2>4
    <3>2. x \in Nat
      BY CalendarType DEF Days
    <3>3. CASE j # i
      <4>1. j \in Covering(g, x) /\ g[j] = h[j]
        BY <1>2, <3>1, <3>3 DEF Covering
      <4>2. ForceOf(g)[x] = h[j].text
        BY <1>3, <4>1, ForceAt
      <4>3. ForceOf(h)[x] = h[j].text
        BY <3>1, ForceAt
      <4> QED BY <2>4, <4>2, <4>3
    <3>4. CASE j = i
      <4>1. x < d
        BY <1>4, <2>4, <3>1, <3>2, <3>4 DEF Covering
      <4>2. /\ g[i].status = h[i].status /\ g[i].from = h[i].from /\ g[i].to = d
            /\ g[i].text = h[i].text
        BY <1>1, <1>2 DEF Version
      <4>3. i \in Covering(g, x)
        BY <1>1, <1>2, <3>1, <3>4, <4>1, <4>2 DEF Covering
      <4>4. ForceOf(g)[x] = g[i].text
        BY <1>3, <4>3, ForceAt
      <4>5. ForceOf(h)[x] = h[i].text
        BY <3>1, <3>4, ForceAt
      <4> QED BY <2>4, <4>2, <4>4, <4>5
    <3> QED BY <3>3, <3>4
  <2> QED BY <2>2, <2>3, <2>4
<1>10. ForceOf(g) = [x \in Days |-> IF d <= x /\ x < e THEN t ELSE ForceOf(h)[x]]
  BY <1>9 DEF ForceOf
<1> QED BY <1>5, <1>7, <1>8, <1>10

-----------------------------------------------------------------------------
LEMMA InForceIs == InForce = [a \in Articles |-> ForceOf(versions[a])]
  BY DEF InForce, ForceOf

\* An article whose draft is published begins to have a text.
LEMMA PublishBegins ==
  ASSUME NEW h, History(h), h # <<>>, h[Len(h)].status = "DRAFT"
  PROVE  /\ ForceOf(h) = Silence
         /\ \E d \in Days, t \in Text :
              ForceOf([h EXCEPT ![Len(h)].status = "PUBLISHED"]) = From(d, t)
<1> DEFINE g == [h EXCEPT ![Len(h)].status = "PUBLISHED"]
<1>1. Len(h) = 1 /\ DOMAIN h = {1} /\ h[1].status = "DRAFT" /\ h[1] \in Version
  BY DraftAlone
<1>2. ForceOf(h) = Silence
  BY <1>1, DraftSilent
<1>3. h[1].to = Open
  BY <1>1 DEF History, Drafts
<1>4. /\ DOMAIN g = {1} /\ g[1].status = "PUBLISHED" /\ g[1].to = Open
      /\ g[1].from = h[1].from /\ g[1].text = h[1].text
  BY <1>1, <1>3 DEF Version
<1>5. ForceOf(g) = From(g[1].from, g[1].text)
  <2>1. History(g)
    BY PublishHistory
  <2> QED BY <1>4, <2>1, FirstForce
<1>6. g[1].from \in Days /\ g[1].text \in Text
  BY <1>1, <1>4, VersionFields
<1> QED BY <1>2, <1>5, <1>6

\* One step of the abstract specification per article.
AbstractBegins(a) ==
  /\ ForceOf(versions[a]) = Silence
  /\ \E d \in Days, t \in Text : ForceOf(versions'[a]) = From(d, t)

\* A step other than Publish lets the text of an article alone or begins it.
LEMMA DraftForce ==
  ASSUME IInv, [Next]_vars, \A m \in Amendments : ~Publish(m), NEW a \in Articles
  PROVE  ForceOf(versions'[a]) = ForceOf(versions[a]) \/ AbstractBegins(a)
<1>1. TypeOK /\ Fresh /\ \A b \in Articles : History(versions[b])
  BY DEF IInv
<1>2. CASE DraftSteps
  <2>1. PICK b \in Articles, t \in DraftTexts :
          \/ UpdateDraftArticle(b, t)
          \/ \E d \in DraftDays : CreateArticle(b, d, t) \/ UpdateDraftArticleMetadata(b, d, t)
    BY <1>2 DEF DraftSteps
  <2>2. PICK g : versions' = [versions EXCEPT ![b] = g]
    BY <2>1, <1>1 DEF UpdateDraftArticle, CreateArticle, UpdateDraftArticleMetadata, RewriteLatest
  <2>3. \/ /\ \A i \in DOMAIN versions[b] : versions[b][i].status = "DRAFT"
           /\ \A i \in DOMAIN g : g[i].status = "DRAFT"
    <3>1. CASE \E d \in DraftDays : CreateArticle(b, d, t)
      <4>1. PICK d \in DraftDays : CreateArticle(b, d, t)
        BY <3>1
      <4>2. versions[b] = <<>> /\ versions'[b] = <<First(d, "DRAFT", t)>>
        BY <4>1, <1>1 DEF CreateArticle, Fresh, TypeOK
      <4>3. g = <<First(d, "DRAFT", t)>>
        BY <4>2, <2>2, <1>1 DEF TypeOK
      <4> QED BY <4>2, <4>3 DEF First
    <3>2. CASE InDraft(b) /\ \E v : v.status = "DRAFT" /\ versions' = [versions EXCEPT ![b][Len(versions[b])] = v]
      <4>1. PICK v : v.status = "DRAFT" /\ versions' = [versions EXCEPT ![b][Len(versions[b])] = v]
        BY <3>2
      <4>2. /\ Len(versions[b]) = 1 /\ DOMAIN versions[b] = {1}
            /\ versions[b][1].status = "DRAFT"
        BY <1>1, <3>2, DraftAlone DEF InDraft, Latest
      <4>3. g = [versions[b] EXCEPT ![Len(versions[b])] = v]
        BY <4>1, <2>2, <1>1 DEF TypeOK
      <4> QED BY <4>1, <4>2, <4>3
    <3>3. CASE UpdateDraftArticle(b, t)
      <4>1. InDraft(b) /\ Latest(b) \in Version /\ Latest(b).status = "DRAFT"
        BY <3>3, <1>1 DEF UpdateDraftArticle, InDraft, Latest, TypeOK
      <4>2. [Latest(b) EXCEPT !.text = t].status = "DRAFT"
        BY <4>1 DEF Version
      <4> QED BY <3>2, <3>3, <4>1, <4>2 DEF UpdateDraftArticle, RewriteLatest
    <3>4. CASE \E d \in DraftDays : UpdateDraftArticleMetadata(b, d, t)
      <4>1. PICK d \in DraftDays : UpdateDraftArticleMetadata(b, d, t)
        BY <3>4
      <4>2. InDraft(b) /\ Latest(b) \in Version /\ Latest(b).status = "DRAFT"
        BY <4>1, <1>1 DEF UpdateDraftArticleMetadata, InDraft, Latest, TypeOK
      <4>3. [Latest(b) EXCEPT !.from = d, !.text = t].status = "DRAFT"
        BY <4>2 DEF Version
      <4> QED BY <3>2, <4>1, <4>2, <4>3 DEF UpdateDraftArticleMetadata, RewriteLatest
    <3> QED BY <2>1, <3>1, <3>3, <3>4
  <2>4. ForceOf(versions[b]) = Silence /\ ForceOf(g) = Silence
    BY <2>3, DraftSilent
  <2> QED BY <1>1, <2>2, <2>4 DEF TypeOK
<1>3. CASE \E target \in LawStatus : Transition(target)
  <2>1. PICK target \in LawStatus : Transition(target)
    BY <1>3
  <2>2. \/ UNCHANGED versions
        \/ versions'[a] = IF InDraft(a)
                          THEN [versions[a] EXCEPT ![Len(versions[a])].status = "PUBLISHED"]
                          ELSE versions[a]
    BY <2>1 DEF Transition, PublishCurrentDraftArticles
  <2>3. CASE InDraft(a) /\ versions'[a] = [versions[a] EXCEPT ![Len(versions[a])].status = "PUBLISHED"]
    BY <1>1, <2>3, PublishBegins DEF InDraft, Latest, AbstractBegins
  <2> QED BY <2>2, <2>3
<1>4. Tick \/ AmendmentSteps \/ LifecycleSteps \/ UNCHANGED vars => UNCHANGED versions
  BY DEF Tick, AmendmentSteps, Save, Review, DeleteAmendment, LifecycleSteps, Disable,
         Enable, DeleteArticle, vars
<1> QED BY <1>2, <1>3, <1>4 DEF Next

\* Publish lets the text of an article alone, begins it, or changes it from the
\* effective day to the end of the period the day falls into.
LEMMA PublishForce ==
  ASSUME IInv, NEW m \in Amendments, Publish(m), NEW a \in Articles
  PROVE  LET d == amendment[m].day
             f == ForceOf(versions[a])
         IN  \/ ForceOf(versions'[a]) = f
             \/ f = Silence /\ \E t \in Text : ForceOf(versions'[a]) = From(d, t)
             \/ /\ d - 1 \in Days /\ f[d] \in Text
                /\ \E t \in Text, e \in (d + 1)..(LastDay + 1) :
                     /\ \A x \in (d - 1)..(e - 1) : f[x] = f[d]
                     /\ ForceOf(versions'[a]) = [x \in Days |-> IF d <= x /\ x < e THEN t ELSE f[x]]
<1> DEFINE d == amendment[m].day
           h == versions[a]
<1>1. History(h) /\ d \in Days
  BY DEF IInv, TypeOK, Document
<1>2. CASE h = <<>> /\ \E s \in VersionStatus \ {"DRAFT"}, t \in Text : versions'[a] = <<First(d, s, t)>>
  <2>1. PICK s \in VersionStatus \ {"DRAFT"}, t \in Text : versions'[a] = <<First(d, s, t)>>
    BY <1>2
  <2> DEFINE g == <<First(d, s, t)>>
  <2>2. ForceOf(h) = Silence
    BY <1>2, DraftSilent
  <2>3. History(g) /\ DOMAIN g = {1}
    BY <1>1, FirstHistory
  <2>4. g[1].status # "DRAFT" /\ g[1].to = Open /\ g[1].from = d /\ g[1].text = t
    BY DEF First
  <2>5. ForceOf(g) = From(d, t)
    BY <2>3, <2>4, FirstForce
  <2> QED BY <2>1, <2>2, <2>5
<1>3. CASE \E i \in DOMAIN h, s \in VersionStatus \ {"DRAFT"}, t \in Text :
              /\ i \in Covering(h, d) /\ h[i].from < d
              /\ versions'[a] = Append(Closed(h, i, d), Successor(h, i, d, s, t))
  <2>1. PICK i \in DOMAIN h, s \in VersionStatus \ {"DRAFT"}, t \in Text :
              /\ i \in Covering(h, d) /\ h[i].from < d
              /\ versions'[a] = Append(Closed(h, i, d), Successor(h, i, d, s, t))
    BY <1>3
  <2> DEFINE e == h[i].to
  <2>2. /\ e \in (d + 1)..(LastDay + 1) /\ d - 1 \in Days
        /\ ForceOf(h)[d] \in Text
        /\ \A x \in (d - 1)..(e - 1) : ForceOf(h)[x] = ForceOf(h)[d]
        /\ ForceOf(versions'[a]) = [x \in Days |-> IF d <= x /\ x < e THEN t ELSE ForceOf(h)[x]]
    BY <1>1, <2>1, SplitForce
  <2> HIDE DEF e
  <2> QED BY <2>2
<1> QED BY <1>2, <1>3, PublishSteps

-----------------------------------------------------------------------------
LEMMA InitRefines == Init => TH!Init
<1> SUFFICES ASSUME Init PROVE TH!Init
  OBVIOUS
<1>1. \A a \in Articles : ForceOf(versions[a]) = Silence
  BY DraftSilent DEF Init
<1>2. InForce = [a \in Articles |-> Silence]
  BY <1>1, InForceIs
<1> QED BY <1>2 DEF TH!Init, Silence, TH!Days, Days

LEMMA StepRefines == IInv /\ [Next]_vars => [TH!Next]_InForce
<1> SUFFICES ASSUME IInv, [Next]_vars PROVE TH!Next
  OBVIOUS
<1>1. /\ InForce = [a \in Articles |-> ForceOf(versions[a])]
      /\ InForce' = [a \in Articles |-> ForceOf(versions'[a])]
  BY DEF InForce, ForceOf
<1>2. TH!Days = Days
  BY DEF TH!Days, Days
<1>3. \A a \in Articles : AbstractBegins(a) => \E d \in Days, t \in Text : TH!Begins(a, d, t)
  BY <1>1, <1>2 DEF AbstractBegins, TH!Begins, TH!Silent, Silence, From
<1>4. CASE \A m \in Amendments : ~Publish(m)
  <2>1. \A a \in Articles :
          InForce'[a] = InForce[a] \/ \E d \in Days, t \in Text : TH!Begins(a, d, t)
    BY <1>1, <1>3, <1>4, DraftForce
  <2>2. TH!Enact
    BY <1>1, <1>2, <2>1 DEF TH!Enact
  <2> QED BY <2>2 DEF TH!Next
<1>5. CASE \E m \in Amendments : Publish(m)
  <2>1. PICK m \in Amendments : Publish(m)
    BY <1>5
  <2> DEFINE d == amendment[m].day
  <2>2. d \in Days
    BY DEF IInv, TypeOK, Document
  <2>3. ASSUME NEW a \in Articles
        PROVE  \/ InForce'[a] = InForce[a]
               \/ \E t \in Text : TH!Begins(a, d, t)
               \/ \E t \in Text, e \in (d + 1)..(LastDay + 1) : TH!Changes(a, d, e, t)
    <3> DEFINE f == ForceOf(versions[a])
    <3>1. CASE /\ d - 1 \in Days /\ f[d] \in Text
               /\ \E t \in Text, e \in (d + 1)..(LastDay + 1) :
                    /\ \A x \in (d - 1)..(e - 1) : f[x] = f[d]
                    /\ ForceOf(versions'[a]) = [x \in Days |-> IF d <= x /\ x < e THEN t ELSE f[x]]
      <4>1. PICK t \in Text, e \in (d + 1)..(LastDay + 1) :
                    /\ \A x \in (d - 1)..(e - 1) : f[x] = f[d]
                    /\ ForceOf(versions'[a]) = [x \in Days |-> IF d <= x /\ x < e THEN t ELSE f[x]]
        BY <3>1
      <4>2. f[d] # NoPhrase
        BY <3>1, TimelineAssumption
      <4>3. InForce[a] = f /\ InForce'[a] = ForceOf(versions'[a])
        BY <1>1
      <4>4. TH!Changes(a, d, e, t)
        BY <1>2, <3>1, <4>1, <4>2, <4>3 DEF TH!Changes
      <4> QED BY <4>4
    <3>2. CASE ForceOf(versions'[a]) = f
      BY <1>1, <3>2
    <3>3. CASE f = Silence /\ \E t \in Text : ForceOf(versions'[a]) = From(d, t)
      BY <1>1, <1>2, <3>3 DEF TH!Begins, TH!Silent, Silence, From
    <3> QED BY <2>1, <3>1, <3>2, <3>3, PublishForce
  <2>4. TH!Amend(d)
    BY <1>1, <2>3 DEF TH!Amend
  <2> QED BY <1>2, <2>2, <2>4 DEF TH!Next
<1> QED BY <1>4, <1>5

\* The article tables implement the promise about texts in force.
THEOREM TimelineImplementsTextHistory == Spec => TextsInForce
<1>1. Init => TH!Init
  BY InitRefines
<1>2. IInv /\ [Next]_vars => [TH!Next]_InForce
  BY StepRefines
<1> QED BY <1>1, <1>2, Invariance, PTL DEF Spec, TextsInForce, TH!Spec
=============================================================================
