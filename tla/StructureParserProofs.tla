------------------------ MODULE StructureParserProofs ------------------------
(***************************************************************************)
(* What the parser reads is what is written, for documents of every length *)
(* and any kinds of line: no induction over the document is needed, since  *)
(* the loop is a behaviour and its state carries what was read.  The       *)
(* invariant ParseInv says what each variable of the loop stands for in    *)
(* terms of the document: the active headings are those that govern the    *)
(* next line (ActiveHeadings), the open article is the last token read     *)
(* (LastToken), no title is still to come (ReadSoFar), the buffer holds    *)
(* the passage that is being left over (Collecting), and every line of     *)
(* text read so far is where it belongs (TextPlaced).                      *)
(***************************************************************************)
EXTENDS StructureParser, TLAPS

NodeRow == [level : Levels, parent : Nat, at : Nat, title : SUBSET Nat, order : Nat]
ArticleRow == [node : Nat, at : Nat, order : Nat, lines : Seq(Nat)]
IssueCodes ==
  {"UNASSIGNED_TEXT", "STRUCTURE_TITLE_MISSING", "UNRECOGNIZED_STRUCTURE_HEADING",
   "ARTICLE_MARKERS_NOT_FOUND", "STRUCTURE_NOT_DETECTED"}
IssueRow == [code : IssueCodes, sourceLine : Nat]

ParseTypes ==
  /\ doc \in Seq(LineKinds) /\ index \in 1..(Len(doc) + 1)
  /\ current \in [Levels -> 0..Len(nodes)]
  /\ nodes \in Seq(NodeRow)
  /\ articles \in Seq(ArticleRow)
  /\ currentArticle = <<>> \/ \E x \in ArticleRow : currentArticle = <<x>>
  /\ issues \in Seq(IssueRow)
  /\ preamble \in Seq(Nat) /\ unassigned \in Seq(Nat)
  /\ documentOrder \in Nat /\ sawLegalToken \in BOOLEAN
  /\ phase \in {"reading", "parsed", "drafted"}

\* Nodes and articles were made in the order of their lines and of their sort keys.
ReadInOrder ==
  /\ \A n \in DOMAIN nodes :
       nodes[n].at \in 1..(index - 1) /\ nodes[n].order \in 1..documentOrder
  /\ \A m, n \in DOMAIN nodes :
       m < n => nodes[m].at < nodes[n].at /\ nodes[m].order < nodes[n].order
  /\ \A a \in DOMAIN AllArticles :
       /\ AllArticles[a].at \in 0..(index - 1) /\ AllArticles[a].order \in 1..documentOrder
       /\ phase = "reading" => AllArticles[a].at # 0
       /\ AllArticles[a].node \in 0..Len(nodes)
  /\ \A a, b \in DOMAIN AllArticles :
       a < b => /\ AllArticles[a].at < AllArticles[b].at
                /\ AllArticles[a].order < AllArticles[b].order
  /\ \A n \in DOMAIN nodes, a \in DOMAIN AllArticles :
       AllArticles[a].at # 0 =>
         /\ nodes[n].at # AllArticles[a].at /\ nodes[n].order # AllArticles[a].order
         /\ nodes[n].at < AllArticles[a].at <=> nodes[n].order < AllArticles[a].order

\* The active headings are those that govern the next line.
ActiveHeadings ==
  /\ \A n \in DOMAIN nodes :
       IsStructureHeading(doc[nodes[n].at]) /\ doc[nodes[n].at].level = nodes[n].level
  /\ phase = "reading" =>
       /\ \A l \in Levels : current[l] # 0 =>
            nodes[current[l]].level = l /\ Governs(nodes[current[l]].at, index)
       /\ \A n \in DOMAIN nodes : Governs(nodes[n].at, index) => current[nodes[n].level] = n

\* What the last token before the next line is.
LastToken ==
  /\ sawLegalToken <=> \E k \in 1..(index - 1) : IsToken(k)
  /\ currentArticle # <<>> =>
       /\ currentArticle[1].at \in 1..(index - 1)
       /\ IsToken(currentArticle[1].at) /\ doc[currentArticle[1].at].what = "article"
       /\ \A k \in (currentArticle[1].at + 1)..(index - 1) : ~IsToken(k)
  /\ currentArticle = <<>> /\ sawLegalToken =>
       \E h \in 1..(index - 1) :
         /\ IsToken(h) /\ doc[h].what = "heading"
         /\ \A k \in (h + 1)..(index - 1) : ~IsToken(k)

\* Loose lines are being collected just as long as no token has come after them.
Collecting ==
  unassigned # <<>> <=>
    \E r \in 1..(index - 1) : Stray(r) /\ SamePassage(r, index - 1)

\* No heading that was read has its title still to come, and every line in the
\* result has been read.
ReadSoFar ==
  /\ \A h \in 1..(index - 1), t \in 1..Len(doc) : TitleOf(h, t) => t < index
  /\ \A i \in Elements(preamble) : i < index
  /\ \A n \in DOMAIN nodes : \A i \in nodes[n].title : i < index
  /\ \A i \in Nat : Noticed(issues, i) \/ Collected(i) => i < index
  /\ \A a \in DOMAIN AllArticles : \A i \in Elements(AllArticles[a].lines) : i < index

TextPlaced == \A i \in 1..(index - 1) : doc[i].what = "text" => LineInItsPlace(i)

DraftRows == [nodes |-> [i \in DOMAIN nodes |->
                      [level |-> nodes[i].level, parent |-> nodes[i].parent,
                       sort |-> nodes[i].order]],
         articles |-> [a \in DOMAIN articles |-> [node |-> articles[a].node, sort |-> a]]]

DraftIsParse ==
  /\ phase # "reading" => articles # <<>> /\ currentArticle = <<>>
  /\ phase = "drafted" => draft = DraftRows

ParseInv ==
  /\ ParseTypes /\ ReadInOrder /\ ActiveHeadings /\ HangsFromItsHeading
  /\ phase = "reading" => LastToken /\ ReadSoFar /\ Collecting /\ TextPlaced
  /\ DraftIsParse

-----------------------------------------------------------------------------
LEMMA HeadingLevels == \A k \in LineKinds : k.what = "heading" => k.level \in Levels
<1> DEFINE Headings == {Heading(l, f) : l \in Levels, f \in {"titled", "bare", "unread"}}
<1> SUFFICES ASSUME NEW k \in AllLineKinds, k.what = "heading" PROVE k.level \in Levels
  BY KindsAssumption
<1>0. \/ k \in Headings \/ k \in {Line("article", f) : f \in {"bodied", "bare", "glued"}}
      \/ k \in {Line("text", f) : f \in {"short", "sentence"}}
      \/ k \in {Line("blank", "empty"), Line("page", "marker")}
  BY DEF AllLineKinds
<1>1. CASE k \in Headings
  <2>1. \E l \in Levels, f \in {"titled", "bare", "unread"} : k = Heading(l, f)
    BY <1>1
  <2> QED BY <2>1 DEF Heading
<1>2. CASE k \in {Line("article", f) : f \in {"bodied", "bare", "glued"}}
  BY <1>2 DEF Line
<1>3. CASE k \in {Line("text", f) : f \in {"short", "sentence"}}
  BY <1>3 DEF Line
<1>4. CASE k \in {Line("blank", "empty"), Line("page", "marker")}
  BY <1>4 DEF Line
<1> QED BY <1>0, <1>1, <1>2, <1>3, <1>4

\* What is said of the document alone does not change.
LEMMA DocumentStays ==
  ASSUME doc' = doc
  PROVE  /\ \A h, t : TitleOf(h, t)' <=> TitleOf(h, t)
         /\ \A i : IsTitle(i)' <=> IsTitle(i)
         /\ \A i : IsToken(i)' <=> IsToken(i)
         /\ \A a, i : InArticle(a, i)' <=> InArticle(a, i)
         /\ \A h, i : Governs(h, i)' <=> Governs(h, i)
<1>1. \A h, t : TitleOf(h, t)' <=> TitleOf(h, t)
  BY Zenon DEF TitleOf
<1>2. \A i : IsTitle(i)' <=> IsTitle(i)
  BY <1>1, Zenon DEF IsTitle
<1>3. \A i : IsToken(i)' <=> IsToken(i)
  BY <1>2, Zenon DEF IsToken
<1>4. \A a, i : InArticle(a, i)' <=> InArticle(a, i)
  BY <1>3, Zenon DEF InArticle
<1>5. \A h, i : Governs(h, i)' <=> Governs(h, i)
  BY Zenon DEF Governs
<1> QED BY <1>1, <1>2, <1>3, <1>4, <1>5

\* A line that is about to be read is not the title of a heading.
LEMMA NextIsNoTitle ==
  ASSUME ParseTypes, ReadSoFar, Reading
  PROVE  /\ ~IsTitle(index) /\ index \in 1..Len(doc) /\ Len(doc) \in Nat /\ index \in Nat
         /\ IsToken(index) <=> line.what \in {"heading", "article"}
<1>1. index \in 1..Len(doc) /\ Len(doc) \in Nat /\ index \in Nat
  BY DEF ParseTypes, Reading
<1>2. ~IsTitle(index)
  BY <1>1 DEF IsTitle, ReadSoFar
<1> QED BY <1>1, <1>2 DEF IsToken, line

\* A heading is never a title; the title of a heading is no token.
LEMMA HeadingsAreTokens ==
  ASSUME NEW h, doc[h].what = "heading"
  PROVE  IsToken(h) /\ ~IsTitle(h)
BY DEF IsToken, IsTitle, TitleOf, IsLikelyFollowingTitle

LEMMA OnlyOneTitle ==
  ASSUME ParseTypes, NEW h \in 1..Len(doc), NEW t \in 1..Len(doc), NEW u \in 1..Len(doc),
         TitleOf(h, t), TitleOf(h, u)
  PROVE  t = u
BY DEF TitleOf, IsLikelyFollowingTitle, ParseTypes

LEMMA TitlesAhead ==
  ASSUME ParseTypes, Reading, IsStructureHeading(line), line.form = "bare"
  PROVE  \A t \in 1..Len(doc) : t \in TitleLines(index) <=> TitleOf(index, t)
<1>1. index \in 1..Len(doc) /\ Len(doc) \in Nat
  BY DEF ParseTypes, Reading
<1> QED BY <1>1 DEF TitleLines, Following, TitleOf, IsLikelyFollowingTitle, line

LEMMA RowsAreTyped ==
  ASSUME ParseTypes
  PROVE  /\ DOMAIN nodes = 1..Len(nodes) /\ Len(nodes) \in Nat
         /\ \A n \in DOMAIN nodes :
              /\ nodes[n] \in NodeRow /\ nodes[n].level \in Levels
              /\ nodes[n].at \in Nat /\ nodes[n].order \in Nat /\ nodes[n].title \subseteq Nat
         /\ AllArticles \in Seq(ArticleRow)
         /\ DOMAIN AllArticles = 1..Len(AllArticles) /\ Len(AllArticles) \in Nat
         /\ \A a \in DOMAIN AllArticles :
              /\ AllArticles[a].at \in Nat /\ AllArticles[a].order \in Nat
              /\ AllArticles[a].node \in Nat /\ AllArticles[a].lines \in Seq(Nat)
<1>1. nodes \in Seq(NodeRow) /\ DOMAIN nodes = 1..Len(nodes) /\ Len(nodes) \in Nat
  BY DEF ParseTypes
<1>2. ASSUME NEW n \in DOMAIN nodes
      PROVE  /\ nodes[n] \in NodeRow /\ nodes[n].level \in Levels
             /\ nodes[n].at \in Nat /\ nodes[n].order \in Nat /\ nodes[n].title \subseteq Nat
  <2>1. nodes[n] \in NodeRow
    BY <1>1
  <2> QED BY <2>1 DEF NodeRow
<1>3. currentArticle \in Seq(ArticleRow) /\ articles \in Seq(ArticleRow)
  <2>1. ASSUME NEW x \in ArticleRow PROVE <<x>> \in Seq(ArticleRow)
    OBVIOUS
  <2>2. <<>> \in Seq(ArticleRow)
    OBVIOUS
  <2> QED BY <2>1, <2>2, Zenon DEF ParseTypes
<1>4. AllArticles \in Seq(ArticleRow)
  BY <1>3 DEF AllArticles
<1>5. DOMAIN AllArticles = 1..Len(AllArticles) /\ Len(AllArticles) \in Nat
  BY <1>4
<1>6. ASSUME NEW a \in DOMAIN AllArticles
      PROVE  /\ AllArticles[a].at \in Nat /\ AllArticles[a].order \in Nat
             /\ AllArticles[a].node \in Nat /\ AllArticles[a].lines \in Seq(Nat)
  <2>1. AllArticles[a] \in ArticleRow
    BY <1>4, <1>5
  <2> QED BY <2>1 DEF ArticleRow
<1> QED BY <1>1, <1>2, <1>4, <1>5, <1>6

-----------------------------------------------------------------------------
\* Headings and the lines they govern

LEMMA GovernsNext ==
  ASSUME NEW h \in Nat, NEW i \in Nat, NEW j \in Nat, h < i, i < j,
         \A k \in (i + 1)..(j - 1) : doc[k].what # "heading"
  PROVE  Governs(h, j) <=> Governs(h, i) /\ (doc[i].what = "heading" => doc[i].level > doc[h].level)
BY DEF Governs

LEMMA HangsFromInnermost ==
  ASSUME ParseTypes, ReadInOrder, ActiveHeadings, phase = "reading"
  PROVE  /\ \A l \in Levels : HangsFrom(ParentOf(l, current), index, l)
         /\ \A l \in Levels : ParentOf(l, current) \in 0..Len(nodes)
         /\ HangsFrom(Innermost(current), index, 4) /\ Innermost(current) \in 0..Len(nodes)
<1>1. /\ \A l \in Levels : current[l] \in 0..Len(nodes)
      /\ DOMAIN nodes = 1..Len(nodes) /\ Len(nodes) \in Nat /\ index \in Nat
  BY DEF ParseTypes
<1>n. \A n \in DOMAIN nodes : nodes[n].level \in Levels
  BY RowsAreTyped
<1>2. /\ \A l \in Levels : current[l] # 0 =>
           nodes[current[l]].level = l /\ Governs(nodes[current[l]].at, index)
      /\ \A n \in DOMAIN nodes : Governs(nodes[n].at, index) => current[nodes[n].level] = n
      /\ \A n \in DOMAIN nodes : nodes[n].at < index
  BY <1>1 DEF ActiveHeadings, ReadInOrder
<1>3. HangsFrom(0, index, 1)
  BY <1>1, <1>n DEF HangsFrom, Levels
<1>4. HangsFrom(current[1], index, 2)
  BY <1>1, <1>n, <1>2 DEF HangsFrom, Levels
<1>5. HangsFrom(IF current[2] # 0 THEN current[2] ELSE current[1], index, 3)
  <2>1. CASE current[2] # 0
    BY <1>1, <1>n, <1>2, <2>1 DEF HangsFrom, Levels
  <2>2. CASE current[2] = 0
    BY <1>1, <1>n, <1>2, <2>2 DEF HangsFrom, Levels
  <2> QED BY <2>1, <2>2
<1>6. HangsFrom(Innermost(current), index, 4) /\ Innermost(current) \in 0..Len(nodes)
  <2>1. CASE current[3] # 0
    <3>1. Innermost(current) = current[3]
      BY <2>1 DEF Innermost
    <3> QED BY <1>1, <1>n, <1>2, <2>1, <3>1 DEF HangsFrom, Levels
  <2>2. CASE current[3] = 0 /\ current[2] # 0
    <3>1. Innermost(current) = current[2]
      BY <2>2 DEF Innermost
    <3> QED BY <1>1, <1>n, <1>2, <2>2, <3>1 DEF HangsFrom, Levels
  <2>3. CASE current[3] = 0 /\ current[2] = 0
    <3>1. Innermost(current) = current[1]
      BY <2>3 DEF Innermost
    <3> QED BY <1>1, <1>n, <1>2, <2>3, <3>1 DEF HangsFrom, Levels
  <2> QED BY <2>1, <2>2, <2>3
<1> QED BY <1>1, <1>3, <1>4, <1>5, <1>6 DEF ParentOf, Levels

\* What an earlier line hangs from is not changed by nodes of later lines.
LEMMA HangsOn ==
  ASSUME doc' = doc, ParseTypes, NEW i \in Nat, NEW n \in 0..Len(nodes), NEW l,
         DOMAIN nodes \subseteq DOMAIN nodes',
         \A m \in DOMAIN nodes : nodes'[m] = nodes[m],
         \A m \in DOMAIN nodes' \ DOMAIN nodes : ~(nodes'[m].at < i),
         HangsFrom(n, i, l)
  PROVE  HangsFrom(n, i, l)'
<1>1. \A h, k : Governs(h, k)' <=> Governs(h, k)
  BY DocumentStays
<1> QED BY <1>1, Zenon DEF HangsFrom

-----------------------------------------------------------------------------
\* Steps of the loop

\* The step reads the lines from index on; behind the first there are blank lines
\* and the title of a heading at most.
LinesRead ==
  /\ doc' = doc /\ phase' = phase /\ draft' = draft
  /\ index' \in (index + 1)..(Len(doc) + 1)
  /\ \A k \in (index + 1)..(index' - 1) : ~IsToken(k) /\ doc[k].what # "heading"

NodeAdded ==
  /\ DOMAIN nodes' = 1..(Len(nodes) + 1)
  /\ \A m \in DOMAIN nodes : nodes'[m] = nodes[m]
  /\ nodes'[Len(nodes) + 1].at = index /\ nodes'[Len(nodes) + 1].level = line.level
  /\ nodes'[Len(nodes) + 1].order = documentOrder + 1
  /\ nodes'[Len(nodes) + 1].parent = ParentOf(line.level, current)

ArticlesSame ==
  /\ DOMAIN AllArticles' = DOMAIN AllArticles
  /\ \A a \in DOMAIN AllArticles :
       /\ AllArticles'[a].at = AllArticles[a].at /\ AllArticles'[a].node = AllArticles[a].node
       /\ AllArticles'[a].order = AllArticles[a].order

ArticleAdded ==
  /\ DOMAIN AllArticles' = 1..(Len(AllArticles) + 1)
  /\ \A a \in DOMAIN AllArticles : AllArticles'[a] = AllArticles[a]
  /\ AllArticles'[Len(AllArticles) + 1].at = index
  /\ AllArticles'[Len(AllArticles) + 1].order = documentOrder + 1
  /\ AllArticles'[Len(AllArticles) + 1].node = Innermost(current)
  /\ AllArticles'[Len(AllArticles) + 1].lines = <<>>

RowsAfter ==
  \/ nodes' = nodes /\ ArticlesSame /\ documentOrder' = documentOrder
  \/ NodeAdded /\ ArticlesSame /\ documentOrder' = documentOrder + 1
  \/ nodes' = nodes /\ ArticleAdded /\ documentOrder' = documentOrder + 1

LEMMA ReadsOn ==
  ASSUME ParseTypes, Reading, LinesRead
  PROVE  /\ index \in 1..Len(doc) /\ Len(doc) \in Nat /\ index \in Nat
         /\ index' \in Nat /\ index < index' /\ index' <= Len(doc) + 1 /\ doc' = doc
         /\ phase' = "reading"
         /\ \A k \in (index + 1)..(index' - 1) : ~IsToken(k)
         /\ \A k \in (index + 1)..(index' - 1) : doc[k].what # "heading"
<1>1. index \in 1..Len(doc) /\ Len(doc) \in Nat /\ index \in Nat
  BY DEF Reading, ParseTypes
<1>2. index' \in (index + 1)..(Len(doc) + 1) /\ doc' = doc /\ phase' = "reading"
  BY Zenon DEF LinesRead, Reading
<1>3. index' \in Nat /\ index < index' /\ index' <= Len(doc) + 1
  BY <1>1, <1>2
<1>4. \A k \in (index + 1)..(index' - 1) : ~IsToken(k) /\ doc[k].what # "heading"
  BY Zenon DEF LinesRead
<1> QED BY <1>1, <1>2, <1>3, <1>4

\* The lines before j, in three parts: those before i, i, and those behind it.
LEMMA Ranges ==
  ASSUME NEW i \in Nat, NEW j \in Nat, i < j
  PROVE  /\ i >= 1 => i \in 1..(j - 1)
         /\ 1..(i - 1) \subseteq 1..(j - 1) /\ (i + 1)..(j - 1) \subseteq i..(j - 1)
         /\ \A k \in 1..(j - 1) : k \in 1..(i - 1) \/ k \in i..(j - 1)
         /\ \A k \in i..(j - 1) : k = i \/ k \in (i + 1)..(j - 1)
         /\ i \in i..(j - 1) /\ \A k \in Nat : k < i \/ k >= j => k \notin i..(j - 1)
OBVIOUS

\* The lines between h and j, when i lies between the two.
LEMMA LinesBehind ==
  ASSUME NEW i \in Nat, NEW j \in Nat, i < j, NEW h \in 1..(i - 1)
  PROVE  /\ h \in 1..(j - 1)
         /\ \A k \in (h + 1)..(j - 1) : k \in (h + 1)..(i - 1) \/ k \in i..(j - 1)
OBVIOUS

LEMMA OrderKept ==
  ASSUME ParseTypes, ReadInOrder, phase = "reading", Innermost(current) \in 0..Len(nodes),
         Reading, LinesRead, RowsAfter, Len(nodes') \in Nat, DOMAIN nodes' = 1..Len(nodes')
  PROVE  ReadInOrder'
<1>1. /\ DOMAIN nodes = 1..Len(nodes) /\ Len(nodes) \in Nat
      /\ DOMAIN AllArticles = 1..Len(AllArticles) /\ Len(AllArticles) \in Nat
      /\ \A n \in DOMAIN nodes : nodes[n].at \in Nat /\ nodes[n].order \in Nat
      /\ \A a \in DOMAIN AllArticles : AllArticles[a].at \in Nat /\ AllArticles[a].order \in Nat
  BY RowsAreTyped
<1>2. /\ index \in Nat /\ index >= 1 /\ index' > index /\ index' \in Nat
      /\ documentOrder \in Nat /\ phase' = "reading"
  <2>1. documentOrder \in Nat
    BY DEF ParseTypes
  <2> QED BY <2>1, ReadsOn
<1>3. \A n \in DOMAIN nodes' :
        \/ n \in DOMAIN nodes /\ nodes'[n] = nodes[n]
        \/ /\ n = Len(nodes) + 1 /\ nodes'[n].at = index /\ nodes'[n].order = documentOrder + 1
           /\ ArticlesSame /\ documentOrder' = documentOrder + 1
  <2> SUFFICES ASSUME NEW n \in DOMAIN nodes', nodes' # nodes
               PROVE  \/ n \in DOMAIN nodes /\ nodes'[n] = nodes[n]
                      \/ /\ n = Len(nodes) + 1 /\ nodes'[n].at = index
                         /\ nodes'[n].order = documentOrder + 1
                         /\ ArticlesSame /\ documentOrder' = documentOrder + 1
    OBVIOUS
  <2>1. NodeAdded /\ ArticlesSame /\ documentOrder' = documentOrder + 1
    BY DEF RowsAfter
  <2>2. n \in 1..(Len(nodes) + 1)
    BY <2>1 DEF NodeAdded
  <2>3. n \in DOMAIN nodes \/ n = Len(nodes) + 1
    BY <1>1, <2>2
  <2> QED BY <2>1, <2>3 DEF NodeAdded
<1>4. \A a \in DOMAIN AllArticles' :
        \/ /\ a \in DOMAIN AllArticles /\ AllArticles'[a].at = AllArticles[a].at
           /\ AllArticles'[a].node = AllArticles[a].node
           /\ AllArticles'[a].order = AllArticles[a].order
        \/ /\ a = Len(AllArticles) + 1 /\ AllArticles'[a].at = index
           /\ AllArticles'[a].node = Innermost(current)
           /\ AllArticles'[a].order = documentOrder + 1
           /\ nodes' = nodes /\ documentOrder' = documentOrder + 1
  BY <1>1 DEF RowsAfter, ArticlesSame, ArticleAdded
<1>5. /\ documentOrder' \in Nat /\ documentOrder' >= documentOrder
      /\ Len(nodes') >= Len(nodes)
  <2>1. CASE nodes' = nodes
    BY <1>1, <1>2, <2>1 DEF RowsAfter
  <2>2. CASE NodeAdded /\ documentOrder' = documentOrder + 1
    BY <1>1, <1>2, <2>2 DEF NodeAdded
  <2> QED BY <2>1, <2>2 DEF RowsAfter
<1>6. /\ \A n \in DOMAIN nodes :
           nodes[n].at \in 1..(index - 1) /\ nodes[n].order \in 1..documentOrder
      /\ \A m, n \in DOMAIN nodes :
           m < n => nodes[m].at < nodes[n].at /\ nodes[m].order < nodes[n].order
      /\ \A a \in DOMAIN AllArticles :
           /\ AllArticles[a].at \in 1..(index - 1) /\ AllArticles[a].order \in 1..documentOrder
           /\ AllArticles[a].node \in 0..Len(nodes)
      /\ \A a, b \in DOMAIN AllArticles :
           a < b => /\ AllArticles[a].at < AllArticles[b].at
                    /\ AllArticles[a].order < AllArticles[b].order
      /\ \A n \in DOMAIN nodes, a \in DOMAIN AllArticles :
           /\ nodes[n].at # AllArticles[a].at /\ nodes[n].order # AllArticles[a].order
           /\ nodes[n].at < AllArticles[a].at <=> nodes[n].order < AllArticles[a].order
  <2>1. \A a \in DOMAIN AllArticles : AllArticles[a].at # 0
    BY DEF ReadInOrder
  <2> QED BY <1>1, <1>2, <2>1 DEF ReadInOrder
<1>7. \A n \in DOMAIN nodes' :
        nodes'[n].at \in 1..(index' - 1) /\ nodes'[n].order \in 1..documentOrder'
  <2> SUFFICES ASSUME NEW n \in DOMAIN nodes'
               PROVE  nodes'[n].at \in 1..(index' - 1) /\ nodes'[n].order \in 1..documentOrder'
    OBVIOUS
  <2>1. CASE n \in DOMAIN nodes /\ nodes'[n] = nodes[n]
    <3>1. nodes[n].at \in 1..(index - 1) /\ nodes[n].order \in 1..documentOrder
      BY <1>6, <2>1
    <3> QED BY <1>2, <1>5, <2>1, <3>1
  <2>2. CASE /\ nodes'[n].at = index /\ nodes'[n].order = documentOrder + 1
             /\ documentOrder' = documentOrder + 1
    <3>1. index \in 1..(index' - 1)
      BY <1>2, Ranges
    <3>2. documentOrder + 1 \in 1..(documentOrder + 1)
      BY <1>2
    <3> QED BY <2>2, <3>1, <3>2
  <2> QED BY <1>3, <2>1, <2>2
<1>8. ASSUME NEW m \in DOMAIN nodes', NEW n \in DOMAIN nodes', m < n
      PROVE  nodes'[m].at < nodes'[n].at /\ nodes'[m].order < nodes'[n].order
  <2>1. m \in DOMAIN nodes /\ nodes'[m] = nodes[m]
    BY <1>1, <1>3, <1>8
  <2>2. CASE n \in DOMAIN nodes /\ nodes'[n] = nodes[n]
    BY <1>6, <1>8, <2>1, <2>2
  <2>3. CASE n = Len(nodes) + 1 /\ nodes'[n].at = index /\ nodes'[n].order = documentOrder + 1
    <3>1. nodes[m].at \in 1..(index - 1) /\ nodes[m].order \in 1..documentOrder
      BY <1>6, <2>1
    <3> QED BY <1>2, <2>1, <2>3, <3>1
  <2> QED BY <1>3, <2>2, <2>3
<1>9. ASSUME NEW a \in DOMAIN AllArticles'
      PROVE  /\ AllArticles'[a].at \in 1..(index' - 1)
             /\ AllArticles'[a].order \in 1..documentOrder'
             /\ AllArticles'[a].node \in 0..Len(nodes')
  <2>1. CASE /\ a \in DOMAIN AllArticles /\ AllArticles'[a].at = AllArticles[a].at
             /\ AllArticles'[a].node = AllArticles[a].node
             /\ AllArticles'[a].order = AllArticles[a].order
    <3>1. /\ AllArticles[a].at \in 1..(index - 1) /\ AllArticles[a].order \in 1..documentOrder
          /\ AllArticles[a].node \in 0..Len(nodes)
      BY <1>6, <2>1
    <3>2. AllArticles'[a].node \in 0..Len(nodes')
      BY <1>1, <1>5, <2>1, <3>1
    <3> QED BY <1>2, <1>5, <2>1, <3>1, <3>2
  <2>2. CASE /\ AllArticles'[a].at = index /\ AllArticles'[a].node = Innermost(current)
             /\ AllArticles'[a].order = documentOrder + 1
             /\ nodes' = nodes /\ documentOrder' = documentOrder + 1
    <3>1. AllArticles'[a].node \in 0..Len(nodes')
      BY <2>2
    <3>2. index \in 1..(index' - 1)
      BY <1>2, Ranges
    <3>3. documentOrder + 1 \in 1..(documentOrder + 1)
      BY <1>2
    <3> QED BY <2>2, <3>1, <3>2, <3>3
  <2> QED BY <1>4, <2>1, <2>2
<1>10. ASSUME NEW a \in DOMAIN AllArticles', NEW b \in DOMAIN AllArticles', a < b
       PROVE  /\ AllArticles'[a].at < AllArticles'[b].at
              /\ AllArticles'[a].order < AllArticles'[b].order
  <2>1. /\ a \in DOMAIN AllArticles /\ AllArticles'[a].at = AllArticles[a].at
        /\ AllArticles'[a].order = AllArticles[a].order
    BY <1>1, <1>4, <1>10
  <2>2. AllArticles[a].at \in 1..(index - 1) /\ AllArticles[a].order \in 1..documentOrder
    BY <1>6, <2>1
  <2>3. CASE /\ b \in DOMAIN AllArticles /\ AllArticles'[b].at = AllArticles[b].at
             /\ AllArticles'[b].order = AllArticles[b].order
    <3>1. AllArticles[a].at < AllArticles[b].at /\ AllArticles[a].order < AllArticles[b].order
      BY <1>6, <1>10, <2>1, <2>3
    <3> QED BY <2>1, <2>3, <3>1
  <2>4. CASE AllArticles'[b].at = index /\ AllArticles'[b].order = documentOrder + 1
    BY <1>2, <2>1, <2>2, <2>4
  <2> QED BY <1>4, <2>3, <2>4
<1>11. ASSUME NEW n \in DOMAIN nodes', NEW a \in DOMAIN AllArticles'
       PROVE  /\ nodes'[n].at # AllArticles'[a].at /\ nodes'[n].order # AllArticles'[a].order
              /\ nodes'[n].at < AllArticles'[a].at <=> nodes'[n].order < AllArticles'[a].order
  <2>1. CASE n \in DOMAIN nodes /\ nodes'[n] = nodes[n]
    BY <1>1, <1>2, <1>4, <1>6, <2>1
  <2>2. CASE /\ n = Len(nodes) + 1 /\ nodes'[n].at = index
             /\ nodes'[n].order = documentOrder + 1 /\ ArticlesSame
    <3>1. /\ a \in DOMAIN AllArticles /\ AllArticles'[a].at = AllArticles[a].at
          /\ AllArticles'[a].order = AllArticles[a].order
      BY <2>2 DEF ArticlesSame
    <3> QED BY <1>1, <1>2, <1>6, <2>2, <3>1
  <2> QED BY <1>3, <2>1, <2>2
<1>12. \A a \in DOMAIN AllArticles' :
         AllArticles'[a].at \in 0..(index' - 1) /\ AllArticles'[a].at # 0
  BY <1>2, <1>9
<1> QED BY <1>7, <1>8, <1>9, <1>10, <1>11, <1>12 DEF ReadInOrder

LEMMA HangingKept ==
  ASSUME ParseTypes, ReadInOrder, ActiveHeadings, HangsFromItsHeading, phase = "reading",
         Reading, LinesRead, RowsAfter, nodes' # nodes => line.level \in Levels
  PROVE  HangsFromItsHeading'
<1>1. /\ DOMAIN nodes = 1..Len(nodes) /\ Len(nodes) \in Nat
      /\ DOMAIN AllArticles = 1..Len(AllArticles) /\ Len(AllArticles) \in Nat
      /\ \A n \in DOMAIN nodes : nodes[n].at \in Nat
      /\ \A a \in DOMAIN AllArticles : AllArticles[a].at \in Nat /\ AllArticles[a].order \in Nat
  BY RowsAreTyped
<1>2. doc' = doc /\ index \in 1..Len(doc) /\ index \in Nat
  BY DEF Reading, LinesRead, ParseTypes
<1>3. /\ DOMAIN nodes \subseteq DOMAIN nodes'
      /\ \A m \in DOMAIN nodes : nodes'[m] = nodes[m]
      /\ \A m \in DOMAIN nodes' \ DOMAIN nodes : m = Len(nodes) + 1 /\ NodeAdded
  BY <1>1 DEF RowsAfter, NodeAdded
<1>4. \A m \in DOMAIN nodes' \ DOMAIN nodes : nodes'[m].at = index
  BY <1>3 DEF NodeAdded
<1>5. ASSUME NEW i \in 0..index, NEW n \in 0..Len(nodes), NEW l, HangsFrom(n, i, l)
      PROVE  HangsFrom(n, i, l)'
  <2>1. \A m \in DOMAIN nodes' \ DOMAIN nodes : ~(nodes'[m].at < i)
    BY <1>2, <1>4
  <2>2. i \in Nat
    BY <1>2
  <2> QED BY <1>2, <1>3, <1>5, <2>1, <2>2, HangsOn
<1>6. /\ \A l \in Levels : HangsFrom(ParentOf(l, current), index, l)
      /\ \A l \in Levels : ParentOf(l, current) \in 0..Len(nodes)
      /\ HangsFrom(Innermost(current), index, 4) /\ Innermost(current) \in 0..Len(nodes)
  BY HangsFromInnermost
<1>7. ASSUME NEW n \in DOMAIN nodes'
      PROVE  HangsFrom(nodes[n].parent, nodes[n].at, nodes[n].level)'
  <2>1. CASE n \in DOMAIN nodes
    <3>1. /\ HangsFrom(nodes[n].parent, nodes[n].at, nodes[n].level)
          /\ nodes[n].at \in 0..index
      BY <1>1, <1>2, <2>1 DEF HangsFromItsHeading, ReadInOrder
    <3>2. nodes[n].parent \in 0..Len(nodes)
      BY <1>1, <3>1 DEF HangsFrom
    <3> QED BY <1>3, <1>5, <2>1, <3>1, <3>2
  <2>2. CASE n \notin DOMAIN nodes
    <3>1. NodeAdded /\ n = Len(nodes) + 1 /\ nodes' # nodes
      BY <1>3, <2>2
    <3>2. /\ nodes'[n].at = index /\ nodes'[n].level = line.level
          /\ nodes'[n].parent = ParentOf(line.level, current)
      BY <3>1 DEF NodeAdded
    <3>3. line.level \in Levels /\ index \in 0..index
      BY <1>2, <3>1
    <3>4. PICK p, i, l : p = ParentOf(line.level, current) /\ i = index /\ l = line.level
      OBVIOUS
    <3>5. HangsFrom(p, i, l)'
      BY <1>5, <1>6, <3>3, <3>4
    <3> QED BY <3>2, <3>4, <3>5
  <2> QED BY <2>1, <2>2
<1>8. ASSUME NEW a \in DOMAIN AllArticles', AllArticles'[a].at # 0
      PROVE  HangsFrom(AllArticles[a].node, AllArticles[a].at, 4)'
  <2>1. CASE a \in DOMAIN AllArticles
    <3>1. AllArticles'[a].at = AllArticles[a].at /\ AllArticles'[a].node = AllArticles[a].node
      BY <2>1 DEF RowsAfter, ArticlesSame, ArticleAdded
    <3>2. /\ HangsFrom(AllArticles[a].node, AllArticles[a].at, 4)
          /\ AllArticles[a].at \in 0..index /\ AllArticles[a].node \in 0..Len(nodes)
      BY <1>1, <1>2, <1>8, <2>1, <3>1 DEF HangsFromItsHeading, ReadInOrder
    <3> QED BY <1>5, <3>1, <3>2
  <2>2. CASE a \notin DOMAIN AllArticles
    <3>1. AllArticles'[a].at = index /\ AllArticles'[a].node = Innermost(current)
      BY <1>1, <2>2 DEF RowsAfter, ArticlesSame, ArticleAdded
    <3>2. PICK p, i : p = Innermost(current) /\ i = index
      OBVIOUS
    <3>3. HangsFrom(p, i, 4)'
      BY <1>2, <1>5, <1>6, <3>2
    <3> QED BY <3>1, <3>2, <3>3
  <2> QED BY <2>1, <2>2
<1> QED BY <1>7, <1>8 DEF HangsFromItsHeading

\* The active headings after a line that is no heading, and after one that is.
LEMMA ActiveKept ==
  ASSUME ParseTypes, ReadInOrder, ActiveHeadings, phase = "reading", Reading, LinesRead,
         \/ line.what # "heading" /\ nodes' = nodes /\ current' = current
         \/ /\ line.what = "heading" /\ ~IsStructureHeading(line) /\ nodes' = nodes
            /\ current' = Opened(line.level, 0, current)
         \/ /\ IsStructureHeading(line) /\ NodeAdded
            /\ current' = Opened(line.level, Len(nodes) + 1, current)
  PROVE  ActiveHeadings'
<1>1. /\ DOMAIN nodes = 1..Len(nodes) /\ Len(nodes) \in Nat
      /\ \A n \in DOMAIN nodes : nodes[n].at \in Nat /\ nodes[n].level \in Levels
      /\ \A n \in DOMAIN nodes : nodes[n].at < index
      /\ \A l \in Levels : current[l] \in 0..Len(nodes)
  <2>1. \A n \in DOMAIN nodes : nodes[n].at < index
    BY RowsAreTyped DEF ReadInOrder, ParseTypes
  <2> QED BY <2>1, RowsAreTyped DEF ParseTypes
<1>2. /\ doc' = doc /\ index \in 1..Len(doc) /\ index \in Nat /\ index' \in Nat /\ index < index'
      /\ phase' = "reading" /\ \A k \in (index + 1)..(index' - 1) : doc[k].what # "heading"
  BY ReadsOn
<1>3. \A h, i : Governs(h, i)' <=> Governs(h, i)
  BY <1>2, DocumentStays
<1>4. /\ \A n \in DOMAIN nodes :
           IsStructureHeading(doc[nodes[n].at]) /\ doc[nodes[n].at].level = nodes[n].level
      /\ \A l \in Levels : current[l] # 0 =>
           nodes[current[l]].level = l /\ Governs(nodes[current[l]].at, index)
      /\ \A n \in DOMAIN nodes : Governs(nodes[n].at, index) => current[nodes[n].level] = n
  BY DEF ActiveHeadings
<1>5. ASSUME NEW n \in DOMAIN nodes
      PROVE  Governs(nodes[n].at, index') <=>
               /\ Governs(nodes[n].at, index)
               /\ line.what = "heading" => line.level > nodes[n].level
  <2>1. Governs(nodes[n].at, index') <=>
          /\ Governs(nodes[n].at, index)
          /\ doc[index].what = "heading" => doc[index].level > doc[nodes[n].at].level
    BY <1>1, <1>2, GovernsNext
  <2> QED BY <1>4, <2>1 DEF line
<1>6. CASE line.what # "heading" /\ nodes' = nodes /\ current' = current
  BY <1>1, <1>2, <1>3, <1>4, <1>5, <1>6 DEF ActiveHeadings
<1>7. ASSUME line.what = "heading" PROVE line.level \in Levels
  <2>1. doc \in Seq(LineKinds)
    BY DEF ParseTypes
  <2>2. line \in LineKinds
    BY <1>2, <2>1 DEF line
  <2> QED BY <1>7, <2>2, HeadingLevels
<1>8. CASE /\ line.what = "heading" /\ ~IsStructureHeading(line) /\ nodes' = nodes
           /\ current' = Opened(line.level, 0, current)
  <2>1. \A l \in Levels : current'[l] = IF l < line.level THEN current[l] ELSE 0
    BY <1>7, <1>8 DEF Opened, Levels
  <2>2. \A l \in Levels : current'[l] # 0 =>
          nodes[current'[l]].level = l /\ Governs(nodes[current'[l]].at, index')
    <3> SUFFICES ASSUME NEW l \in Levels, current'[l] # 0
                 PROVE  nodes[current'[l]].level = l /\ Governs(nodes[current'[l]].at, index')
      OBVIOUS
    <3>1. l < line.level /\ current'[l] = current[l] /\ current[l] \in DOMAIN nodes
      BY <1>1, <2>1
    <3> QED BY <1>4, <1>5, <3>1
  <2>3. ASSUME NEW n \in DOMAIN nodes, Governs(nodes[n].at, index')
        PROVE  current'[nodes[n].level] = n
    BY <1>1, <1>4, <1>5, <1>7, <1>8, <2>1, <2>3 DEF Levels
  <2> QED BY <1>2, <1>3, <1>4, <1>8, <2>2, <2>3 DEF ActiveHeadings
<1>9. CASE /\ IsStructureHeading(line) /\ NodeAdded
           /\ current' = Opened(line.level, Len(nodes) + 1, current)
  <2>1. /\ \A l \in Levels : current'[l] = IF l < line.level THEN current[l]
                                           ELSE IF l = line.level THEN Len(nodes) + 1 ELSE 0
        /\ line.what = "heading" /\ line.level \in Levels
    BY <1>7, <1>9 DEF Opened, Levels, IsStructureHeading
  <2>2. /\ DOMAIN nodes' = 1..(Len(nodes) + 1)
        /\ \A m \in DOMAIN nodes : nodes'[m] = nodes[m]
        /\ nodes'[Len(nodes) + 1].at = index /\ nodes'[Len(nodes) + 1].level = line.level
    BY <1>9 DEF NodeAdded
  <2>3. Governs(index, index')
    BY <1>2, <1>9 DEF Governs, line
  <2>4. \A n \in DOMAIN nodes' :
          IsStructureHeading(doc[nodes'[n].at]) /\ doc[nodes'[n].at].level = nodes'[n].level
    BY <1>1, <1>4, <1>9, <2>2 DEF line
  <2>5. \A l \in Levels : current'[l] # 0 =>
           nodes'[current'[l]].level = l /\ Governs(nodes'[current'[l]].at, index')
    BY <1>1, <1>4, <1>5, <2>1, <2>2, <2>3 DEF Levels
  <2>6. ASSUME NEW n \in DOMAIN nodes', Governs(nodes'[n].at, index')
        PROVE  current'[nodes'[n].level] = n
    <3>1. CASE n \in DOMAIN nodes
      <4>1. nodes'[n] = nodes[n] /\ nodes[n].level \in Levels
        BY <1>1, <2>2, <3>1
      <4>2. Governs(nodes[n].at, index) /\ line.level > nodes[n].level
        BY <1>5, <2>1, <2>6, <3>1, <4>1
      <4>3. current'[nodes[n].level] = current[nodes[n].level]
        BY <2>1, <4>1, <4>2 DEF Levels
      <4> QED BY <1>4, <3>1, <4>1, <4>2, <4>3
    <3>2. CASE n = Len(nodes) + 1
      BY <2>1, <2>2, <3>2 DEF Levels
    <3> QED BY <1>1, <2>2, <3>1, <3>2
  <2> QED BY <1>2, <1>3, <2>4, <2>5, <2>6 DEF ActiveHeadings, IsStructureHeading
<1> QED BY <1>6, <1>8, <1>9

-----------------------------------------------------------------------------
\* The lines of the text

InPreamble(i) == i \in Elements(preamble)
Titled(i) == \E n \in DOMAIN nodes : i \in nodes[n].title
Holds(a, i) == i \in Elements(AllArticles[a].lines)

LEMMA PlaceMeans ==
  ASSUME NEW i
  PROVE  LineInItsPlace(i) <=>
           /\ InPreamble(i) <=> Early(i)
           /\ Titled(i) <=> IsTitle(i)
           /\ \A a \in DOMAIN AllArticles : Holds(a, i) <=> AllArticles[a].at \in Home(i)
           /\ Home(i) # {} => \E a \in DOMAIN AllArticles : Holds(a, i)
           /\ Collected(i) \/ Noticed(issues, i) <=> OpensPassage(i)
BY Zenon DEF LineInItsPlace, InPreamble, Titled, Holds

LEMMA PlaceMeansNext ==
  ASSUME NEW i
  PROVE  LineInItsPlace(i)' <=>
           /\ InPreamble(i)' <=> Early(i)'
           /\ Titled(i)' <=> IsTitle(i)'
           /\ \A a \in DOMAIN AllArticles' : Holds(a, i)' <=> AllArticles'[a].at \in Home(i)'
           /\ Home(i)' # {} => \E a \in DOMAIN AllArticles' : Holds(a, i)'
           /\ Collected(i)' \/ Noticed(issues', i) <=> OpensPassage(i)'
BY Zenon DEF LineInItsPlace, InPreamble, Titled, Holds

LEMMA ElementsOfLists ==
  ASSUME NEW S, NEW s \in Seq(S), NEW x \in S
  PROVE  /\ \A i : i \in Elements(Append(s, x)) <=> i \in Elements(s) \/ i = x
         /\ \A i : i \in Elements(<<x>>) <=> i = x
         /\ \A i : i \notin Elements(<<>>)
<1>1. \A i : i \in Elements(Append(s, x)) <=> i \in Elements(s) \/ i = x
  <2>1. /\ DOMAIN Append(s, x) = 1..(Len(s) + 1) /\ DOMAIN s = 1..Len(s) /\ Len(s) \in Nat
        /\ \A k \in 1..Len(s) : Append(s, x)[k] = s[k]
        /\ Append(s, x)[Len(s) + 1] = x
    OBVIOUS
  <2> QED BY <2>1 DEF Elements
<1>2. \A i : i \in Elements(<<x>>) <=> i = x
  BY DEF Elements
<1>3. \A i : i \notin Elements(<<>>)
  BY DEF Elements
<1> QED BY <1>1, <1>2, <1>3

LEMMA NoticedWith ==
  ASSUME NEW list \in Seq(IssueRow), NEW x \in IssueRow, NEW i
  PROVE  /\ Append(list, x) \in Seq(IssueRow)
         /\ Noticed(Append(list, x), i) <=>
              Noticed(list, i) \/ (x.code = "UNASSIGNED_TEXT" /\ x.sourceLine = i)
<1>1. /\ DOMAIN Append(list, x) = 1..(Len(list) + 1) /\ DOMAIN list = 1..Len(list)
      /\ Len(list) \in Nat
      /\ \A k \in 1..Len(list) : Append(list, x)[k] = list[k]
      /\ Append(list, x)[Len(list) + 1] = x
  OBVIOUS
<1>2. Noticed(Append(list, x), i) <=>
        Noticed(list, i) \/ (x.code = "UNASSIGNED_TEXT" /\ x.sourceLine = i)
  BY <1>1 DEF Noticed
<1> QED BY <1>2

LEMMA FlushedNotices ==
  ASSUME ParseTypes
  PROVE  /\ Flushed \in Seq(IssueRow)
         /\ \A i : Noticed(Flushed, i) <=> Noticed(issues, i) \/ Collected(i)
<1>1. issues \in Seq(IssueRow) /\ unassigned \in Seq(Nat)
  BY DEF ParseTypes
<1>2. CASE unassigned = <<>>
  <2>1. Flushed = issues
    BY <1>2 DEF Flushed
  <2>2. \A i : ~Collected(i)
    BY <1>2 DEF Collected
  <2> QED BY <1>1, <2>1, <2>2
<1>3. CASE unassigned # <<>>
  <2>1. PICK x : x = Issue("UNASSIGNED_TEXT", unassigned[1])
    OBVIOUS
  <2>2. x \in IssueRow /\ x.code = "UNASSIGNED_TEXT" /\ x.sourceLine = unassigned[1]
    <3>1. x = [code |-> "UNASSIGNED_TEXT", sourceLine |-> unassigned[1]]
      BY <2>1 DEF Issue
    <3>2. unassigned[1] \in Nat
      BY <1>1, <1>3
    <3> QED BY <3>1, <3>2 DEF IssueRow, IssueCodes
  <2>3. Flushed = Append(issues, x)
    BY <1>3, <2>1 DEF Flushed
  <2> QED BY <1>1, <1>3, <2>2, <2>3, NoticedWith DEF Collected
<1> QED BY <1>2, <1>3

\* A list of articles with one more at its end.
LEMMA OneMore ==
  ASSUME NEW list \in Seq(ArticleRow), NEW x \in ArticleRow
  PROVE  /\ list \o <<x>> \in Seq(ArticleRow) /\ list \o <<>> = list
         /\ DOMAIN (list \o <<x>>) = 1..(Len(list) + 1) /\ Len(list \o <<x>>) = Len(list) + 1
         /\ \A a \in 1..Len(list) : (list \o <<x>>)[a] = list[a]
         /\ (list \o <<x>>)[Len(list) + 1] = x
         /\ <<x>>[1] = x /\ <<x>> # <<>>
OBVIOUS

LEMMA PlacesStay ==
  ASSUME doc' = doc
  PROVE  \A i : /\ Home(i)' = Home(i) /\ (Early(i)' <=> Early(i)) /\ (IsTitle(i)' <=> IsTitle(i))
                /\ Stray(i)' <=> Stray(i)
                /\ OpensPassage(i)' <=> OpensPassage(i)
<1>1. \A i : Home(i)' = Home(i) /\ (Early(i)' <=> Early(i)) /\ (IsTitle(i)' <=> IsTitle(i))
  BY DocumentStays, Zenon DEF Home, Early
<1>2. \A i : Stray(i)' <=> Stray(i)
  BY <1>1, Zenon DEF Stray
<1>3. \A r, i : SamePassage(r, i)' <=> SamePassage(r, i)
  BY DocumentStays, Zenon DEF SamePassage
<1> QED BY <1>1, <1>2, <1>3, Zenon DEF OpensPassage

\* A line that was in its place stays there when nothing adds or removes it.
LEMMA PlaceKept ==
  ASSUME ParseTypes, doc' = doc, NEW i \in 1..(index - 1), LineInItsPlace(i),
         InPreamble(i)' <=> InPreamble(i), Titled(i)' <=> Titled(i),
         Collected(i)' \/ Noticed(issues', i) <=> Collected(i) \/ Noticed(issues, i),
         ArticlesSame \/ ArticleAdded,
         \A a \in DOMAIN AllArticles : Holds(a, i)' <=> Holds(a, i)
  PROVE  LineInItsPlace(i)'
<1>1. /\ \A k : IsTitle(k)' <=> IsTitle(k)
      /\ \A k : IsToken(k)' <=> IsToken(k)
      /\ \A a, k : InArticle(a, k)' <=> InArticle(a, k)
  BY DocumentStays
<1>2. Home(i)' = Home(i) /\ (Early(i)' <=> Early(i)) /\ (OpensPassage(i)' <=> OpensPassage(i))
  BY PlacesStay
<1>3. /\ InPreamble(i) <=> Early(i)
      /\ Titled(i) <=> IsTitle(i)
      /\ \A a \in DOMAIN AllArticles : Holds(a, i) <=> AllArticles[a].at \in Home(i)
      /\ Home(i) # {} => \E a \in DOMAIN AllArticles : Holds(a, i)
      /\ Collected(i) \/ Noticed(issues, i) <=> OpensPassage(i)
  BY PlaceMeans
<1>4. /\ DOMAIN AllArticles = 1..Len(AllArticles) /\ Len(AllArticles) \in Nat
      /\ index \in Nat
  BY RowsAreTyped DEF ParseTypes
<1>5. /\ DOMAIN AllArticles \subseteq DOMAIN AllArticles'
      /\ \A a \in DOMAIN AllArticles : AllArticles'[a].at = AllArticles[a].at
  BY <1>4 DEF ArticlesSame, ArticleAdded
<1>6. ASSUME NEW a \in DOMAIN AllArticles', a \notin DOMAIN AllArticles
      PROVE  ~Holds(a, i)' /\ AllArticles'[a].at \notin Home(i)
  <2>1. AllArticles'[a].lines = <<>> /\ AllArticles'[a].at = index
    BY <1>4, <1>6 DEF ArticlesSame, ArticleAdded
  <2> QED BY <1>4, <2>1 DEF Holds, Elements, Home
<1>7. \A a \in DOMAIN AllArticles' : Holds(a, i)' <=> AllArticles'[a].at \in Home(i)
  BY <1>3, <1>5, <1>6
<1>8. Home(i) # {} => \E a \in DOMAIN AllArticles' : Holds(a, i)'
  BY <1>3, <1>5
<1> QED BY <1>1, <1>2, <1>3, <1>7, <1>8, PlaceMeansNext

-----------------------------------------------------------------------------
\* Nothing adds line i to a part of the result or takes it away.
Untouched(i) ==
  /\ InPreamble(i)' <=> InPreamble(i)
  /\ Titled(i)' <=> Titled(i)
  /\ Collected(i)' \/ Noticed(issues', i) <=> Collected(i) \/ Noticed(issues, i)
  /\ \A a \in DOMAIN AllArticles : Holds(a, i)' <=> Holds(a, i)

\* What the step leaves as the last token.
TokenAfter ==
  \/ /\ line.what = "article" /\ sawLegalToken'
     /\ \E x \in ArticleRow : currentArticle' = <<x>> /\ x.at = index
  \/ line.what = "heading" /\ sawLegalToken' /\ currentArticle' = <<>>
  \/ /\ line.what \notin {"article", "heading"} /\ sawLegalToken' = sawLegalToken
     /\ \/ currentArticle' = currentArticle
        \/ /\ currentArticle # <<>>
           /\ \E x \in ArticleRow : currentArticle' = <<x>> /\ x.at = currentArticle[1].at

HeadingAfter ==
  \/ line.what # "heading" /\ nodes' = nodes /\ current' = current
  \/ /\ line.what = "heading" /\ ~IsStructureHeading(line) /\ nodes' = nodes
     /\ current' = Opened(line.level, 0, current)
  \/ /\ IsStructureHeading(line) /\ NodeAdded
     /\ current' = Opened(line.level, Len(nodes) + 1, current)

LEMMA LastTokenKept ==
  ASSUME ParseTypes, LastToken, ReadSoFar, Reading, LinesRead, TokenAfter
  PROVE  LastToken'
<1>1. /\ ~IsTitle(index) /\ index \in 1..Len(doc) /\ Len(doc) \in Nat /\ index \in Nat
      /\ IsToken(index) <=> line.what \in {"heading", "article"}
  BY NextIsNoTitle
<1>2. /\ index' \in Nat /\ index < index' /\ doc' = doc
      /\ \A k \in (index + 1)..(index' - 1) : ~IsToken(k)
  BY ReadsOn
<1>3. \A k : IsToken(k)' <=> IsToken(k)
  BY <1>2, DocumentStays
<1>4. CASE /\ line.what = "article" /\ sawLegalToken'
           /\ \E x \in ArticleRow : currentArticle' = <<x>> /\ x.at = index
  <2>1. currentArticle' # <<>> /\ currentArticle'[1].at = index
    BY <1>4
  <2>2. IsToken(index) /\ doc[index].what = "article" /\ index \in 1..(index' - 1)
    <3>0. index >= 1
      BY <1>1
    <3>1. index \in 1..(index' - 1)
      BY <1>1, <1>2, <3>0, Ranges
    <3> QED BY <1>1, <1>4, <3>1 DEF line
  <2>3. \E k \in 1..(index' - 1) : IsToken(k)
    BY <2>2
  <2>4. sawLegalToken'
    BY <1>4
  <2> QED BY <1>2, <1>3, <2>1, <2>2, <2>3, <2>4 DEF LastToken
<1>5. CASE line.what = "heading" /\ sawLegalToken' /\ currentArticle' = <<>>
  <2>1. IsToken(index) /\ doc[index].what = "heading" /\ index \in 1..(index' - 1)
    <3>0. index >= 1
      BY <1>1
    <3>1. index \in 1..(index' - 1)
      BY <1>1, <1>2, <3>0, Ranges
    <3> QED BY <1>1, <1>5, <3>1 DEF line
  <2>2. \E k \in 1..(index' - 1) : IsToken(k)
    BY <2>1
  <2> QED BY <1>2, <1>3, <1>5, <2>1, <2>2 DEF LastToken
<1>6. CASE /\ line.what \notin {"article", "heading"} /\ sawLegalToken' = sawLegalToken
           /\ \/ currentArticle' = currentArticle
              \/ /\ currentArticle # <<>>
                 /\ \E x \in ArticleRow : currentArticle' = <<x>> /\ x.at = currentArticle[1].at
  <2>1. /\ currentArticle' = <<>> <=> currentArticle = <<>>
        /\ currentArticle # <<>> => currentArticle'[1].at = currentArticle[1].at
    BY <1>6
  <2>0. ~IsToken(index)
    BY <1>1, <1>6
  <2>2. \A k \in index..(index' - 1) : ~IsToken(k)
    BY <1>1, <1>2, <2>0, Ranges
  <2>3. sawLegalToken' <=> \E k \in 1..(index' - 1) : IsToken(k)
    <3>1. sawLegalToken' = sawLegalToken
      BY <1>6
    <3>2. sawLegalToken <=> \E k \in 1..(index - 1) : IsToken(k)
      BY DEF LastToken
    <3>3. (\E k \in 1..(index - 1) : IsToken(k)) <=> \E k \in 1..(index' - 1) : IsToken(k)
      BY <1>1, <1>2, <2>2, Ranges
    <3> QED BY <3>1, <3>2, <3>3
  <2>4. currentArticle' # <<>> =>
          /\ currentArticle'[1].at \in 1..(index' - 1)
          /\ IsToken(currentArticle'[1].at) /\ doc[currentArticle'[1].at].what = "article"
          /\ \A k \in (currentArticle'[1].at + 1)..(index' - 1) : ~IsToken(k)
    <3> SUFFICES ASSUME NEW c, c = currentArticle'[1].at, currentArticle # <<>>
                 PROVE  /\ c \in 1..(index' - 1) /\ IsToken(c) /\ doc[c].what = "article"
                        /\ \A k \in (c + 1)..(index' - 1) : ~IsToken(k)
      BY <2>1
    <3>1. /\ c \in 1..(index - 1) /\ IsToken(c) /\ doc[c].what = "article"
          /\ \A k \in (c + 1)..(index - 1) : ~IsToken(k)
      BY <2>1 DEF LastToken
    <3>2. /\ c \in 1..(index' - 1)
          /\ \A k \in (c + 1)..(index' - 1) :
               k \in (c + 1)..(index - 1) \/ k \in index..(index' - 1)
      <4>1. index \in Nat /\ index' \in Nat /\ index < index'
        BY <1>1, <1>2, Zenon
      <4>2. c \in 1..(index - 1)
        BY <3>1, Zenon
      <4> QED BY <4>1, <4>2, LinesBehind
    <3> QED BY <2>2, <3>1, <3>2
  <2>5. currentArticle' = <<>> /\ sawLegalToken' =>
          \E h \in 1..(index' - 1) :
            /\ IsToken(h) /\ doc[h].what = "heading"
            /\ \A k \in (h + 1)..(index' - 1) : ~IsToken(k)
    <3> SUFFICES ASSUME currentArticle' = <<>>, sawLegalToken'
                 PROVE  \E h \in 1..(index' - 1) :
                          /\ IsToken(h) /\ doc[h].what = "heading"
                          /\ \A k \in (h + 1)..(index' - 1) : ~IsToken(k)
      OBVIOUS
    <3>1. PICK h \in 1..(index - 1) :
            /\ IsToken(h) /\ doc[h].what = "heading"
            /\ \A k \in (h + 1)..(index - 1) : ~IsToken(k)
      BY <1>6, <2>1 DEF LastToken
    <3>2. /\ h \in 1..(index' - 1)
          /\ \A k \in (h + 1)..(index' - 1) :
               k \in (h + 1)..(index - 1) \/ k \in index..(index' - 1)
      <4>1. index \in Nat /\ index' \in Nat /\ index < index'
        BY <1>1, <1>2, Zenon
      <4>2. h \in 1..(index - 1)
        BY <3>1, Zenon
      <4> QED BY <4>1, <4>2, LinesBehind
    <3> QED BY <2>2, <3>1, <3>2
  <2> QED BY <1>2, <1>3, <2>3, <2>4, <2>5 DEF LastToken
<1> QED BY <1>4, <1>5, <1>6 DEF TokenAfter

LEMMA ReadSoFarKept ==
  ASSUME ParseTypes, ParseTypes', ReadSoFar, Reading, LinesRead, RowsAfter,
         \A t \in 1..Len(doc) : TitleOf(index, t) => t < index',
         \A i : i \notin index..(index' - 1) => Untouched(i)
  PROVE  ReadSoFar'
<1>1. /\ index \in 1..Len(doc) /\ Len(doc) \in Nat /\ index \in Nat
      /\ index' \in Nat /\ index < index' /\ doc' = doc
      /\ \A k \in (index + 1)..(index' - 1) : doc[k].what # "heading"
  BY ReadsOn
<1>2. \A h \in 1..(index' - 1), t \in 1..Len(doc) : TitleOf(h, t)' => t < index'
  <2> SUFFICES ASSUME NEW h \in 1..(index' - 1), NEW t \in 1..Len(doc), TitleOf(h, t)
               PROVE  t < index'
    BY <1>1, DocumentStays
  <2>1. CASE h < index
    BY <1>1, <2>1 DEF ReadSoFar
  <2>2. CASE h = index
    BY <2>2
  <2>3. CASE h > index
    <3>1. h \in (index + 1)..(index' - 1)
      <4>1. PICK i, j : i = index /\ j = index'
        OBVIOUS
      <4>2. i \in Nat /\ j \in Nat /\ h \in 1..(j - 1) /\ h > i
        BY <1>1, <2>3, <4>1
      <4>3. h \in (i + 1)..(j - 1)
        BY <4>2
      <4> QED BY <4>1, <4>3
    <3>2. doc[h].what # "heading"
      BY <1>1, <3>1
    <3> QED BY <3>2, Zenon DEF TitleOf, IsStructureHeading
  <2> QED BY <1>1, <2>1, <2>2, <2>3
<1>3. ASSUME NEW i \in Nat, Untouched(i), i >= index'
      PROVE  ~InPreamble(i)' /\ ~Collected(i)' /\ ~Noticed(issues', i) /\ ~Titled(i)'
  <2>1. ~InPreamble(i) /\ ~Collected(i) /\ ~Noticed(issues, i) /\ ~Titled(i)
    BY <1>1, <1>3 DEF ReadSoFar, InPreamble, Titled
  <2> QED BY <1>3, <2>1 DEF Untouched
<1>4. ASSUME NEW i \in Nat, Untouched(i), i >= index', NEW a \in DOMAIN AllArticles'
      PROVE  ~Holds(a, i)'
  <2>1. CASE a \in DOMAIN AllArticles
    <3>1. \A k \in Elements(AllArticles[a].lines) : k < index
      BY <2>1, Zenon DEF ReadSoFar
    <3>2. ~Holds(a, i)
      BY <1>1, <1>4, <3>1 DEF Holds
    <3> QED BY <1>4, <2>1, <3>2 DEF Untouched
  <2>2. CASE a \notin DOMAIN AllArticles
    <3>1. AllArticles'[a].lines = <<>>
      BY <1>4, <2>2, RowsAreTyped DEF RowsAfter, ArticlesSame, ArticleAdded
    <3> QED BY <3>1 DEF Holds, Elements
  <2> QED BY <2>1, <2>2
<1>5. \A i \in Nat : i >= index' => Untouched(i)
  BY <1>1
<1>6. /\ Elements(preamble') \subseteq Nat
      /\ \A n \in DOMAIN nodes' : nodes'[n].title \subseteq Nat
      /\ \A a \in DOMAIN AllArticles' : Elements(AllArticles'[a].lines) \subseteq Nat
  <2>1. preamble' \in Seq(Nat) /\ nodes' \in Seq(NodeRow)
    BY DEF ParseTypes
  <2>2. \A list \in Seq(Nat) : Elements(list) \subseteq Nat
    BY DEF Elements
  <2>3. \A n \in DOMAIN nodes' : nodes'[n].title \subseteq Nat
    <3>1. \A n \in DOMAIN nodes' : nodes'[n] \in NodeRow
      BY <2>1
    <3> QED BY <3>1 DEF NodeRow
  <2>4. \A a \in DOMAIN AllArticles' : AllArticles'[a].lines \in Seq(Nat)
    <3>1. \A a \in DOMAIN AllArticles : AllArticles[a].lines \in Seq(Nat)
      BY RowsAreTyped
    <3>2. /\ articles' \in Seq(ArticleRow)
          /\ currentArticle' = <<>> \/ \E x \in ArticleRow : currentArticle' = <<x>>
      BY DEF ParseTypes
    <3>3. AllArticles' \in Seq(ArticleRow)
      <4>1. CASE currentArticle' = <<>>
        BY <3>2, <4>1 DEF AllArticles
      <4>2. ASSUME NEW x \in ArticleRow, currentArticle' = <<x>>
            PROVE  AllArticles' \in Seq(ArticleRow)
        BY <3>2, <4>2 DEF AllArticles
      <4> QED BY <3>2, <4>1, <4>2
    <3>4. \A a \in DOMAIN AllArticles' : AllArticles'[a] \in ArticleRow
      BY <3>3
    <3> QED BY <3>4 DEF ArticleRow
  <2> QED BY <2>1, <2>2, <2>3, <2>4
<1>7. /\ \A i \in Elements(preamble') : i < index'
      /\ \A n \in DOMAIN nodes' : \A i \in nodes'[n].title : i < index'
      /\ \A i \in Nat : Noticed(issues', i) \/ Collected(i)' => i < index'
  BY <1>1, <1>3, <1>5, <1>6 DEF InPreamble, Titled
<1>8. \A a \in DOMAIN AllArticles' : \A i \in Elements(AllArticles'[a].lines) : i < index'
  <2> SUFFICES ASSUME NEW a \in DOMAIN AllArticles', NEW i \in Elements(AllArticles'[a].lines)
               PROVE  i < index'
    OBVIOUS
  <2>1. Holds(a, i)'
    BY Zenon DEF Holds, Elements
  <2>2. i \in Nat
    BY <1>6
  <2>3. ~(i >= index')
    BY <1>4, <1>5, <2>1, <2>2
  <2> QED BY <1>1, <2>2, <2>3
<1>9. \A i \in Nat : Noticed(issues, i)' <=> Noticed(issues', i)
  BY Zenon DEF Noticed
<1> QED BY <1>1, <1>2, <1>7, <1>8, <1>9, Zenon DEF ReadSoFar, Elements

\* What the step does to the lines that are being collected.
CollectingAfter ==
  \/ /\ IsToken(index) /\ unassigned' = <<>>
     /\ \A i \in (index + 1)..(index' - 1) : ~Stray(i)
  \/ /\ ~IsToken(index) /\ index' = index + 1
     /\ unassigned' # <<>> <=> unassigned # <<>> \/ Stray(index)

LEMMA NextIsToken ==
  ASSUME ParseTypes, ReadSoFar, Reading, index' = index + 1, unassigned' = <<>>,
         line.what \in {"heading", "article"}
  PROVE  CollectingAfter
<1>1. index \in Nat /\ IsToken(index)
  BY NextIsNoTitle DEF ParseTypes
<1>2. (index + 1)..(index' - 1) = {}
  BY <1>1
<1> QED BY <1>1, <1>2 DEF CollectingAfter

LEMMA CollectingKept ==
  ASSUME ParseTypes, Reading, LinesRead, Collecting, CollectingAfter
  PROVE  Collecting'
<1>1. /\ index \in 1..Len(doc) /\ Len(doc) \in Nat /\ index \in Nat
      /\ index' \in Nat /\ index < index' /\ doc' = doc
  BY ReadsOn
<1>2. /\ \A i : Stray(i)' <=> Stray(i)
      /\ \A r, i : SamePassage(r, i)' <=> SamePassage(r, i)
  BY <1>1, PlacesStay, DocumentStays, Zenon DEF SamePassage
<1>3. CASE /\ IsToken(index) /\ unassigned' = <<>>
           /\ \A i \in (index + 1)..(index' - 1) : ~Stray(i)
  <2>1. ASSUME NEW r \in 1..(index' - 1), Stray(r), SamePassage(r, index' - 1) PROVE FALSE
    <3>1. r \notin (index + 1)..(index' - 1)
      BY <1>3, <2>1
    <3>2. index \in r..(index' - 1)
      <4>1. PICK i, j : i = index /\ j = index'
        OBVIOUS
      <4>2. i \in Nat /\ j \in Nat /\ i < j /\ r \in 1..(j - 1) /\ r \notin (i + 1)..(j - 1)
        BY <1>1, <2>1, <3>1, <4>1
      <4>3. i \in r..(j - 1)
        BY <4>2
      <4> QED BY <4>1, <4>3
    <3> QED BY <1>3, <2>1, <3>2 DEF SamePassage
  <2>2. ~\E r \in 1..(index' - 1) : Stray(r)' /\ SamePassage(r, index - 1)'
    <3>1. \A r : SamePassage(r, index - 1)' <=> SamePassage(r, index' - 1)
      BY <1>1, DocumentStays, Zenon DEF SamePassage
    <3> QED BY <1>2, <2>1, <3>1
  <2> QED BY <1>3, <2>2 DEF Collecting
<1>4. CASE /\ ~IsToken(index) /\ index' = index + 1
           /\ unassigned' # <<>> <=> unassigned # <<>> \/ Stray(index)
  <2>1. \A r \in 1..index : SamePassage(r, index) <=> r = index \/ SamePassage(r, index - 1)
    <3> SUFFICES ASSUME NEW r \in 1..index
                 PROVE  SamePassage(r, index) <=> r = index \/ SamePassage(r, index - 1)
      OBVIOUS
    <3>1. \A k : k \in r..index <=> k = index \/ k \in r..(index - 1)
      BY <1>1
    <3> QED BY <1>1, <1>4, <3>1 DEF SamePassage
  <2>2. \A r : r \in 1..index <=> r = index \/ r \in 1..(index - 1)
    BY <1>1
  <2>3. unassigned' # <<>> <=> \E r \in 1..index : Stray(r) /\ SamePassage(r, index)
    BY <1>1, <1>4, <2>1, <2>2 DEF Collecting
  <2>4. \A r : SamePassage(r, index - 1)' <=> SamePassage(r, index)
    <3>1. index' - 1 = index
      BY <1>1, <1>4
    <3> QED BY <3>1, <1>1, DocumentStays DEF SamePassage
  <2>5. (index - 1)' = index
    BY <1>1, <1>4
  <2> QED BY <1>2, <2>3, <2>4, <2>5, Zenon DEF Collecting
<1> QED BY <1>3, <1>4 DEF CollectingAfter

LEMMA LineKeeps ==
  ASSUME ParseInv, Reading, LinesRead, RowsAfter, HeadingAfter, TokenAfter, ParseTypes',
         CollectingAfter,
         \A t \in 1..Len(doc) : TitleOf(index, t) => t < index',
         \A i : i \notin index..(index' - 1) => Untouched(i),
         \A i \in index..(index' - 1) : doc[i].what = "text" => LineInItsPlace(i)'
  PROVE  ParseInv'
<1>1. /\ ParseTypes /\ ReadInOrder /\ ActiveHeadings /\ HangsFromItsHeading
      /\ phase = "reading" /\ LastToken /\ ReadSoFar /\ Collecting /\ TextPlaced
  BY DEF ParseInv, Reading
<1>2. /\ index \in 1..Len(doc) /\ Len(doc) \in Nat /\ index \in Nat
      /\ index' \in Nat /\ index < index' /\ doc' = doc /\ phase' = "reading"
  BY <1>1, ReadsOn
<1>3. Innermost(current) \in 0..Len(nodes)
  BY <1>1, HangsFromInnermost
<1>4. DOMAIN nodes' = 1..Len(nodes') /\ Len(nodes') \in Nat
  BY DEF ParseTypes
<1>5. ReadInOrder'
  BY <1>1, <1>3, <1>4, OrderKept
<1>6. nodes' # nodes => line.level \in Levels
  <2> SUFFICES ASSUME nodes' # nodes PROVE line.level \in Levels
    OBVIOUS
  <2>1. line.what = "heading"
    BY DEF HeadingAfter, IsStructureHeading
  <2>2. doc \in Seq(LineKinds)
    BY <1>1 DEF ParseTypes
  <2>3. line \in LineKinds
    BY <1>2, <2>2 DEF line
  <2> QED BY <2>1, <2>3, HeadingLevels
<1>7. HangsFromItsHeading'
  BY <1>1, <1>6, HangingKept
<1>8. ActiveHeadings'
  BY <1>1, ActiveKept DEF HeadingAfter
<1>9. LastToken' /\ ReadSoFar' /\ Collecting'
  BY <1>1, LastTokenKept, ReadSoFarKept, CollectingKept
<1>10. ASSUME NEW i \in 1..(index' - 1), doc[i].what = "text" PROVE LineInItsPlace(i)'
  <2>1. CASE i \in 1..(index - 1)
    <3>1. Untouched(i) /\ LineInItsPlace(i)
      BY <1>1, <1>2, <1>10, <2>1, Ranges DEF TextPlaced
    <3>2. ArticlesSame \/ ArticleAdded
      BY DEF RowsAfter
    <3> QED BY <1>1, <1>2, <2>1, <3>1, <3>2, PlaceKept DEF Untouched
  <2>2. CASE i \in index..(index' - 1)
    BY <1>10, <2>2
  <2> QED BY <1>2, <2>1, <2>2, Ranges
<1>11. TextPlaced'
  BY <1>2, <1>10 DEF TextPlaced
<1>12. DraftIsParse'
  BY <1>2 DEF DraftIsParse
<1> QED BY <1>5, <1>7, <1>8, <1>9, <1>11, <1>12 DEF ParseInv

-----------------------------------------------------------------------------
\* One line, and what it adds

\* A step of the loop that reads one line.
LEMMA OneLineRead ==
  ASSUME ParseTypes, Reading, UNCHANGED <<doc, phase, draft>>, index' = index + 1
  PROVE  LinesRead /\ index \in Nat /\ index..(index' - 1) = {index}
<1>1. index \in 1..Len(doc) /\ Len(doc) \in Nat /\ index \in Nat
  BY DEF Reading, ParseTypes
<1>2. index + 1 \in (index + 1)..(Len(doc) + 1) /\ (index + 1)..(index + 1 - 1) = {}
      /\ index..(index + 1 - 1) = {index}
  BY <1>1
<1> QED BY <1>1, <1>2 DEF LinesRead

LEMMA SameRowsAfter ==
  ASSUME ParseTypes, UNCHANGED <<nodes, articles, currentArticle, documentOrder>>
  PROVE  RowsAfter /\ ArticlesSame /\ AllArticles' = AllArticles
BY DEF RowsAfter, ArticlesSame, AllArticles

LEMMA SkipKeeps ==
  ASSUME ParseInv, SkipPageMarker
  PROVE  ParseInv'
<1>1. /\ Reading /\ line.what = "page" /\ index' = index + 1
      /\ doc' = doc /\ phase' = phase /\ draft' = draft /\ current' = current
      /\ documentOrder' = documentOrder /\ sawLegalToken' = sawLegalToken
      /\ nodes' = nodes /\ articles' = articles /\ issues' = issues /\ preamble' = preamble
      /\ currentArticle' = currentArticle /\ unassigned' = unassigned
  BY DEF SkipPageMarker, context, results, pending
<1>2. ParseTypes
  BY DEF ParseInv
<1>3. LinesRead /\ index \in Nat /\ index..(index' - 1) = {index}
  BY <1>1, <1>2, OneLineRead
<1>4. RowsAfter /\ AllArticles' = AllArticles
  BY <1>1, <1>2, SameRowsAfter
<1>5. HeadingAfter /\ TokenAfter
  BY <1>1 DEF HeadingAfter, TokenAfter
<1>6. ParseTypes'
  BY <1>1, <1>2 DEF ParseTypes, Reading
<1>7. \A i : Untouched(i)
  BY <1>1, <1>4, Zenon DEF Untouched, InPreamble, Titled, Collected, Holds, Noticed, Elements
<1>8. \A t : ~TitleOf(index, t)
  BY <1>1 DEF TitleOf, IsStructureHeading, line
<1>9. \A i \in index..(index' - 1) : doc[i].what # "text"
  BY <1>1, <1>3 DEF line
<1>10. CollectingAfter
  BY <1>1 DEF CollectingAfter, IsToken, Stray, line
<1> QED BY <1>1, <1>3, <1>4, <1>5, <1>6, <1>7, <1>8, <1>9, <1>10, LineKeeps

LEMMA TextIsNoToken ==
  ASSUME ParseTypes, ReadSoFar, Reading, line.what \in {"text", "blank", "page"}
  PROVE  ~IsTitle(index) /\ ~IsToken(index) /\ \A t : ~TitleOf(index, t)
<1>1. ~IsTitle(index) /\ ~IsToken(index)
  BY NextIsNoTitle
<1>2. \A t : ~TitleOf(index, t)
  BY DEF TitleOf, IsStructureHeading, line
<1> QED BY <1>1, <1>2

\* Where a line of text belongs, told by the last token before it.
LEMMA WhereItBelongs ==
  ASSUME ParseTypes, LastToken, ReadSoFar, Reading, ~IsToken(index)
  PROVE  /\ currentArticle = <<>> => Home(index) = {}
         /\ currentArticle = <<>> => (Early(index) <=> ~sawLegalToken)
         /\ currentArticle # <<>> => ~Early(index) /\ Home(index) = {currentArticle[1].at}
<1>1. index \in 1..Len(doc) /\ Len(doc) \in Nat /\ index \in Nat /\ sawLegalToken \in BOOLEAN
  BY DEF Reading, ParseTypes
<1>2. \A k \in 1..index : k = index \/ k \in 1..(index - 1)
  BY <1>1
<1>3. Early(index) <=> ~sawLegalToken
  BY <1>1, <1>2 DEF Early, LastToken
<1>4. CASE currentArticle = <<>> /\ ~sawLegalToken
  <2>1. \A a \in 1..(index - 1) : ~IsToken(a)
    BY <1>4 DEF LastToken
  <2> QED BY <1>3, <1>4, <2>1 DEF Home, InArticle
<1>5. CASE currentArticle = <<>> /\ sawLegalToken
  <2>1. PICK h \in 1..(index - 1) :
          /\ IsToken(h) /\ doc[h].what = "heading"
          /\ \A k \in (h + 1)..(index - 1) : ~IsToken(k)
    BY <1>5 DEF LastToken
  <2>2. ASSUME NEW a \in 1..(index - 1), InArticle(a, index) PROVE FALSE
    <3>1. doc[a].what = "article" /\ IsToken(a) /\ \A k \in (a + 1)..index : ~IsToken(k)
      BY <2>2 DEF InArticle
    <3>2. a # h
      BY <2>1, <3>1
    <3>3. ~(h \in (a + 1)..index) /\ ~(a \in (h + 1)..(index - 1))
      BY <2>1, <3>1
    <3> QED BY <1>1, <3>2, <3>3
  <2> QED BY <1>3, <1>5, <2>2 DEF Home
<1>6. CASE currentArticle # <<>>
  <2>1. PICK c : c = currentArticle[1].at
    OBVIOUS
  <2>2. /\ c \in 1..(index - 1) /\ IsToken(c) /\ doc[c].what = "article"
        /\ \A k \in (c + 1)..(index - 1) : ~IsToken(k)
    BY <1>6, <2>1 DEF LastToken
  <2>3. InArticle(c, index)
    BY <1>1, <2>2 DEF InArticle
  <2>4. ASSUME NEW a \in 1..(index - 1), InArticle(a, index) PROVE a = c
    <3>1. IsToken(a) /\ \A k \in (a + 1)..index : ~IsToken(k)
      BY <2>4 DEF InArticle
    <3>2. ~(c \in (a + 1)..index) /\ ~(a \in (c + 1)..(index - 1))
      BY <2>2, <3>1
    <3> QED BY <1>1, <2>2, <3>2
  <2>5. ~Early(index)
    BY <1>1, <2>2 DEF Early
  <2> QED BY <1>6, <2>1, <2>2, <2>3, <2>4, <2>5 DEF Home
<1> QED BY <1>3, <1>4, <1>5, <1>6

LEMMA NotReadYet ==
  ASSUME ParseTypes, ReadSoFar, NEW i \in Nat, i >= index
  PROVE  /\ ~InPreamble(i) /\ ~Titled(i) /\ ~Collected(i) /\ ~Noticed(issues, i)
         /\ \A a \in DOMAIN AllArticles : ~Holds(a, i)
<1>1. index \in Nat
  BY DEF ParseTypes
<1>2. /\ \A k \in Elements(preamble) : k < index
      /\ \A n \in DOMAIN nodes : \A k \in nodes[n].title : k < index
      /\ \A k \in Nat : Noticed(issues, k) \/ Collected(k) => k < index
      /\ \A a \in DOMAIN AllArticles : \A k \in Elements(AllArticles[a].lines) : k < index
  BY Zenon DEF ReadSoFar
<1>3. ~(i < index)
  BY <1>1
<1> QED BY <1>2, <1>3 DEF InPreamble, Titled, Holds

\* Blank lines and text: what follows a token goes where the token says.
LEMMA PreambleKeeps ==
  ASSUME ParseInv, PreambleText
  PROVE  ParseInv'
<1>1. /\ Reading /\ line.what \in {"text", "blank"} /\ index' = index + 1
      /\ currentArticle = <<>> /\ ~sawLegalToken /\ preamble' = Append(preamble, index)
      /\ doc' = doc /\ phase' = phase /\ draft' = draft /\ current' = current
      /\ documentOrder' = documentOrder /\ sawLegalToken' = sawLegalToken
      /\ nodes' = nodes /\ articles' = articles /\ issues' = issues
      /\ currentArticle' = currentArticle /\ unassigned' = unassigned
  BY DEF PreambleText, context, pending
<1>2. ParseTypes /\ LastToken /\ ReadSoFar
  BY <1>1 DEF ParseInv, Reading
<1>3. LinesRead /\ index \in Nat /\ index..(index' - 1) = {index}
  BY <1>1, <1>2, OneLineRead
<1>4. RowsAfter /\ ArticlesSame /\ AllArticles' = AllArticles
  BY <1>1, <1>2, SameRowsAfter
<1>5. HeadingAfter /\ TokenAfter
  BY <1>1 DEF HeadingAfter, TokenAfter
<1>6. ParseTypes'
  <2>1. preamble' \in Seq(Nat)
    BY <1>1, <1>2, <1>3 DEF ParseTypes
  <2> QED BY <1>1, <1>2, <2>1 DEF ParseTypes, Reading
<1>7. \A i : InPreamble(i)' <=> InPreamble(i) \/ i = index
  <2>1. preamble \in Seq(Nat)
    BY <1>2 DEF ParseTypes
  <2> QED BY <1>1, <1>3, <2>1, ElementsOfLists DEF InPreamble
<1>8. \A i : /\ Titled(i)' <=> Titled(i)
             /\ Collected(i)' <=> Collected(i)
             /\ Noticed(issues', i) <=> Noticed(issues, i)
             /\ \A a \in DOMAIN AllArticles : Holds(a, i)' <=> Holds(a, i)
  BY <1>1, <1>4, Zenon DEF Titled, Collected, Holds, Noticed, Elements
<1>9. \A i : i \notin index..(index' - 1) => Untouched(i)
  BY <1>3, <1>7, <1>8 DEF Untouched
<1>10. ~IsTitle(index) /\ ~IsToken(index) /\ \A t : ~TitleOf(index, t)
  BY <1>1, <1>2, TextIsNoToken
<1>11. ASSUME NEW i, i = index PROVE LineInItsPlace(i)'
  <2>1. Home(i) = {} /\ Early(i) /\ ~IsTitle(i) /\ ~OpensPassage(i)
    BY <1>1, <1>2, <1>10, <1>11, WhereItBelongs DEF OpensPassage, Stray
  <2>2. /\ ~Titled(i) /\ ~Collected(i) /\ ~Noticed(issues, i)
        /\ \A a \in DOMAIN AllArticles : ~Holds(a, i)
    BY <1>2, <1>3, <1>11, NotReadYet
  <2>3. /\ Home(i)' = Home(i) /\ (Early(i)' <=> Early(i)) /\ (IsTitle(i)' <=> IsTitle(i))
        /\ OpensPassage(i)' <=> OpensPassage(i)
    BY <1>1, PlacesStay
  <2>4. InPreamble(i)' /\ ~Titled(i)' /\ ~Collected(i)' /\ ~Noticed(issues', i)
    BY <1>7, <1>8, <1>11, <2>2
  <2>5. \A a \in DOMAIN AllArticles' : ~Holds(a, i)'
    BY <1>4, <1>8, <2>2
  <2> QED BY <2>1, <2>3, <2>4, <2>5, PlaceMeansNext, Zenon
<1>12. \A i \in index..(index' - 1) : LineInItsPlace(i)'
  BY <1>3, <1>11
<1>13. CollectingAfter
  <2>1. Early(index)
    BY <1>1, <1>2, <1>10, WhereItBelongs
  <2> QED BY <1>1, <1>10, <2>1 DEF CollectingAfter, Stray
<1> QED BY <1>1, <1>3, <1>4, <1>5, <1>6, <1>9, <1>10, <1>12, <1>13, LineKeeps

\* A text without a heading or an article before it that is still open.
LEMMA LooseKeeps ==
  ASSUME ParseInv, LooseText
  PROVE  ParseInv'
<1>1. /\ Reading /\ line.what \in {"text", "blank"} /\ index' = index + 1
      /\ currentArticle = <<>> /\ sawLegalToken
      /\ unassigned' = IF line.what = "blank" THEN unassigned ELSE Append(unassigned, index)
      /\ doc' = doc /\ phase' = phase /\ draft' = draft /\ current' = current
      /\ documentOrder' = documentOrder /\ sawLegalToken' = sawLegalToken
      /\ nodes' = nodes /\ articles' = articles /\ issues' = issues /\ preamble' = preamble
      /\ currentArticle' = currentArticle
  BY DEF LooseText, context, results
<1>2. ParseTypes /\ LastToken /\ ReadSoFar
  BY <1>1 DEF ParseInv, Reading
<1>3. LinesRead /\ index \in Nat /\ index..(index' - 1) = {index}
  BY <1>1, <1>2, OneLineRead
<1>4. RowsAfter /\ ArticlesSame /\ AllArticles' = AllArticles
  BY <1>1, <1>2, SameRowsAfter
<1>5. HeadingAfter /\ TokenAfter
  BY <1>1 DEF HeadingAfter, TokenAfter
<1>6. ParseTypes'
  <2>1. unassigned' \in Seq(Nat)
    BY <1>1, <1>2, <1>3 DEF ParseTypes
  <2> QED BY <1>1, <1>2, <2>1 DEF ParseTypes, Reading
<1>7. \A i : Collected(i)' <=>
             Collected(i) \/ (unassigned = <<>> /\ line.what # "blank" /\ i = index)
  <2>1. unassigned \in Seq(Nat) /\ index \in Nat
    BY <1>2 DEF ParseTypes
  <2>2. Append(unassigned, index) # <<>>
    BY <2>1
  <2>3. CASE line.what = "blank"
    BY <1>1, <2>3 DEF Collected
  <2>4. CASE line.what # "blank" /\ unassigned = <<>>
    <3>1. Append(unassigned, index)[1] = index
      BY <2>4
    <3> QED BY <1>1, <2>2, <2>4, <3>1 DEF Collected
  <2>5. CASE line.what # "blank" /\ unassigned # <<>>
    <3>1. Append(unassigned, index)[1] = unassigned[1]
      BY <2>1, <2>5
    <3> QED BY <1>1, <2>2, <2>5, <3>1 DEF Collected
  <2> QED BY <2>3, <2>4, <2>5
<1>8. \A i : /\ Titled(i)' <=> Titled(i)
             /\ InPreamble(i)' <=> InPreamble(i)
             /\ Noticed(issues', i) <=> Noticed(issues, i)
             /\ \A a \in DOMAIN AllArticles : Holds(a, i)' <=> Holds(a, i)
  BY <1>1, <1>4, Zenon DEF Titled, InPreamble, Holds, Noticed, Elements
<1>9. \A i : i \notin index..(index' - 1) => Untouched(i)
  BY <1>3, <1>7, <1>8 DEF Untouched
<1>10. ~IsTitle(index) /\ ~IsToken(index) /\ \A t : ~TitleOf(index, t)
  BY <1>1, <1>2, TextIsNoToken
<1>11. Home(index) = {} /\ ~Early(index) /\ ~IsTitle(index)
  BY <1>1, <1>2, <1>10, WhereItBelongs
<1>12. Stray(index) <=> line.what = "text"
  BY <1>11 DEF Stray, line
<1>13. Stray(index) => (OpensPassage(index) <=> unassigned = <<>>)
  <2>1. \A r \in 1..(index - 1) : SamePassage(r, index) <=> SamePassage(r, index - 1)
    <3> SUFFICES ASSUME NEW r \in 1..(index - 1)
                 PROVE  SamePassage(r, index) <=> SamePassage(r, index - 1)
      OBVIOUS
    <3>1. \A k : k \in r..index <=> k = index \/ k \in r..(index - 1)
      BY <1>3
    <3> QED BY <1>10, <3>1 DEF SamePassage
  <2>2. Collecting
    BY <1>1 DEF ParseInv, Reading
  <2> QED BY <2>1, <2>2 DEF OpensPassage, Collecting
<1>14. ASSUME NEW i, i = index, doc[i].what = "text" PROVE LineInItsPlace(i)'
  <2>1. Home(i) = {} /\ ~Early(i) /\ ~IsTitle(i) /\ (OpensPassage(i) <=> unassigned = <<>>)
    BY <1>11, <1>12, <1>13, <1>14 DEF line
  <2>2. /\ ~Titled(i) /\ ~InPreamble(i) /\ ~Collected(i) /\ ~Noticed(issues, i)
        /\ \A a \in DOMAIN AllArticles : ~Holds(a, i)
    BY <1>2, <1>3, <1>14, NotReadYet
  <2>3. /\ Home(i)' = Home(i) /\ (Early(i)' <=> Early(i)) /\ (IsTitle(i)' <=> IsTitle(i))
        /\ OpensPassage(i)' <=> OpensPassage(i)
    BY <1>1, PlacesStay
  <2>4. /\ ~InPreamble(i)' /\ ~Titled(i)' /\ ~Noticed(issues', i)
        /\ Collected(i)' <=> unassigned = <<>>
    BY <1>7, <1>8, <1>14, <2>2 DEF line
  <2>5. \A a \in DOMAIN AllArticles' : ~Holds(a, i)'
    BY <1>4, <1>8, <2>2
  <2> QED BY <2>1, <2>3, <2>4, <2>5, PlaceMeansNext, Zenon
<1>15. \A i \in index..(index' - 1) : doc[i].what = "text" => LineInItsPlace(i)'
  BY <1>3, <1>14
<1>16. CollectingAfter
  <2>1. unassigned' # <<>> <=> unassigned # <<>> \/ Stray(index)
    <3>1. unassigned \in Seq(Nat) /\ index \in Nat
      BY <1>2, <1>3, Zenon DEF ParseTypes
    <3>2. Append(unassigned, index) # <<>>
      BY <3>1
    <3> QED BY <1>1, <1>12, <3>2
  <2> QED BY <1>1, <1>10, <2>1 DEF CollectingAfter
<1> QED BY <1>1, <1>3, <1>4, <1>5, <1>6, <1>9, <1>10, <1>15, <1>16, LineKeeps

\* Text under an article goes to that article.
LEMMA ArticleTextKeeps ==
  ASSUME ParseInv, ArticleText
  PROVE  ParseInv'
<1>1. /\ Reading /\ line.what \in {"text", "blank"} /\ index' = index + 1
      /\ currentArticle # <<>>
      /\ currentArticle' = <<[currentArticle[1] EXCEPT !.lines = Append(@, index)]>>
      /\ doc' = doc /\ phase' = phase /\ draft' = draft /\ current' = current
      /\ documentOrder' = documentOrder /\ sawLegalToken' = sawLegalToken
      /\ nodes' = nodes /\ articles' = articles /\ issues' = issues /\ preamble' = preamble
      /\ unassigned' = unassigned
  BY DEF ArticleText, context, results
<1>2. ParseTypes /\ LastToken /\ ReadSoFar
  BY <1>1 DEF ParseInv, Reading
<1>3. LinesRead /\ index \in Nat /\ index..(index' - 1) = {index}
  BY <1>1, <1>2, OneLineRead
<1>4. PICK x \in ArticleRow : currentArticle = <<x>>
  BY <1>1, <1>2 DEF ParseTypes
<1>5. PICK y : y = [x EXCEPT !.lines = Append(@, index)]
  OBVIOUS
<1>6. /\ y \in ArticleRow /\ y.at = x.at /\ y.node = x.node /\ y.order = x.order
      /\ y.lines = Append(x.lines, index) /\ x.lines \in Seq(Nat)
      /\ currentArticle' = <<y>> /\ currentArticle[1] = x
  <2>1. currentArticle[1] = x
    BY <1>4
  <2>2. currentArticle' = <<y>>
    BY <1>1, <1>5, <2>1
  <2>3. x.lines \in Seq(Nat) /\ x = [node |-> x.node, at |-> x.at, order |-> x.order,
                                   lines |-> x.lines]
    BY <1>4 DEF ArticleRow
  <2>4. /\ y.at = x.at /\ y.node = x.node /\ y.order = x.order
        /\ y.lines = Append(x.lines, index)
        /\ y = [node |-> x.node, at |-> x.at, order |-> x.order, lines |-> y.lines]
    BY <1>5, <2>3
  <2>5. x.node \in Nat /\ x.at \in Nat /\ x.order \in Nat /\ y.lines \in Seq(Nat)
    BY <1>3, <1>4, <2>3, <2>4 DEF ArticleRow
  <2>6. y \in ArticleRow
    BY <2>4, <2>5 DEF ArticleRow
  <2> QED BY <2>1, <2>2, <2>3, <2>4, <2>6
<1>7. PICK last : last = Len(articles) + 1
  OBVIOUS
<1>8. /\ DOMAIN AllArticles = 1..last /\ DOMAIN AllArticles' = 1..last /\ last \in 1..last
      /\ \A a \in 1..last : a # last => AllArticles'[a] = AllArticles[a]
      /\ AllArticles[last] = x /\ AllArticles'[last] = y
  <2>1. articles \in Seq(ArticleRow) /\ Len(articles) \in Nat
    BY <1>2 DEF ParseTypes
  <2>2. AllArticles = articles \o <<x>>
    BY <1>4 DEF AllArticles
  <2>3. AllArticles' = articles \o <<y>>
    BY <1>1, <1>6 DEF AllArticles
  <2>4. /\ DOMAIN AllArticles = 1..last /\ AllArticles[last] = x
        /\ \A a \in 1..Len(articles) : AllArticles[a] = articles[a]
    BY <1>7, <2>1, <2>2, OneMore
  <2>5. /\ DOMAIN AllArticles' = 1..last /\ AllArticles'[last] = y
        /\ \A a \in 1..Len(articles) : AllArticles'[a] = articles[a]
    BY <1>6, <1>7, <2>1, <2>3, OneMore
  <2>6. last \in 1..last /\ \A a \in 1..last : a # last => a \in 1..Len(articles)
    BY <1>7, <2>1
  <2> QED BY <2>4, <2>5, <2>6
<1>9. ArticlesSame
  <2> SUFFICES ASSUME NEW a \in 1..last
               PROVE  /\ AllArticles'[a].at = AllArticles[a].at
                      /\ AllArticles'[a].node = AllArticles[a].node
                      /\ AllArticles'[a].order = AllArticles[a].order
    BY <1>8 DEF ArticlesSame
  <2>1. CASE a = last
    BY <1>6, <1>8, <2>1
  <2>2. CASE a # last
    BY <1>8, <2>2
  <2> QED BY <2>1, <2>2
<1>10. RowsAfter
  BY <1>1, <1>9 DEF RowsAfter
<1>11. HeadingAfter /\ TokenAfter
  BY <1>1, <1>6 DEF HeadingAfter, TokenAfter
<1>12. ParseTypes'
  <2>1. \E z \in ArticleRow : currentArticle' = <<z>>
    BY <1>6
  <2>2. index' \in 1..(Len(doc) + 1)
    BY <1>1, <1>2, <1>3 DEF ParseTypes, Reading
  <2> QED BY <1>1, <1>2, <2>1, <2>2, Zenon DEF ParseTypes
<1>13. \A i : \A a \in 1..last : Holds(a, i)' <=> Holds(a, i) \/ (a = last /\ i = index)
  <2> SUFFICES ASSUME NEW i, NEW a \in 1..last
               PROVE  Holds(a, i)' <=> Holds(a, i) \/ (a = last /\ i = index)
    OBVIOUS
  <2>1. i \in Elements(Append(x.lines, index)) <=> i \in Elements(x.lines) \/ i = index
    BY <1>3, <1>6, ElementsOfLists
  <2>2. Holds(a, i) <=> i \in Elements(AllArticles[a].lines)
    BY DEF Holds
  <2>3. Holds(a, i)' <=> i \in Elements(AllArticles'[a].lines)
    BY Zenon DEF Holds, Elements
  <2>4. CASE a = last
    BY <1>6, <1>8, <2>1, <2>2, <2>3, <2>4
  <2>5. CASE a # last
    BY <1>8, <2>2, <2>3, <2>5
  <2> QED BY <2>4, <2>5
<1>14. \A i : /\ Titled(i)' <=> Titled(i)
              /\ InPreamble(i)' <=> InPreamble(i)
              /\ Collected(i)' <=> Collected(i)
              /\ Noticed(issues', i) <=> Noticed(issues, i)
  BY <1>1, Zenon DEF Titled, InPreamble, Collected, Noticed, Elements
<1>15. \A i : i \notin index..(index' - 1) => Untouched(i)
  BY <1>3, <1>8, <1>13, <1>14 DEF Untouched
<1>16. ~IsTitle(index) /\ ~IsToken(index) /\ \A t : ~TitleOf(index, t)
  BY <1>1, <1>2, TextIsNoToken
<1>17. ASSUME NEW i, i = index PROVE LineInItsPlace(i)'
  <2>1. Home(i) = {x.at} /\ ~Early(i) /\ ~IsTitle(i) /\ ~OpensPassage(i)
    BY <1>1, <1>2, <1>6, <1>16, <1>17, WhereItBelongs DEF OpensPassage, Stray
  <2>2. /\ ~Titled(i) /\ ~InPreamble(i) /\ ~Collected(i) /\ ~Noticed(issues, i)
        /\ \A a \in DOMAIN AllArticles : ~Holds(a, i)
    BY <1>2, <1>3, <1>17, NotReadYet
  <2>3. /\ Home(i)' = Home(i) /\ (Early(i)' <=> Early(i)) /\ (IsTitle(i)' <=> IsTitle(i))
        /\ OpensPassage(i)' <=> OpensPassage(i)
    BY <1>1, PlacesStay
  <2>4. ~InPreamble(i)' /\ ~Titled(i)' /\ ~Collected(i)' /\ ~Noticed(issues', i)
    BY <1>14, <2>2
  <2>5. \A a \in DOMAIN AllArticles' : Holds(a, i)' <=> a = last
    BY <1>8, <1>13, <1>17, <2>2
  <2>6. \A a \in DOMAIN AllArticles' : AllArticles'[a].at = x.at <=> a = last
    <3>1. \A a \in DOMAIN AllArticles : a # last => AllArticles[a].at # x.at
      <4>1. \A a, b \in DOMAIN AllArticles : a < b => AllArticles[a].at < AllArticles[b].at
        BY DEF ParseInv, ReadInOrder
      <4>2. \A a \in 1..last : a # last => a < last
        BY <1>2, <1>7 DEF ParseTypes
      <4>3. \A a \in DOMAIN AllArticles : AllArticles[a].at \in Nat
        BY <1>2, RowsAreTyped
      <4> QED BY <1>8, <4>1, <4>2, <4>3
    <3> QED BY <1>6, <1>8, <3>1
  <2>7. \E a \in DOMAIN AllArticles' : Holds(a, i)'
    BY <1>8, <2>5
  <2> QED BY <2>1, <2>3, <2>4, <2>5, <2>6, <2>7, PlaceMeansNext, Zenon
<1>18. \A i \in index..(index' - 1) : LineInItsPlace(i)'
  BY <1>3, <1>17
<1>19. CollectingAfter
  <2>1. Home(index) # {}
    BY <1>1, <1>2, <1>16, WhereItBelongs
  <2> QED BY <1>1, <1>16, <2>1 DEF CollectingAfter, Stray
<1> QED BY <1>1, <1>3, <1>10, <1>11, <1>12, <1>15, <1>16, <1>18, <1>19, LineKeeps

-----------------------------------------------------------------------------
\* Tokens, which end the article and the loose lines before them

\* The articles after a step that closes the last of them.
LEMMA ArticlesClosed ==
  ASSUME ParseTypes, articles' = AllArticles, currentArticle' = <<>>
  PROVE  /\ AllArticles' = AllArticles /\ ArticlesSame /\ articles' \in Seq(ArticleRow)
         /\ \A a \in DOMAIN AllArticles : \A i : Holds(a, i)' <=> Holds(a, i)
<1>1. AllArticles \in Seq(ArticleRow)
  BY RowsAreTyped
<1>2. AllArticles' = AllArticles
  <2>1. PICK all : all = AllArticles
    OBVIOUS
  <2>2. AllArticles' = all \o <<>> /\ all \in Seq(ArticleRow)
    BY <1>1, <2>1 DEF AllArticles
  <2> QED BY <2>1, <2>2
<1> QED BY <1>1, <1>2, Zenon DEF ArticlesSame, Holds, Elements

\* The notices after a token: the loose lines have one, and the token may get another.
LEMMA NoticesAfter ==
  ASSUME ParseTypes, Reading, unassigned' = <<>>, NEW code \in IssueCodes,
         code # "UNASSIGNED_TEXT",
         issues' = Flushed \/ issues' = Append(Flushed, Issue(code, index))
  PROVE  /\ issues' \in Seq(IssueRow)
         /\ \A i : ~Collected(i)'
         /\ \A i : Noticed(issues', i) <=> Noticed(issues, i) \/ Collected(i)
<1>1. /\ Flushed \in Seq(IssueRow)
      /\ \A i : Noticed(Flushed, i) <=> Noticed(issues, i) \/ Collected(i)
  BY FlushedNotices
<1>2. index \in Nat
  BY DEF ParseTypes
<1>3. PICK x : x = Issue(code, index)
  OBVIOUS
<1>4. x \in IssueRow /\ x.code # "UNASSIGNED_TEXT"
  <2>1. x = [code |-> code, sourceLine |-> index]
    BY <1>3 DEF Issue
  <2> QED BY <1>2, <2>1 DEF IssueRow
<1>5. issues' \in Seq(IssueRow)
  BY <1>1, <1>3, <1>4, NoticedWith
<1>6. \A i : ~Collected(i)'
  BY DEF Collected
<1>7. ASSUME NEW i
      PROVE  Noticed(issues', i) <=> Noticed(issues, i) \/ Collected(i)
  <2>1. Noticed(Append(Flushed, x), i) <=> Noticed(Flushed, i)
    BY <1>1, <1>4, NoticedWith
  <2>2. CASE issues' = Flushed
    BY <1>1, <2>2, Zenon
  <2>3. CASE issues' = Append(Flushed, x)
    BY <1>1, <2>1, <2>3, Zenon
  <2> QED BY <1>3, <2>2, <2>3
<1> QED BY <1>5, <1>6, <1>7

LEMMA ArticleHeadingKeeps ==
  ASSUME ParseInv, ArticleHeading
  PROVE  ParseInv'
<1>1. /\ Reading /\ line.what = "article" /\ index' = index + 1
      /\ articles' = AllArticles /\ issues' = Flushed /\ unassigned' = <<>>
      /\ documentOrder' = documentOrder + 1 /\ sawLegalToken' = TRUE
      /\ doc' = doc /\ phase' = phase /\ draft' = draft /\ current' = current
      /\ nodes' = nodes /\ preamble' = preamble
  BY DEF ArticleHeading, IsArticleHeading
<1>2. ParseTypes /\ phase = "reading" /\ ReadInOrder /\ ActiveHeadings /\ ReadSoFar
  BY <1>1 DEF ParseInv, Reading
<1>3. LinesRead /\ index \in Nat /\ index..(index' - 1) = {index}
  BY <1>1, <1>2, OneLineRead
<1>4. PICK x : x = [node |-> Innermost(current), at |-> index,
                    order |-> documentOrder + 1, lines |-> <<>>]
  OBVIOUS
<1>5. /\ x \in ArticleRow /\ x.at = index /\ x.order = documentOrder + 1
      /\ x.node = Innermost(current) /\ x.lines = <<>> /\ currentArticle' = <<x>>
  <2>1. Innermost(current) \in Nat
    BY <1>2, HangsFromInnermost DEF ParseTypes
  <2>2. documentOrder + 1 \in Nat
    BY <1>2 DEF ParseTypes
  <2>3. x \in ArticleRow
    BY <1>3, <1>4, <2>1, <2>2 DEF ArticleRow
  <2> QED BY <1>4, <2>3 DEF ArticleHeading
<1>6. PICK all : all = AllArticles
  OBVIOUS
<1>7. /\ all \in Seq(ArticleRow) /\ AllArticles' = all \o <<x>>
      /\ DOMAIN all = 1..Len(all)
  BY <1>1, <1>2, <1>5, <1>6, RowsAreTyped DEF AllArticles
<1>8. ArticleAdded /\ \A a \in DOMAIN AllArticles : AllArticles'[a] = AllArticles[a]
  BY <1>5, <1>6, <1>7, OneMore DEF ArticleAdded
<1>9. RowsAfter
  BY <1>1, <1>8 DEF RowsAfter
<1>10. HeadingAfter /\ TokenAfter
  BY <1>1, <1>5 DEF HeadingAfter, TokenAfter
<1>11. /\ issues' \in Seq(IssueRow) /\ \A i : ~Collected(i)'
       /\ \A i : Noticed(issues', i) <=> Noticed(issues, i) \/ Collected(i)
  <2>1. "STRUCTURE_TITLE_MISSING" \in IssueCodes
    BY DEF IssueCodes
  <2> QED BY <1>1, <1>2, <2>1, NoticesAfter
<1>12. ParseTypes'
  <2>1. \E z \in ArticleRow : currentArticle' = <<z>>
    BY <1>5
  <2>2. /\ index' \in 1..(Len(doc) + 1) /\ documentOrder' \in Nat /\ unassigned' \in Seq(Nat)
        /\ sawLegalToken' \in BOOLEAN /\ articles' \in Seq(ArticleRow)
    BY <1>1, <1>2, <1>3, <1>6, <1>7 DEF ParseTypes, Reading
  <2> QED BY <1>1, <1>2, <1>11, <2>1, <2>2, Zenon DEF ParseTypes
<1>13. \A i : /\ Titled(i)' <=> Titled(i)
              /\ InPreamble(i)' <=> InPreamble(i)
              /\ \A a \in DOMAIN AllArticles : Holds(a, i)' <=> Holds(a, i)
  BY <1>1, <1>8, Zenon DEF Titled, InPreamble, Holds, Elements
<1>14. \A i : i \notin index..(index' - 1) => Untouched(i)
  BY <1>3, <1>11, <1>13 DEF Untouched
<1>15. \A t : ~TitleOf(index, t)
  BY <1>1 DEF TitleOf, IsStructureHeading, line
<1>16. \A i \in index..(index' - 1) : doc[i].what # "text"
  BY <1>1, <1>3 DEF line
<1>17. CollectingAfter
  BY <1>1, <1>2, <1>3, NextIsToken DEF CollectingAfter
<1> QED BY <1>1, <1>3, <1>9, <1>10, <1>12, <1>14, <1>15, <1>16, <1>17, LineKeeps

LEMMA UnreadHeadingKeeps ==
  ASSUME ParseInv, UnreadHeading
  PROVE  ParseInv'
<1>1. /\ Reading /\ line.what = "heading" /\ ~IsStructureHeading(line) /\ index' = index + 1
      /\ current' = Opened(line.level, 0, current)
      /\ articles' = AllArticles /\ currentArticle' = <<>> /\ unassigned' = <<>>
      /\ issues' = Append(Flushed, Issue("UNRECOGNIZED_STRUCTURE_HEADING", index))
      /\ documentOrder' = documentOrder /\ sawLegalToken' = TRUE
      /\ doc' = doc /\ phase' = phase /\ draft' = draft
      /\ nodes' = nodes /\ preamble' = preamble
  BY DEF UnreadHeading, IsUnreadHeading, IsStructureHeading
<1>2. ParseTypes
  BY <1>1 DEF ParseInv
<1>3. LinesRead /\ index \in Nat /\ index..(index' - 1) = {index}
  BY <1>1, <1>2, OneLineRead
<1>4. /\ ArticlesSame /\ articles' \in Seq(ArticleRow)
      /\ \A a \in DOMAIN AllArticles : \A i : Holds(a, i)' <=> Holds(a, i)
  BY <1>1, <1>2, ArticlesClosed
<1>5. RowsAfter
  BY <1>1, <1>4 DEF RowsAfter
<1>6. HeadingAfter /\ TokenAfter
  BY <1>1 DEF HeadingAfter, TokenAfter
<1>7. /\ issues' \in Seq(IssueRow) /\ \A i : ~Collected(i)'
      /\ \A i : Noticed(issues', i) <=> Noticed(issues, i) \/ Collected(i)
  <2>1. "UNRECOGNIZED_STRUCTURE_HEADING" \in IssueCodes
    BY DEF IssueCodes
  <2> QED BY <1>1, <1>2, <2>1, NoticesAfter
<1>8. ParseTypes'
  <2>1. /\ index' \in 1..(Len(doc) + 1) /\ unassigned' \in Seq(Nat)
        /\ sawLegalToken' \in BOOLEAN
    BY <1>1, <1>2, <1>3 DEF ParseTypes, Reading
  <2>2. current' \in [Levels -> 0..Len(nodes)]
    BY <1>1, <1>2 DEF ParseTypes, Opened
  <2> QED BY <1>1, <1>2, <1>4, <1>7, <2>1, <2>2, Zenon DEF ParseTypes
<1>9. \A i : (Titled(i)' <=> Titled(i)) /\ (InPreamble(i)' <=> InPreamble(i))
  BY <1>1, Zenon DEF Titled, InPreamble, Elements
<1>10. \A i : i \notin index..(index' - 1) => Untouched(i)
  BY <1>3, <1>4, <1>7, <1>9 DEF Untouched
<1>11. \A t : ~TitleOf(index, t)
  BY <1>1 DEF TitleOf, line
<1>12. \A i \in index..(index' - 1) : doc[i].what # "text"
  BY <1>1, <1>3 DEF line
<1>13. CollectingAfter
  BY <1>1, <1>2, <1>3, NextIsToken DEF CollectingAfter, ParseInv, Reading
<1> QED BY <1>1, <1>3, <1>5, <1>6, <1>8, <1>10, <1>11, <1>12, <1>13, LineKeeps

\* A heading that was understood, with the lines of its title.
LEMMA OpenNodeKeeps ==
  ASSUME ParseInv, Reading, IsStructureHeading(line), LinesRead,
         NEW title \in SUBSET Nat, OpenNode(title),
         \A t \in 1..Len(doc) : TitleOf(index, t) => t < index',
         \A i \in title : i \in index..(index' - 1),
         \A i \in index..(index' - 1) : doc[i].what = "text" => i \in title /\ IsTitle(i)
  PROVE  ParseInv'
<1>1. /\ line.what = "heading"
      /\ current' = Opened(line.level, Len(nodes) + 1, current)
      /\ articles' = AllArticles /\ currentArticle' = <<>> /\ unassigned' = <<>>
      /\ \/ issues' = Flushed
         \/ issues' = Append(Flushed, Issue("STRUCTURE_TITLE_MISSING", index))
      /\ documentOrder' = documentOrder + 1 /\ sawLegalToken' = TRUE
      /\ doc' = doc /\ phase' = phase /\ draft' = draft /\ preamble' = preamble
  BY Zenon DEF OpenNode, IsStructureHeading
<1>2. ParseTypes /\ ReadInOrder /\ ActiveHeadings /\ LastToken /\ ReadSoFar /\ phase = "reading"
  BY <1>1 DEF ParseInv, Reading
<1>3. /\ index \in 1..Len(doc) /\ Len(doc) \in Nat /\ index \in Nat /\ index' \in Nat
      /\ index < index' /\ index' <= Len(doc) + 1
      /\ \A k \in (index + 1)..(index' - 1) : ~IsToken(k)
  BY <1>2, ReadsOn
<1>4. line.level \in Levels
  <2>1. line \in LineKinds
    BY <1>2, <1>3 DEF line, ParseTypes
  <2> QED BY <1>1, <2>1, HeadingLevels
<1>5. PICK node : node = [level |-> line.level, parent |-> ParentOf(line.level, current),
                          at |-> index, title |-> title, order |-> documentOrder + 1]
  OBVIOUS
<1>6. node \in NodeRow
  <2>1. ParentOf(line.level, current) \in Nat
    <3>1. Len(nodes) \in Nat
      BY <1>2, RowsAreTyped
    <3>2. \A l \in Levels : ParentOf(l, current) \in 0..Len(nodes)
      BY <1>2, HangsFromInnermost
    <3>3. ParentOf(line.level, current) \in 0..Len(nodes)
      BY <1>4, <3>2, Zenon
    <3> QED BY <3>1, <3>3
  <2>2. documentOrder + 1 \in Nat
    BY <1>2 DEF ParseTypes
  <2> QED BY <1>3, <1>4, <1>5, <2>1, <2>2 DEF NodeRow
<1>7. nodes \in Seq(NodeRow) /\ nodes' = Append(nodes, node)
  BY <1>2, <1>5 DEF OpenNode, ParseTypes
<1>8. /\ nodes' \in Seq(NodeRow) /\ Len(nodes') = Len(nodes) + 1
      /\ DOMAIN nodes = 1..Len(nodes) /\ Len(nodes) \in Nat
      /\ DOMAIN nodes' = 1..(Len(nodes) + 1)
      /\ \A m \in DOMAIN nodes : nodes'[m] = nodes[m]
      /\ nodes'[Len(nodes) + 1] = node
  BY <1>6, <1>7
<1>9. NodeAdded
  BY <1>5, <1>8 DEF NodeAdded
<1>10. /\ ArticlesSame /\ articles' \in Seq(ArticleRow) /\ AllArticles' = AllArticles
       /\ \A a \in DOMAIN AllArticles : \A i : Holds(a, i)' <=> Holds(a, i)
  BY <1>1, <1>2, ArticlesClosed
<1>11. RowsAfter
  BY <1>1, <1>9, <1>10 DEF RowsAfter
<1>12. HeadingAfter /\ TokenAfter
  BY <1>1, <1>9 DEF HeadingAfter, TokenAfter
<1>13. /\ issues' \in Seq(IssueRow) /\ \A i : ~Collected(i)'
       /\ \A i : Noticed(issues', i) <=> Noticed(issues, i) \/ Collected(i)
  <2>1. "STRUCTURE_TITLE_MISSING" \in IssueCodes
    BY DEF IssueCodes
  <2> QED BY <1>1, <1>2, <2>1, NoticesAfter
<1>14. ParseTypes'
  <2>1. /\ index' \in 1..(Len(doc) + 1) /\ unassigned' \in Seq(Nat)
        /\ sawLegalToken' \in BOOLEAN /\ documentOrder' \in Nat
    BY <1>1, <1>2, <1>3 DEF ParseTypes
  <2>2. current' \in [Levels -> 0..Len(nodes')]
    <3>1. current \in [Levels -> 0..Len(nodes)]
      BY <1>2 DEF ParseTypes
    <3>2. \A l \in Levels : current[l] \in 0..(Len(nodes) + 1)
      BY <1>8, <3>1
    <3>3. Len(nodes) + 1 \in 0..(Len(nodes) + 1) /\ 0 \in 0..(Len(nodes) + 1)
      BY <1>8
    <3> QED BY <1>1, <1>8, <3>2, <3>3 DEF Opened
  <2> QED BY <1>1, <1>2, <1>8, <1>10, <1>13, <2>1, <2>2, Zenon DEF ParseTypes
<1>15. \A i : Titled(i)' <=> Titled(i) \/ i \in title
  <2>1. node.title = title
    BY <1>5
  <2>2. \A i : Titled(i)' <=> \E n \in 1..(Len(nodes) + 1) : i \in nodes'[n].title
    BY <1>8, Zenon DEF Titled
  <2>3. \A n : n \in 1..(Len(nodes) + 1) <=> n \in DOMAIN nodes \/ n = Len(nodes) + 1
    BY <1>8
  <2> QED BY <1>8, <2>1, <2>2, <2>3, Zenon DEF Titled
<1>16. \A i : InPreamble(i)' <=> InPreamble(i)
  BY <1>1, Zenon DEF InPreamble, Elements
<1>17. \A i : i \notin index..(index' - 1) => Untouched(i)
  <2>1. index \in index..(index' - 1)
    BY <1>3, Ranges
  <2>2. \A i : i \notin index..(index' - 1) => i # index /\ i \notin title
    BY <2>1
  <2> QED BY <1>10, <1>13, <1>15, <1>16, <2>2, Zenon DEF Untouched
<1>18. ASSUME NEW i \in index..(index' - 1), doc[i].what = "text"
       PROVE  LineInItsPlace(i)'
  <2>1. i \in title /\ IsTitle(i) /\ i # index /\ i \in Nat /\ i > index
    <3>1. i # index
      BY <1>1, <1>18 DEF line
    <3>2. i \in (index + 1)..(index' - 1)
      BY <1>3, <1>18, <3>1, Ranges
    <3>3. i \in Nat /\ i > index
      BY <1>3, <3>2
    <3> QED BY <1>18, <3>1, <3>3
  <2>2. ~Early(i)
    <3>1. IsToken(index)
      BY <1>1, HeadingsAreTokens DEF line
    <3>2. index \in 1..i
      BY <1>3, <2>1
    <3> QED BY <3>1, <3>2 DEF Early
  <2>3. Home(i) = {}
    <3> SUFFICES ASSUME NEW a \in 1..(i - 1), InArticle(a, i) PROVE FALSE
      BY Zenon DEF Home
    <3>1. IsToken(a) /\ doc[a].what = "article" /\ \A k \in (a + 1)..i : ~IsToken(k)
      BY DEF InArticle
    <3>2. IsToken(index) /\ a # index
      BY <1>1, <3>1, HeadingsAreTokens DEF line
    <3>3. index \notin (a + 1)..i /\ a \notin (index + 1)..(index' - 1)
      BY <1>3, <3>1, <3>2
    <3> QED BY <1>3, <1>18, <2>1, <3>2, <3>3
  <2>4. /\ ~InPreamble(i) /\ ~Collected(i) /\ ~Noticed(issues, i)
        /\ \A a \in DOMAIN AllArticles : ~Holds(a, i)
    BY <1>2, <2>1, NotReadYet
  <2>8. ~OpensPassage(i)
    BY <2>1 DEF OpensPassage, Stray
  <2>5. /\ Home(i)' = Home(i) /\ (Early(i)' <=> Early(i)) /\ (IsTitle(i)' <=> IsTitle(i))
        /\ OpensPassage(i)' <=> OpensPassage(i)
    BY <1>1, PlacesStay
  <2>6. ~InPreamble(i)' /\ Titled(i)' /\ ~Collected(i)' /\ ~Noticed(issues', i)
    BY <1>13, <1>15, <1>16, <2>1, <2>4
  <2>7. \A a \in DOMAIN AllArticles' : ~Holds(a, i)'
    BY <1>10, <2>4
  <2> QED BY <2>1, <2>2, <2>3, <2>5, <2>6, <2>7, <2>8, PlaceMeansNext, Zenon
<1>19. CollectingAfter
  <2>1. IsToken(index)
    BY <1>1, HeadingsAreTokens DEF line
  <2>2. ASSUME NEW i \in (index + 1)..(index' - 1) PROVE ~Stray(i)
    <3>1. i \in index..(index' - 1)
      BY <1>3, <2>2, Ranges
    <3>2. doc[i].what = "text" => IsTitle(i)
      BY <3>1
    <3> QED BY <3>2, Zenon DEF Stray
  <2> QED BY <1>1, <2>1, <2>2 DEF CollectingAfter
<1> QED BY <1>11, <1>12, <1>14, <1>17, <1>18, <1>19, LineKeeps

LEMMA TitledHeadingKeeps ==
  ASSUME ParseInv, TitledHeading
  PROVE  ParseInv'
<1>1. /\ Reading /\ IsStructureHeading(line) /\ line.form = "titled" /\ line.what = "heading"
      /\ OpenNode({index}) /\ index' = index + 1
      /\ doc' = doc /\ phase' = phase /\ draft' = draft
  BY DEF TitledHeading, OpenNode, IsStructureHeading
<1>2. ParseTypes
  BY DEF ParseInv
<1>3. LinesRead /\ index \in Nat /\ index..(index' - 1) = {index}
  BY <1>1, <1>2, OneLineRead
<1>4. \A t : ~TitleOf(index, t)
  BY <1>1 DEF TitleOf, line
<1>5. \A i \in index..(index' - 1) : doc[i].what # "text"
  BY <1>1, <1>3 DEF line
<1>6. PICK title : title = {index}
  OBVIOUS
<1>7. title \in SUBSET Nat /\ (\A i \in title : i \in index..(index' - 1)) /\ OpenNode(title)
  BY <1>1, <1>3, <1>6
<1> QED BY <1>1, <1>3, <1>4, <1>5, <1>7, OpenNodeKeeps

LEMMA BareHeadingKeeps ==
  ASSUME ParseInv, HeadingWithoutTitle
  PROVE  ParseInv'
<1>1. /\ Reading /\ IsStructureHeading(line) /\ line.form = "bare" /\ line.what = "heading"
      /\ TitleLines(index) = {} /\ OpenNode({}) /\ index' = index + 1
      /\ doc' = doc /\ phase' = phase /\ draft' = draft
  BY DEF HeadingWithoutTitle, OpenNode, IsStructureHeading
<1>2. ParseTypes
  BY DEF ParseInv
<1>3. LinesRead /\ index \in Nat /\ index..(index' - 1) = {index}
  BY <1>1, <1>2, OneLineRead
<1>4. \A t \in 1..Len(doc) : ~TitleOf(index, t)
  BY <1>1, <1>2, TitlesAhead
<1>5. \A i \in index..(index' - 1) : doc[i].what # "text"
  BY <1>1, <1>3 DEF line
<1> QED BY <1>1, <1>3, <1>4, <1>5, OpenNodeKeeps

LEMMA HeadingOverTitleKeeps ==
  ASSUME ParseInv, HeadingOverTitle
  PROVE  ParseInv'
<1>1. /\ Reading /\ IsStructureHeading(line) /\ line.form = "bare" /\ line.what = "heading"
  BY DEF HeadingOverTitle, IsStructureHeading
<1>2. PICK j \in TitleLines(index) : OpenNode({j}) /\ index' = j + 1
  BY DEF HeadingOverTitle
<1>3. ParseTypes
  BY DEF ParseInv
<1>4. index \in 1..Len(doc) /\ Len(doc) \in Nat /\ index \in Nat
  BY <1>1, <1>3 DEF Reading, ParseTypes
<1>5. /\ j \in (index + 1)..Len(doc) /\ IsLikelyFollowingTitle(doc[j]) /\ TitleOf(index, j)
      /\ \A k \in (index + 1)..(j - 1) : doc[k].what = "blank"
  <2>1. /\ j \in (index + 1)..Len(doc) /\ IsLikelyFollowingTitle(doc[j])
        /\ \A k \in (index + 1)..(j - 1) : doc[k].what = "blank"
    BY <1>2, Zenon DEF TitleLines, Following
  <2>2. j \in 1..Len(doc)
    BY <1>4, <2>1
  <2> QED BY <1>1, <1>2, <1>3, <2>1, <2>2, TitlesAhead
<1>6. IsTitle(j) /\ ~IsToken(j) /\ doc[j].what \in {"text", "article"}
  <2>1. index \in 1..(j - 1)
    BY <1>4, <1>5
  <2> QED BY <1>5, <2>1 DEF IsTitle, IsToken, IsLikelyFollowingTitle
<1>7. \A k \in (index + 1)..(index' - 1) : k = j \/ k \in (index + 1)..(j - 1)
  BY <1>2, <1>4, <1>5
<1>8. /\ index' \in (index + 1)..(Len(doc) + 1) /\ j \in index..(index' - 1)
      /\ \A k \in index..(index' - 1) : k = index \/ k \in (index + 1)..(index' - 1)
  BY <1>2, <1>4, <1>5
<1>9. LinesRead
  <2>1. doc' = doc /\ phase' = phase /\ draft' = draft
    BY <1>2, Zenon DEF OpenNode
  <2>2. \A k \in (index + 1)..(index' - 1) : ~IsToken(k) /\ doc[k].what # "heading"
    BY <1>5, <1>6, <1>7 DEF IsToken
  <2> QED BY <1>8, <2>1, <2>2 DEF LinesRead
<1>10. \A t \in 1..Len(doc) : TitleOf(index, t) => t < index'
  <2>1. j \in 1..Len(doc) /\ j < index'
    BY <1>2, <1>4, <1>5
  <2>2. \A t \in 1..Len(doc) : TitleOf(index, t) => t = j
    BY <1>3, <1>4, <1>5, <2>1, OnlyOneTitle
  <2> QED BY <2>1, <2>2
<1>11. PICK title : title = {j}
  OBVIOUS
<1>12. title \in SUBSET Nat /\ (\A i \in title : i \in index..(index' - 1)) /\ OpenNode(title)
  <2>1. j \in Nat
    BY <1>4, <1>5
  <2> QED BY <1>2, <1>8, <1>11, <2>1
<1>13. \A i \in index..(index' - 1) : doc[i].what = "text" => i \in title /\ IsTitle(i)
  <2> SUFFICES ASSUME NEW i \in index..(index' - 1), doc[i].what = "text" PROVE i = j
    BY <1>6, <1>11
  <2>1. i # index
    BY <1>1 DEF line
  <2>2. i \notin (index + 1)..(j - 1)
    BY <1>5
  <2> QED BY <1>7, <1>8, <2>1, <2>2
<1> QED BY <1>1, <1>9, <1>10, <1>12, <1>13, OpenNodeKeeps

-----------------------------------------------------------------------------
\* The end of the text, and the draft

LEMMA HangingStays ==
  ASSUME doc' = doc, nodes' = nodes
  PROVE  \A n, i, l : HangsFrom(n, i, l)' <=> HangsFrom(n, i, l)
<1>1. \A h, i : Governs(h, i)' <=> Governs(h, i)
  BY DocumentStays
<1> SUFFICES ASSUME NEW n, NEW i, NEW l PROVE HangsFrom(n, i, l)' <=> HangsFrom(n, i, l)
  OBVIOUS
<1>2. {m \in DOMAIN nodes : nodes[m].at < i /\ nodes[m].level < l /\ Governs(nodes[m].at, i)}'
        = {m \in DOMAIN nodes : nodes[m].at < i /\ nodes[m].level < l /\ Governs(nodes[m].at, i)}
  BY <1>1, Zenon
<1> QED BY <1>1, <1>2, Zenon DEF HangsFrom

LEMMA FinishKeeps ==
  ASSUME ParseInv, Finish
  PROVE  ParseInv'
<1>1. /\ phase = "reading" /\ index > Len(doc) /\ currentArticle' = <<>>
      /\ articles' = (IF AllArticles # <<>> THEN AllArticles ELSE <<Fallback>>)
      /\ documentOrder' = (IF AllArticles # <<>> THEN documentOrder ELSE documentOrder + 1)
      /\ unassigned' = <<>> /\ phase' = "parsed"
      /\ doc' = doc /\ index' = index /\ current' = current /\ sawLegalToken' = sawLegalToken
      /\ nodes' = nodes /\ preamble' = preamble /\ draft' = draft
  BY Zenon DEF Finish
<1>2. ParseTypes /\ ReadInOrder /\ ActiveHeadings /\ HangsFromItsHeading
  BY DEF ParseInv
<1>3. /\ DOMAIN nodes = 1..Len(nodes) /\ Len(nodes) \in Nat
      /\ AllArticles \in Seq(ArticleRow) /\ DOMAIN AllArticles = 1..Len(AllArticles)
      /\ Len(AllArticles) \in Nat
      /\ index \in Nat /\ index >= 1 /\ documentOrder \in Nat /\ Len(doc) \in Nat
      /\ index = Len(doc) + 1
  BY <1>1, <1>2, RowsAreTyped DEF ParseTypes
<1>4. PICK f : f = Fallback
  OBVIOUS
<1>5. /\ f \in ArticleRow /\ f.at = 0 /\ f.order = documentOrder + 1
      /\ f.node \in 0..Len(nodes)
  <2>1. Innermost(current) \in 0..Len(nodes)
    BY <1>1, <1>2, HangsFromInnermost
  <2>2. Innermost(current) \in Nat /\ documentOrder + 1 \in Nat
    BY <1>3, <2>1
  <2>3. PICK whole : whole = [i \in 1..Len(doc) |-> i]
    OBVIOUS
  <2>4. whole \in Seq(Nat)
    BY <1>3, <2>3
  <2>5. f = [node |-> Innermost(current), at |-> 0, order |-> documentOrder + 1,
             lines |-> whole]
    BY <1>4, <2>3 DEF Fallback
  <2> QED BY <2>1, <2>2, <2>4, <2>5 DEF ArticleRow
<1>6. PICK all : all = articles'
  OBVIOUS
<1>7. all \in Seq(ArticleRow) /\ AllArticles' = all /\ all # <<>>
  <2>1. all \in Seq(ArticleRow) /\ all # <<>>
    BY <1>1, <1>3, <1>4, <1>5, <1>6
  <2>2. AllArticles' = all \o <<>>
    BY <1>1, <1>6 DEF AllArticles
  <2> QED BY <2>1, <2>2
<1>8. ParseTypes'
  <2>1. issues' \in Seq(IssueRow)
    <3>1. Flushed \in Seq(IssueRow)
      BY <1>2, FlushedNotices
    <3>2. PICK m, s : /\ m = IF AllArticles # <<>> THEN <<>>
                             ELSE <<Issue("ARTICLE_MARKERS_NOT_FOUND", 1)>>
                      /\ s = IF nodes # <<>> THEN <<>>
                             ELSE <<Issue("STRUCTURE_NOT_DETECTED", 0)>>
      OBVIOUS
    <3>3. issues' = Flushed \o m \o s
      BY <3>2, Zenon DEF Finish
    <3>4. /\ Issue("ARTICLE_MARKERS_NOT_FOUND", 1) \in IssueRow
          /\ Issue("STRUCTURE_NOT_DETECTED", 0) \in IssueRow
      BY DEF Issue, IssueRow, IssueCodes
    <3>5. m \in Seq(IssueRow) /\ s \in Seq(IssueRow)
      BY <3>2, <3>4
    <3> QED BY <3>1, <3>3, <3>5
  <2>2. documentOrder' \in Nat
    BY <1>1, <1>3
  <2> QED BY <1>1, <1>2, <1>6, <1>7, <2>1, <2>2 DEF ParseTypes
<1>9. \A n, i, l : HangsFrom(n, i, l)' <=> HangsFrom(n, i, l)
  BY <1>1, HangingStays
<1>10. ActiveHeadings'
  BY <1>1, <1>2 DEF ActiveHeadings
<1>11. DraftIsParse'
  BY <1>1, <1>6, <1>7 DEF DraftIsParse
<1>12. CASE AllArticles # <<>>
  <2>1. all = AllArticles /\ documentOrder' = documentOrder /\ AllArticles' = AllArticles
    BY <1>1, <1>6, <1>7, <1>12
  <2>2. ReadInOrder'
    BY <1>1, <1>2, <2>1 DEF ReadInOrder
  <2>3. HangsFromItsHeading'
    BY <1>1, <1>2, <1>9, <2>1, Zenon DEF HangsFromItsHeading
  <2> QED BY <1>1, <1>8, <1>10, <1>11, <2>2, <2>3 DEF ParseInv
<1>13. CASE AllArticles = <<>>
  <2>1. AllArticles' = <<f>> /\ documentOrder' = documentOrder + 1
    BY <1>1, <1>4, <1>6, <1>7, <1>13
  <2>2. DOMAIN AllArticles' = {1} /\ AllArticles'[1] = f
    BY <2>1
  <2>3. ReadInOrder'
    <3>1. \A n \in DOMAIN nodes' :
            nodes'[n].at \in 1..(index' - 1) /\ nodes'[n].order \in 1..documentOrder'
      BY <1>1, <1>2, <1>3, <2>1 DEF ReadInOrder
    <3>2. \A m, n \in DOMAIN nodes' :
            m < n => nodes'[m].at < nodes'[n].at /\ nodes'[m].order < nodes'[n].order
      BY <1>1, <1>2 DEF ReadInOrder
    <3>3. \A a \in DOMAIN AllArticles' :
            /\ AllArticles'[a].at \in 0..(index' - 1)
            /\ AllArticles'[a].order \in 1..documentOrder'
            /\ AllArticles'[a].node \in 0..Len(nodes') /\ AllArticles'[a].at = 0 /\ a = 1
      BY <1>1, <1>3, <1>5, <2>1, <2>2
    <3> QED BY <1>1, <3>1, <3>2, <3>3 DEF ReadInOrder
  <2>4. HangsFromItsHeading'
    <3>1. \A a \in DOMAIN AllArticles' : AllArticles'[a].at = 0
      BY <1>5, <2>2
    <3> QED BY <1>1, <1>2, <1>9, <3>1, Zenon DEF HangsFromItsHeading
  <2> QED BY <1>1, <1>8, <1>10, <1>11, <2>3, <2>4 DEF ParseInv
<1> QED BY <1>12, <1>13

\* createDraft finds nothing to refuse.
LEMMA CreateDraftKeeps ==
  ASSUME ParseInv, CreateDraft
  PROVE  ParseInv'
<1>1. /\ phase = "parsed" /\ doc' = doc /\ index' = index /\ current' = current
      /\ documentOrder' = documentOrder /\ sawLegalToken' = sawLegalToken
      /\ nodes' = nodes /\ articles' = articles /\ issues' = issues /\ preamble' = preamble
      /\ currentArticle' = currentArticle /\ unassigned' = unassigned
  BY Zenon DEF CreateDraft, context, results, pending
<1>2. /\ ParseTypes /\ ReadInOrder /\ ActiveHeadings /\ HangsFromItsHeading
      /\ articles # <<>> /\ currentArticle = <<>>
  BY <1>1 DEF ParseInv, DraftIsParse
<1>3. AllArticles = articles
  <2>1. articles \in Seq(ArticleRow)
    BY <1>2 DEF ParseTypes
  <2> QED BY <1>2, <2>1 DEF AllArticles
<1>4. ASSUME NEW n \in DOMAIN nodes PROVE NodeIsAccepted(n)
  <2>1. /\ DOMAIN nodes = 1..Len(nodes) /\ Len(nodes) \in Nat
        /\ \A m \in DOMAIN nodes : nodes[m].at \in Nat
    BY <1>2, RowsAreTyped
  <2>2. PICK p : p = nodes[n].parent
    OBVIOUS
  <2>3. HangsFrom(p, nodes[n].at, nodes[n].level)
    BY <1>2, <2>2 DEF HangsFromItsHeading
  <2>4. CASE p = 0
    BY <2>1, <2>2, <2>4 DEF NodeIsAccepted, LegalParent
  <2>5. CASE p # 0
    <3>1. p \in DOMAIN nodes /\ nodes[p].at < nodes[n].at /\ nodes[p].level < nodes[n].level
      BY <2>3, <2>5, Zenon DEF HangsFrom
    <3>2. \A k, m \in DOMAIN nodes : k < m => nodes[k].at < nodes[m].at
      BY <1>2 DEF ReadInOrder
    <3>3. p < n
      BY <2>1, <3>1, <3>2
    <3>4. p \in 0..(n - 1)
      BY <2>1, <3>1, <3>3
    <3> QED BY <2>2, <2>5, <3>1, <3>4 DEF NodeIsAccepted, LegalParent
  <2> QED BY <2>4, <2>5
<1>5. \A a \in DOMAIN articles : articles[a].node \in 0..Len(nodes)
  BY <1>2, <1>3 DEF ReadInOrder
<1>6. phase' = "drafted" /\ draft' = DraftRows
  BY <1>4, <1>5, Zenon DEF CreateDraft, DraftRows
<1>7. DraftRows' = DraftRows /\ AllArticles' = AllArticles
  BY <1>1, Zenon DEF DraftRows, AllArticles
<1>8. ParseTypes'
  BY <1>1, <1>2, <1>6 DEF ParseTypes
<1>9. ReadInOrder'
  BY <1>1, <1>2, <1>6, <1>7 DEF ReadInOrder
<1>10. ActiveHeadings'
  BY <1>1, <1>2, <1>6 DEF ActiveHeadings
<1>11. HangsFromItsHeading'
  <2>1. \A n, i, l : HangsFrom(n, i, l)' <=> HangsFrom(n, i, l)
    BY <1>1, HangingStays
  <2> QED BY <1>1, <1>2, <1>7, <2>1, Zenon DEF HangsFromItsHeading
<1>12. DraftIsParse'
  BY <1>1, <1>2, <1>6, <1>7 DEF DraftIsParse
<1> QED BY <1>6, <1>8, <1>9, <1>10, <1>11, <1>12 DEF ParseInv

-----------------------------------------------------------------------------
LEMMA ParseStarts == ParseInit => ParseInv
<1> SUFFICES ASSUME ParseInit PROVE ParseInv
  OBVIOUS
<1>1. /\ doc \in Documents /\ index = 1 /\ current = [l \in Levels |-> 0]
      /\ nodes = <<>> /\ articles = <<>> /\ issues = <<>> /\ preamble = <<>>
      /\ currentArticle = <<>> /\ unassigned = <<>> /\ documentOrder = 0
      /\ sawLegalToken = FALSE /\ phase = "reading"
  BY DEF ParseInit
<1>2. doc \in Seq(LineKinds) /\ Len(doc) \in Nat
  <2>1. PICK n \in 1..MaxLines : doc \in [1..n -> LineKinds]
    BY <1>1 DEF Documents
  <2>2. n \in Nat
    BY <2>1, BoundAssumption
  <2> QED BY <2>1, <2>2
<1>3. ParseTypes
  <2>1. nodes \in Seq(NodeRow) /\ articles \in Seq(ArticleRow) /\ issues \in Seq(IssueRow)
    BY <1>1
  <2>2. preamble \in Seq(Nat) /\ unassigned \in Seq(Nat) /\ documentOrder \in Nat
    BY <1>1
  <2>3. index \in 1..(Len(doc) + 1) /\ current \in [Levels -> 0..Len(nodes)]
    BY <1>1, <1>2
  <2> QED BY <1>1, <1>2, <2>1, <2>2, <2>3 DEF ParseTypes
<1>4. AllArticles = <<>>
  BY <1>1 DEF AllArticles
<1>5. 1..(index - 1) = {} /\ DOMAIN nodes = {} /\ DOMAIN AllArticles = {} /\ DOMAIN issues = {}
  BY <1>1, <1>4
<1>6. ReadInOrder /\ HangsFromItsHeading
  BY <1>5, Zenon DEF ReadInOrder, HangsFromItsHeading
<1>7. ActiveHeadings
  BY <1>1, <1>5 DEF ActiveHeadings
<1>8. LastToken /\ Collecting /\ TextPlaced
  BY <1>1, <1>5 DEF LastToken, Collecting, TextPlaced
<1>9. ReadSoFar
  <2>1. Elements(preamble) = {} /\ \A i : ~Collected(i)
    BY <1>1 DEF Elements, Collected
  <2> QED BY <1>5, <2>1, Zenon DEF ReadSoFar, Noticed
<1>10. DraftIsParse
  BY <1>1 DEF DraftIsParse
<1> QED BY <1>3, <1>6, <1>7, <1>8, <1>9, <1>10 DEF ParseInv

LEMMA ParseRests == ParseInv /\ UNCHANGED parseVars => ParseInv'
<1> SUFFICES ASSUME ParseInv, UNCHANGED parseVars PROVE ParseInv'
  OBVIOUS
<1>1. /\ doc' = doc /\ index' = index /\ current' = current /\ phase' = phase /\ draft' = draft
      /\ documentOrder' = documentOrder /\ sawLegalToken' = sawLegalToken
      /\ nodes' = nodes /\ articles' = articles /\ issues' = issues /\ preamble' = preamble
      /\ currentArticle' = currentArticle /\ unassigned' = unassigned
  BY DEF parseVars, context, results, pending
<1>2. /\ ParseTypes' <=> ParseTypes
      /\ AllArticles' = AllArticles
  BY <1>1, Zenon DEF ParseTypes, AllArticles
<1>3. ReadInOrder' <=> ReadInOrder
  BY <1>1, <1>2, Zenon DEF ReadInOrder
<1>4. /\ \A i : IsToken(i)' <=> IsToken(i)
      /\ \A h, t : TitleOf(h, t)' <=> TitleOf(h, t)
      /\ \A h, i : Governs(h, i)' <=> Governs(h, i)
  BY <1>1, DocumentStays
<1>5. ActiveHeadings' <=> ActiveHeadings
  BY <1>1, <1>4, Zenon DEF ActiveHeadings
<1>6. HangsFromItsHeading' <=> HangsFromItsHeading
  <2>1. \A n, i, l : HangsFrom(n, i, l)' <=> HangsFrom(n, i, l)
    BY <1>1, HangingStays
  <2> QED BY <1>1, <1>2, <2>1, Zenon DEF HangsFromItsHeading
<1>7. (LastToken' <=> LastToken) /\ (Collecting' <=> Collecting)
  <2>1. /\ \A i : Stray(i)' <=> Stray(i)
        /\ \A r, i : SamePassage(r, i)' <=> SamePassage(r, i)
    BY <1>1, <1>4, PlacesStay, Zenon DEF SamePassage
  <2> QED BY <1>1, <1>4, <2>1, Zenon DEF LastToken, Collecting, SamePassage
<1>8. ReadSoFar' <=> ReadSoFar
  <2>1. /\ Elements(preamble)' = Elements(preamble)
        /\ \A i : Collected(i)' <=> Collected(i)
        /\ \A i : Noticed(issues, i)' <=> Noticed(issues, i)
    BY <1>1, Zenon DEF Elements, Noticed, Collected
  <2>2. \A a : Elements(AllArticles[a].lines)' = Elements(AllArticles[a].lines)
    BY <1>2, Zenon DEF Elements
  <2> QED BY <1>1, <1>2, <1>4, <2>1, <2>2, Zenon DEF ReadSoFar
<1>9. TextPlaced' <=> TextPlaced
  <2>1. \A i : LineInItsPlace(i)' <=> LineInItsPlace(i)
    <3> SUFFICES ASSUME NEW i PROVE LineInItsPlace(i)' <=> LineInItsPlace(i)
      OBVIOUS
    <3>1. /\ Home(i)' = Home(i) /\ (Early(i)' <=> Early(i)) /\ (IsTitle(i)' <=> IsTitle(i))
          /\ OpensPassage(i)' <=> OpensPassage(i)
      BY <1>1, PlacesStay
    <3>2. /\ InPreamble(i)' <=> InPreamble(i)
          /\ Titled(i)' <=> Titled(i)
          /\ Collected(i)' <=> Collected(i)
          /\ Noticed(issues', i) <=> Noticed(issues, i)
          /\ \A a : Holds(a, i)' <=> Holds(a, i)
      BY <1>1, <1>2, Zenon DEF InPreamble, Titled, Collected, Noticed, Holds, Elements
    <3> QED BY <1>2, <3>1, <3>2, PlaceMeans, PlaceMeansNext, Zenon
  <2> QED BY <1>1, <2>1, Zenon DEF TextPlaced
<1>10. DraftIsParse' <=> DraftIsParse
  BY <1>1, Zenon DEF DraftIsParse, DraftRows
<1> QED BY <1>1, <1>2, <1>3, <1>5, <1>6, <1>7, <1>8, <1>9, <1>10, Zenon DEF ParseInv

LEMMA ParseSteps == ParseInv /\ [ParseNext]_parseVars => ParseInv'
<1> SUFFICES ASSUME ParseInv, [ParseNext]_parseVars PROVE ParseInv'
  OBVIOUS
<1>1. CASE SkipPageMarker
  BY <1>1, SkipKeeps
<1>2. CASE TitledHeading
  BY <1>2, TitledHeadingKeeps
<1>3. CASE HeadingOverTitle
  BY <1>3, HeadingOverTitleKeeps
<1>4. CASE HeadingWithoutTitle
  BY <1>4, BareHeadingKeeps
<1>5. CASE ArticleHeading
  BY <1>5, ArticleHeadingKeeps
<1>6. CASE UnreadHeading
  BY <1>6, UnreadHeadingKeeps
<1>7. CASE ArticleText
  BY <1>7, ArticleTextKeeps
<1>8. CASE PreambleText
  BY <1>8, PreambleKeeps
<1>9. CASE LooseText
  BY <1>9, LooseKeeps
<1>10. CASE Finish
  BY <1>10, FinishKeeps
<1>11. CASE CreateDraft
  BY <1>11, CreateDraftKeeps
<1>12. CASE UNCHANGED parseVars
  BY <1>12, ParseRests
<1> QED BY <1>1, <1>2, <1>3, <1>4, <1>5, <1>6, <1>7, <1>8, <1>9, <1>10, <1>11, <1>12
        DEF ParseNext, ReadLine

LEMMA ParseHolds == ParseInv => ReadsWhatIsWritten /\ DraftsWhatItParsed
<1> SUFFICES ASSUME ParseInv PROVE ReadsWhatIsWritten /\ DraftsWhatItParsed
  OBVIOUS
<1>1. ParseTypes /\ ReadInOrder /\ HangsFromItsHeading /\ DraftIsParse
  BY DEF ParseInv
<1>2. ReadsWhatIsWritten
  BY <1>1 DEF ParseInv, TextPlaced, ReadsWhatIsWritten
<1>3. /\ DOMAIN nodes = 1..Len(nodes) /\ Len(nodes) \in Nat
      /\ DOMAIN AllArticles = 1..Len(AllArticles) /\ Len(AllArticles) \in Nat
      /\ \A n \in DOMAIN nodes : nodes[n].at \in Nat /\ nodes[n].order \in Nat
      /\ \A a \in DOMAIN AllArticles : AllArticles[a].at \in Nat /\ AllArticles[a].order \in Nat
  BY <1>1, RowsAreTyped
<1>4. ASSUME NEW m \in DOMAIN nodes, NEW n \in DOMAIN nodes
      PROVE  nodes[m].at < nodes[n].at <=> nodes[m].order < nodes[n].order
  <2>1. m < n \/ m = n \/ n < m
    BY <1>3
  <2>2. /\ m < n => nodes[m].at < nodes[n].at /\ nodes[m].order < nodes[n].order
        /\ n < m => nodes[n].at < nodes[m].at /\ nodes[n].order < nodes[m].order
    BY <1>1 DEF ReadInOrder
  <2> QED BY <1>3, <2>1, <2>2
<1>5. ASSUME NEW a \in DOMAIN AllArticles, NEW b \in DOMAIN AllArticles
      PROVE  /\ AllArticles[a].at < AllArticles[b].at <=>
                  AllArticles[a].order < AllArticles[b].order
             /\ AllArticles[a].at < AllArticles[b].at <=> a < b
  <2>1. a < b \/ a = b \/ b < a
    BY <1>3
  <2>2. /\ a < b => /\ AllArticles[a].at < AllArticles[b].at
                    /\ AllArticles[a].order < AllArticles[b].order
        /\ b < a => /\ AllArticles[b].at < AllArticles[a].at
                    /\ AllArticles[b].order < AllArticles[a].order
    BY <1>1 DEF ReadInOrder
  <2> QED BY <1>3, <2>1, <2>2
<1>6. ASSUME NEW n \in DOMAIN nodes, NEW a \in DOMAIN AllArticles, AllArticles[a].at # 0
      PROVE  /\ nodes[n].at < AllArticles[a].at <=> nodes[n].order < AllArticles[a].order
             /\ AllArticles[a].at < nodes[n].at <=> AllArticles[a].order < nodes[n].order
  <2>1. /\ nodes[n].at # AllArticles[a].at /\ nodes[n].order # AllArticles[a].order
        /\ nodes[n].at < AllArticles[a].at <=> nodes[n].order < AllArticles[a].order
    BY <1>1, <1>6 DEF ReadInOrder
  <2> QED BY <1>3, <2>1
<1>7. InDocumentOrder
  <2> DEFINE places == {[at |-> n.at, order |-> n.order] : n \in Elements(nodes)}
             heads == {[at |-> a.at, order |-> a.order] :
                         a \in {x \in Elements(AllArticles) : x.at # 0}}
  <2>1. ASSUME NEW x \in places
        PROVE  \E n \in DOMAIN nodes : x.at = nodes[n].at /\ x.order = nodes[n].order
    <3>1. PICK r \in Elements(nodes) : x = [at |-> r.at, order |-> r.order]
      BY <2>1
    <3> QED BY <3>1 DEF Elements
  <2>2. ASSUME NEW x \in heads
        PROVE  \E a \in DOMAIN AllArticles : /\ AllArticles[a].at # 0
                 /\ x.at = AllArticles[a].at /\ x.order = AllArticles[a].order
    <3>1. PICK r \in Elements(AllArticles) : r.at # 0 /\ x = [at |-> r.at, order |-> r.order]
      BY <2>2
    <3>2. PICK a \in DOMAIN AllArticles : r = AllArticles[a]
      BY <3>1 DEF Elements
    <3> QED BY <3>1, <3>2
  <2>3. ASSUME NEW x \in places \cup heads, NEW y \in places \cup heads
        PROVE  x.at < y.at <=> x.order < y.order
    <3>1. CASE x \in places /\ y \in places
      <4>1. PICK m \in DOMAIN nodes : x.at = nodes[m].at /\ x.order = nodes[m].order
        BY <2>1, <3>1
      <4>2. PICK n \in DOMAIN nodes : y.at = nodes[n].at /\ y.order = nodes[n].order
        BY <2>1, <3>1
      <4> QED BY <1>4, <4>1, <4>2
    <3>2. CASE x \in places /\ y \in heads
      <4>1. PICK m \in DOMAIN nodes : x.at = nodes[m].at /\ x.order = nodes[m].order
        BY <2>1, <3>2
      <4>2. PICK a \in DOMAIN AllArticles : /\ AllArticles[a].at # 0
               /\ y.at = AllArticles[a].at /\ y.order = AllArticles[a].order
        BY <2>2, <3>2
      <4> QED BY <1>6, <4>1, <4>2
    <3>3. CASE x \in heads /\ y \in places
      <4>1. PICK m \in DOMAIN nodes : y.at = nodes[m].at /\ y.order = nodes[m].order
        BY <2>1, <3>3
      <4>2. PICK a \in DOMAIN AllArticles : /\ AllArticles[a].at # 0
               /\ x.at = AllArticles[a].at /\ x.order = AllArticles[a].order
        BY <2>2, <3>3
      <4> QED BY <1>6, <4>1, <4>2
    <3>4. CASE x \in heads /\ y \in heads
      <4>1. PICK a \in DOMAIN AllArticles :
               x.at = AllArticles[a].at /\ x.order = AllArticles[a].order
        BY <2>2, <3>4
      <4>2. PICK b \in DOMAIN AllArticles :
               y.at = AllArticles[b].at /\ y.order = AllArticles[b].order
        BY <2>2, <3>4
      <4> QED BY <1>5, <4>1, <4>2
    <3> QED BY <3>1, <3>2, <3>3, <3>4
  <2> QED BY <2>3, Zenon DEF InDocumentOrder
<1>8. phase # "reading" => articles # <<>> /\ AllArticles = articles
  <2>1. articles \in Seq(ArticleRow)
    BY <1>1 DEF ParseTypes
  <2> QED BY <1>1, <2>1 DEF DraftIsParse, AllArticles
<1>9. ASSUME phase = "drafted"
      PROVE  /\ Len(draft.nodes) = Len(nodes) /\ Len(draft.articles) = Len(articles)
             /\ \A i, j \in DOMAIN nodes :
                  nodes[i].at < nodes[j].at <=> draft.nodes[i].sort < draft.nodes[j].sort
             /\ \A a, b \in DOMAIN articles :
                  articles[a].at < articles[b].at <=>
                    draft.articles[a].sort < draft.articles[b].sort
  <2>1. /\ draft.nodes = [i \in DOMAIN nodes |->
                            [level |-> nodes[i].level, parent |-> nodes[i].parent,
                             sort |-> nodes[i].order]]
        /\ draft.articles = [a \in DOMAIN articles |-> [node |-> articles[a].node, sort |-> a]]
    BY <1>1, <1>9 DEF DraftIsParse, DraftRows
  <2>2. DOMAIN articles = 1..Len(articles) /\ Len(articles) \in Nat
    BY <1>3, <1>8, <1>9
  <2>3. Len(draft.nodes) = Len(nodes) /\ Len(draft.articles) = Len(articles)
    BY <1>3, <2>1, <2>2
  <2>4. \A i \in DOMAIN nodes : draft.nodes[i].sort = nodes[i].order
    BY <2>1
  <2>5. \A a \in DOMAIN articles : draft.articles[a].sort = a
    BY <2>1
  <2>6. \A a, b \in DOMAIN articles : articles[a].at < articles[b].at <=> a < b
    BY <1>5, <1>8, <1>9
  <2> QED BY <1>4, <2>3, <2>4, <2>5, <2>6
<1>10. phase # "refused"
  BY <1>1 DEF ParseTypes
<1>11. DraftsWhatItParsed
  BY <1>7, <1>8, <1>9, <1>10 DEF DraftsWhatItParsed
<1> QED BY <1>2, <1>11
=============================================================================
