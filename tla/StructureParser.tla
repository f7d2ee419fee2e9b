--------------------------- MODULE StructureParser ---------------------------
(***************************************************************************)
(* The legal structure parser of the worker (legal-structure-parser.ts)    *)
(* and the rows that createDraft makes of its result.  A document is a     *)
(* sequence of line kinds; the parser reads it once from top to bottom,    *)
(* with one look ahead for the title of a bare heading.  Lines are named   *)
(* by their number, so that a piece of the result says which lines of the  *)
(* document it holds.  Levels 1, 2, 3 are BAB, FASL and QISM.              *)
(***************************************************************************)
EXTENDS Integers, Sequences, FiniteSets

CONSTANTS
  LineKinds,   \* the kinds of line a document is made of
  MaxLines     \* bound on the length of a document

(***************************************************************************)
(* What the patterns of the parser tell apart.  A heading is "titled",     *)
(* "bare", or "unread" (the keyword with a number the parser does not      *)
(* know).  An article heading has text on its line ("bodied"), has none    *)
(* ("bare"), or is written without a space before its bracket ("glued").   *)
(* Text is "short" (could be a title) or a "sentence".                     *)
(***************************************************************************)
Levels == 1..3
Heading(level, form) == [what |-> "heading", level |-> level, form |-> form]
Line(what, form) == [what |-> what, level |-> 0, form |-> form]
AllLineKinds ==
  {Heading(l, f) : l \in Levels, f \in {"titled", "bare", "unread"}}
    \cup {Line("article", f) : f \in {"bodied", "bare", "glued"}}
    \cup {Line("text", f) : f \in {"short", "sentence"}}
    \cup {Line("blank", "empty"), Line("page", "marker")}

ASSUME KindsAssumption == LineKinds \subseteq AllLineKinds
ASSUME BoundAssumption == MaxLines \in Nat \ {0}

IsStructureHeading(k) == k.what = "heading" /\ k.form # "unread"
IsUnreadHeading(k) == k.what = "heading" /\ k.form = "unread"
IsArticleHeading(k) == k.what = "article"

\* The test excludes headings and the word for "article" followed by a space:
\* an article heading glued to its bracket passes it.
IsLikelyFollowingTitle(k) ==
  \/ k.what = "text" /\ k.form = "short"
  \/ k.what = "article" /\ k.form = "glued"

-----------------------------------------------------------------------------
VARIABLES
  doc,            \* the lines of the extracted text
  index,          \* the next line to read
  current,        \* currentBab, currentFasl, currentQism: node or 0 (null)
  nodes, articles, issues, preamble,
  currentArticle, \* at most one article being filled
  unassigned,     \* lines between a heading and the next token
  documentOrder, sawLegalToken,
  phase,          \* "reading" | "parsed" | "drafted" | "refused"
  draft           \* the rows of the draft law

context == <<current, documentOrder, sawLegalToken>>
results == <<nodes, articles, issues, preamble>>
pending == <<currentArticle, unassigned>>
parseVars == <<doc, index, context, results, pending, phase, draft>>

NoRows == [nodes |-> <<>>, articles |-> <<>>]

Documents == UNION {[1..n -> LineKinds] : n \in 1..MaxLines}

ParseInit ==
  /\ doc \in Documents
  /\ index = 1
  /\ current = [l \in Levels |-> 0]
  /\ nodes = <<>> /\ articles = <<>> /\ issues = <<>> /\ preamble = <<>>
  /\ currentArticle = <<>> /\ unassigned = <<>>
  /\ documentOrder = 0 /\ sawLegalToken = FALSE
  /\ phase = "reading" /\ draft = NoRows

\* A notice points at a line of the source, 0 when it has none.  Its excerpt is left
\* out: of a passage it holds the first 180 characters, and what was pushed beyond
\* them is gone from the result of the parse.
Issue(code, sourceLine) == [code |-> code, sourceLine |-> sourceLine]
Flushed == IF unassigned = <<>> THEN issues
           ELSE Append(issues, Issue("UNASSIGNED_TEXT", unassigned[1]))
AllArticles == articles \o currentArticle

(***************************************************************************)
(* currentQism ?? currentFasl ?? currentBab, and the same below a level    *)
(***************************************************************************)
Innermost(c) == IF c[3] # 0 THEN c[3] ELSE IF c[2] # 0 THEN c[2] ELSE c[1]
\* Mutant: a chapter is put under the section before it.
ParentOfInnermost(level, c) == IF level = 1 THEN 0 ELSE Innermost(c)

ParentOf(level, c) ==
  CASE level = 1 -> 0
    [] level = 2 -> c[1]
    [] level = 3 -> IF c[2] # 0 THEN c[2] ELSE c[1]
\* Mutant: a new chapter leaves the old section active.
OpenedKeepingLower(level, key, c) ==
  [l \in Levels |-> IF l = level THEN key ELSE IF level = 1 THEN 0 ELSE c[l]]

Opened(level, key, c) ==
  [l \in Levels |-> IF l < level THEN c[l] ELSE IF l = level THEN key ELSE 0]

(***************************************************************************)
(* The loop over the lines                                                 *)
(***************************************************************************)
Reading == phase = "reading" /\ index <= Len(doc)
line == doc[index]

SkipPageMarker ==
  /\ Reading /\ line.what = "page"
  /\ index' = index + 1
  /\ UNCHANGED <<doc, context, results, pending, phase, draft>>

\* The line that follows once blank ones are passed over.
Following(i) ==
  {j \in (i + 1)..Len(doc) :
     /\ doc[j].what # "blank"
     /\ \A k \in (i + 1)..(j - 1) : doc[k].what = "blank"}
TitleLines(i) == {j \in Following(i) : IsLikelyFollowingTitle(doc[j])}

OpenNode(title) ==
  LET key == Len(nodes) + 1
      node == [level |-> line.level, parent |-> ParentOf(line.level, current),
               at |-> index, title |-> title, order |-> documentOrder + 1]
  IN /\ nodes' = Append(nodes, node)
     /\ current' = Opened(line.level, key, current)
     /\ documentOrder' = documentOrder + 1
     /\ sawLegalToken' = TRUE
     /\ articles' = AllArticles /\ currentArticle' = <<>> /\ unassigned' = <<>>
     /\ issues' = IF title # {} THEN Flushed
                  ELSE Append(Flushed, Issue("STRUCTURE_TITLE_MISSING", index))
     /\ UNCHANGED <<doc, preamble, phase, draft>>

TitledHeading ==
  /\ Reading /\ IsStructureHeading(line) /\ line.form = "titled"
  /\ OpenNode({index})
  /\ index' = index + 1

HeadingOverTitle ==
  /\ Reading /\ IsStructureHeading(line) /\ line.form = "bare"
  /\ \E j \in TitleLines(index) : OpenNode({j}) /\ index' = j + 1

HeadingWithoutTitle ==
  /\ Reading /\ IsStructureHeading(line) /\ line.form = "bare"
  /\ TitleLines(index) = {}
  /\ OpenNode({})
  /\ index' = index + 1

ArticleHeading ==
  /\ Reading /\ IsArticleHeading(line)
  /\ articles' = AllArticles
  /\ currentArticle' = <<[node |-> Innermost(current), at |-> index,
                          order |-> documentOrder + 1, lines |-> <<>>]>>
  /\ issues' = Flushed /\ unassigned' = <<>>
  /\ documentOrder' = documentOrder + 1
  /\ sawLegalToken' = TRUE
  /\ index' = index + 1
  /\ UNCHANGED <<doc, current, nodes, preamble, phase, draft>>

UnreadHeading ==
  /\ Reading /\ IsUnreadHeading(line)
  /\ current' = Opened(line.level, 0, current)
  /\ articles' = AllArticles /\ currentArticle' = <<>> /\ unassigned' = <<>>
  /\ issues' = Append(Flushed, Issue("UNRECOGNIZED_STRUCTURE_HEADING", index))
  /\ sawLegalToken' = TRUE
  /\ index' = index + 1
  /\ UNCHANGED <<doc, documentOrder, nodes, preamble, phase, draft>>

\* Blank lines stay in an article and in the preamble, and nowhere else.
ArticleText ==
  /\ Reading /\ line.what \in {"text", "blank"} /\ currentArticle # <<>>
  /\ currentArticle' = <<[currentArticle[1] EXCEPT !.lines = Append(@, index)]>>
  /\ index' = index + 1
  /\ UNCHANGED <<doc, context, results, unassigned, phase, draft>>

PreambleText ==
  /\ Reading /\ line.what \in {"text", "blank"}
  /\ currentArticle = <<>> /\ ~sawLegalToken
  /\ preamble' = Append(preamble, index)
  /\ index' = index + 1
  /\ UNCHANGED <<doc, context, nodes, articles, issues, pending, phase, draft>>

LooseText ==
  /\ Reading /\ line.what \in {"text", "blank"}
  /\ currentArticle = <<>> /\ sawLegalToken
  /\ unassigned' = IF line.what = "blank" THEN unassigned ELSE Append(unassigned, index)
  /\ index' = index + 1
  /\ UNCHANGED <<doc, context, results, currentArticle, phase, draft>>

(***************************************************************************)
(* After the loop: without any article the whole text becomes one          *)
(***************************************************************************)
Fallback ==
  [node |-> Innermost(current), at |-> 0, order |-> documentOrder + 1,
   lines |-> [i \in 1..Len(doc) |-> i]]

Finish ==
  /\ phase = "reading" /\ index > Len(doc)
  /\ LET marked == AllArticles # <<>>
         noArticle == IF marked THEN <<>>
                      ELSE <<Issue("ARTICLE_MARKERS_NOT_FOUND", 1)>>
         noNode == IF nodes # <<>> THEN <<>>
                   ELSE <<Issue("STRUCTURE_NOT_DETECTED", 0)>>
     IN /\ articles' = IF marked THEN AllArticles ELSE <<Fallback>>
        /\ issues' = Flushed \o noArticle \o noNode
        /\ documentOrder' = IF marked THEN documentOrder ELSE documentOrder + 1
  /\ currentArticle' = <<>> /\ unassigned' = <<>>
  /\ phase' = "parsed"
  /\ UNCHANGED <<doc, index, current, sawLegalToken, nodes, preamble, draft>>

(***************************************************************************)
(* createDraft: one transaction, which trusts nothing of the parse result  *)
(* it finds stored and refuses a parent that is missing, later or of the   *)
(* wrong level                                                             *)
(***************************************************************************)
LegalParent(level, parent) ==
  \/ parent = 0
  \/ /\ parent # 0
     /\ nodes[parent].level < level

NodeIsAccepted(i) ==
  /\ nodes[i].parent \in 0..(i - 1)
  /\ LegalParent(nodes[i].level, nodes[i].parent)

CreateDraft ==
  /\ phase = "parsed"
  /\ IF /\ \A i \in DOMAIN nodes : NodeIsAccepted(i)
        /\ \A a \in DOMAIN articles : articles[a].node \in 0..Len(nodes)
     THEN /\ phase' = "drafted"
          /\ draft' = [nodes |-> [i \in DOMAIN nodes |->
                                    [level |-> nodes[i].level, parent |-> nodes[i].parent,
                                     sort |-> nodes[i].order]],
                       articles |-> [a \in DOMAIN articles |->
                                       [node |-> articles[a].node, sort |-> a]]]
     ELSE phase' = "refused" /\ draft' = draft
  /\ UNCHANGED <<doc, index, context, results, pending>>

ReadLine ==
  \/ SkipPageMarker
  \/ TitledHeading \/ HeadingOverTitle \/ HeadingWithoutTitle
  \/ ArticleHeading \/ UnreadHeading
  \/ ArticleText \/ PreambleText \/ LooseText

ParseNext == ReadLine \/ Finish \/ CreateDraft

-----------------------------------------------------------------------------
(***************************************************************************)
(* What the result should be, told from the document alone                 *)
(***************************************************************************)
\* Line t is the title of the bare heading h.
TitleOf(h, t) ==
  /\ IsStructureHeading(doc[h]) /\ doc[h].form = "bare"
  /\ h < t /\ IsLikelyFollowingTitle(doc[t])
  /\ \A k \in (h + 1)..(t - 1) : doc[k].what = "blank"
IsTitle(t) == \E h \in 1..(t - 1) : TitleOf(h, t)

IsToken(i) == doc[i].what \in {"heading", "article"} /\ ~IsTitle(i)

\* The heading at h still governs line i: nothing of its rank, or above it, and
\* understood or not, came in between.
Governs(h, i) ==
  /\ IsStructureHeading(doc[h])
  /\ \A k \in (h + 1)..(i - 1) :
       doc[k].what = "heading" => doc[k].level > doc[h].level

\* Node n is the one that line i hangs from, headings of a level below `level`
\* alone being considered; 0 when there is none.
HangsFrom(n, i, level) ==
  LET governing == {m \in DOMAIN nodes : /\ nodes[m].at < i
                                         /\ nodes[m].level < level
                                         /\ Governs(nodes[m].at, i)}
  IN IF n = 0 THEN governing = {}
     ELSE n \in governing /\ \A m \in governing : nodes[m].level <= nodes[n].level

\* The article whose heading is at a goes on through line i.
InArticle(a, i) ==
  /\ a < i /\ IsToken(a) /\ doc[a].what = "article"
  /\ \A k \in (a + 1)..i : ~IsToken(k)

Elements(s) == {s[i] : i \in DOMAIN s}

HangsFromItsHeading ==
  /\ \A n \in DOMAIN nodes : HangsFrom(nodes[n].parent, nodes[n].at, nodes[n].level)
  /\ \A a \in DOMAIN AllArticles :
       AllArticles[a].at # 0 => HangsFrom(AllArticles[a].node, AllArticles[a].at, 4)

Early(i) == \A k \in 1..i : ~IsToken(k)
Home(i) == {a \in 1..(i - 1) : InArticle(a, i)}

\* A line of text under a heading, with no article of its own; the first of its
\* passage has no other between it and the token above.
Stray(i) == doc[i].what = "text" /\ ~Early(i) /\ ~IsTitle(i) /\ Home(i) = {}
SamePassage(r, i) == \A k \in r..i : ~IsToken(k)
OpensPassage(i) ==
  /\ Stray(i)
  /\ \A r \in 1..(i - 1) : Stray(r) => ~SamePassage(r, i)

\* There is a notice of the passage that begins at line i, or it is being collected.
Noticed(list, i) ==
  \E n \in DOMAIN list : list[n].code = "UNASSIGNED_TEXT" /\ list[n].sourceLine = i
Collected(i) == unassigned # <<>> /\ unassigned[1] = i

LineInItsPlace(i) ==
  LET has(a) == i \in Elements(AllArticles[a].lines)
  IN /\ i \in Elements(preamble) <=> Early(i)
     /\ (\E n \in DOMAIN nodes : i \in nodes[n].title) <=> IsTitle(i)
     /\ \A a \in DOMAIN AllArticles : has(a) <=> AllArticles[a].at \in Home(i)
     /\ Home(i) # {} => \E a \in DOMAIN AllArticles : has(a)
     /\ Collected(i) \/ Noticed(issues, i) <=> OpensPassage(i)

\* The outline and the text of a document are read as they stand.  "Parentage comes
\* exclusively from the active heading context in document order"
\* (legal-structure-parser.ts:250-254): each node hangs from the nearest heading of a
\* higher rank that still governs its line, and each article from the innermost
\* heading that governs its own; no heading reaches past one of its rank, not even
\* past one the parser did not understand, and none is skipped (:312-325, :376,
\* :393-400).  A line of text read so far is in the preamble when it stands before
\* the first token, in a title when a bare heading is right above it, in an article
\* when it stands under one, and in no other of these (:330-343, :410-413).  What is
\* left over is in no row: each passage of it has a notice that points at its first
\* line, and nothing else has one (:278-289, :414-417).  The notice quotes the first
\* 180 characters (:246-248), so of a longer passage the rest is in the stored text
\* of the document only; that it is kept anywhere else is not claimed.
\* The titles here are those the code takes: an article heading glued to its bracket,
\* right under a bare heading, is one of them (:238), against the document, in which
\* the next line is not consumed when it is an article's (02_STRUCTURE_PARSER.md:20).
ReadsWhatIsWritten ==
  /\ HangsFromItsHeading
  /\ phase = "reading" =>
       \A i \in 1..(index - 1) : doc[i].what = "text" => LineInItsPlace(i)

\* Nodes and articles, in the order of their sort keys, are the document again.
InDocumentOrder ==
  LET placed == {[at |-> n.at, order |-> n.order] : n \in Elements(nodes)}
                  \cup {[at |-> a.at, order |-> a.order] :
                          a \in {x \in Elements(AllArticles) : x.at # 0}}
  IN \A x, y \in placed : x.at < y.at <=> x.order < y.order

\* createDraft never refuses what the parser made, not even of a document without
\* a single heading, which becomes one article and notices (02_STRUCTURE_PARSER.md:39);
\* the rows of the draft are the nodes and articles of the parse, and sorting
\* them gives the document back (legal-structure-parser.ts:309, :369, :422-451;
\* imports.service.ts:601-700).
DraftsWhatItParsed ==
  /\ phase # "refused"
  /\ phase \in {"parsed", "drafted"} => articles # <<>> /\ InDocumentOrder
  /\ phase = "drafted" =>
       /\ Len(draft.nodes) = Len(nodes) /\ Len(draft.articles) = Len(articles)
       /\ \A i, j \in DOMAIN nodes :
            nodes[i].at < nodes[j].at <=> draft.nodes[i].sort < draft.nodes[j].sort
       /\ \A a, b \in DOMAIN articles :
            articles[a].at < articles[b].at <=> draft.articles[a].sort < draft.articles[b].sort
=============================================================================
