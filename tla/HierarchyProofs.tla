---------------------------- MODULE HierarchyProofs ----------------------------
(***************************************************************************)
(* Proofs about Hierarchy for every set of rows, articles and clients.     *)
(* That no tree has a cycle and nothing in force hangs from what is gone   *)
(* are facts about the rows; a request decides by rows it read earlier.    *)
(* The invariant therefore says of every request under way which rows it   *)
(* holds or has still to lock (LocksTaken), what it saw of them when it    *)
(* locked them (AsLocked, Fresh), where its walk up the tree has come to   *)
(* (Walked), and what it found last, without a lock (StillSo): of all this *)
(* nothing has changed since, because whoever could change it needs a lock *)
(* that the request holds, or must itself find the row unlocked.           *)
(***************************************************************************)
EXTENDS Hierarchy, TLAPS

NodeWrites == {"updateStructure", "updateReference", "enable", "disable", "delete"}
NodeMakes == {"createStructure", "createReference"}
Moves == {"updateStructure", "updateReference"} \cup NodeMakes
ArticleWrites ==
  {"assign", "unassign", "editArticle", "enableArticle", "disableArticle", "deleteArticle"}
LawWrites == {"enableLaw", "disableLaw", "deleteLaw"}
StructureOnly ==
  {"updateStructure", "createStructure", "createArticle"} \cup ArticleWrites \cup LawWrites
SubjectsOnly == {"updateReference", "createReference", "file"}

TxRow ==
  [op : Ops \cup {"none"}, id : Rows \cup {None}, to : Nodes \cup {None}, active : BOOLEAN,
   locks : Seq(Rows), walk : Nodes \cup {None}, seen : SUBSET Rows, checked : BOOLEAN]

Elems(s) == {s[i] : i \in 1..Len(s)}

TreeTypes ==
  /\ tree \in {"structure", "subjects"}
  /\ node \in [Nodes -> [state : States, parent : Nodes \cup {None}]]
  /\ article \in [Articles -> [state : States, node : Nodes \cup {None}]]
  /\ law \in [state : States, status : Statuses]
  /\ filed \subseteq Nodes
  /\ tx \in [Clients -> TxRow]
  /\ holder \in [Rows -> Clients \cup {None}]
  /\ requests \in 0..MaxRequests

\* What a request is about, and in which table.
WellFormed(t) ==
  /\ t.op \in NodeWrites \cup NodeMakes => t.id \in Nodes
  /\ t.op \in ArticleWrites \cup {"createArticle"} => t.id \in Articles
  /\ t.op \in LawWrites => t.id = "law"
  /\ t.op \in {"assign", "file"} => t.to \in Nodes
  /\ t.op \in StructureOnly => tree = "structure"
  /\ t.op \in SubjectsOnly => tree = "subjects"
  /\ t.op = "none" => t = NoRequest

\* The rows a request has locked before it writes.
MustLock(t) ==
  (IF t.op \in NodeWrites \cup ArticleWrites \cup LawWrites THEN {t.id} ELSE {})
    \cup (IF t.op \in {"createStructure", "createArticle", "editArticle"}
            \/ (t.op = "delete" /\ tree = "structure") THEN {"law"} ELSE {})
    \cup (IF t.op \in {"assign", "file"} THEN {t.to} ELSE {})

LocksTaken(c) ==
  /\ \A r \in MustLock(tx[c]) : holder[r] = c \/ r \in Elems(tx[c].locks)
  /\ tx[c].checked => tx[c].locks = <<>>
  /\ tx[c].op = "none" => \A r \in Rows : holder[r] # c

\* What a request saw of a row when it locked it is still so.
AsLocked(c) ==
  LET t == tx[c]
  IN /\ t.op \in NodeWrites /\ holder[t.id] = c => Living(node[t.id].state)
     /\ t.op \in ArticleWrites /\ holder[t.id] = c => Living(article[t.id].state)
     /\ t.op \in {"createStructure", "createArticle", "enableLaw", "disableLaw"}
          /\ holder["law"] = c => law.state # "deleted"
     /\ t.op \in {"assign", "file"} /\ holder[t.to] = c => node[t.to].state = "active"
     /\ t.op = "enable" /\ holder[t.id] = c /\ node[t.id].parent \notin {None, t.id} =>
          \/ node[t.id].parent \in Elems(t.locks)
          \/ holder[node[t.id].parent] = c /\ node[node[t.id].parent].state = "active"

\* The row a request makes is not there yet, and no other request makes it.
Fresh(c) ==
  /\ tx[c].op \in NodeMakes =>
       /\ node[tx[c].id].state = "absent"
       /\ \A d \in Clients : d # c /\ tx[d].op \in NodeMakes => tx[d].id # tx[c].id
  /\ tx[c].op = "createArticle" =>
       /\ article[tx[c].id].state = "absent"
       /\ \A d \in Clients : d # c /\ tx[d].op = "createArticle" => tx[d].id # tx[c].id

\* The ancestors a request has walked over, which it holds, lead from the new parent
\* to the one it walks to next.
Ancestors(c) == tx[c].seen \ {tx[c].id}
Walked(c) ==
  tx[c].op \in Moves =>
    /\ tx[c].id \in tx[c].seen
    /\ tx[c].to \in Ancestors(c) \cup {tx[c].walk}
    /\ \A m \in Ancestors(c) :
         /\ m \in Nodes /\ holder[m] = c /\ node[m].state = "active"
         /\ node[m].parent \in Ancestors(c) \cup {tx[c].walk}

\* What a request found without a lock is still so.
StillSo(c) ==
  LET t == tx[c]
  IN t.checked =>
       /\ t.op = "disable" => \A m \in Nodes : node[m].parent = t.id => node[m].state # "active"
       /\ t.op = "delete" =>
            /\ \A m \in Nodes : node[m].parent = t.id => ~Living(node[m].state)
            /\ tree = "structure" =>
                 \A a \in Articles : article[a].node = t.id => ~Living(article[a].state)
            /\ tree = "subjects" => t.id \notin filed
       /\ t.op \in {"createArticle", "editArticle"} => t.to = None \/ Living(node[t.to].state)
       /\ t.op = "deleteLaw" => KnownNodes = {} /\ KnownArticles = {}

OwnState(c) ==
  WellFormed(tx[c]) /\ LocksTaken(c) /\ AsLocked(c) /\ Fresh(c) /\ Walked(c) /\ StillSo(c)

\* The tables of the other tree are empty.
OtherTree ==
  /\ tree = "subjects" =>
       law.state = "active" /\ \A a \in Articles : article[a].state = "absent"
  /\ tree = "structure" => filed = {}

TreeInv ==
  /\ TreeTypes /\ (\A c \in Clients : OwnState(c))
  /\ OtherTree /\ NoCycle /\ NothingHangsFromTheGone

-----------------------------------------------------------------------------
(***************************************************************************)
(* What is still to be locked                                              *)
(***************************************************************************)
LEMMA ElemsOf ==
  /\ Elems(<<>>) = {}
  /\ \A a : Elems(<<a>>) = {a}
  /\ \A a, b : Elems(<<a, b>>) = {a, b}
  /\ \A a, b, c : Elems(<<a, b, c>>) = {a, b, c}
<1>1. Elems(<<>>) = {}
  BY DEF Elems
<1>2. ASSUME NEW a PROVE Elems(<<a>>) = {a}
  <2>1. \A i : i \in 1..Len(<<a>>) <=> i = 1
    OBVIOUS
  <2> QED BY <2>1 DEF Elems
<1>3. ASSUME NEW a, NEW b PROVE Elems(<<a, b>>) = {a, b}
  <2>1. \A i : i \in 1..Len(<<a, b>>) <=> i = 1 \/ i = 2
    OBVIOUS
  <2> QED BY <2>1 DEF Elems
<1>4. ASSUME NEW a, NEW b, NEW c PROVE Elems(<<a, b, c>>) = {a, b, c}
  <2>1. \A i : i \in 1..Len(<<a, b, c>>) <=> i = 1 \/ i = 2 \/ i = 3
    OBVIOUS
  <2> QED BY <2>1 DEF Elems
<1> QED BY <1>1, <1>2, <1>3, <1>4

LEMMA ElemsOfTail ==
  ASSUME NEW T, NEW s \in Seq(T), s # <<>>
  PROVE  /\ Head(s) \in T /\ Tail(s) \in Seq(T)
         /\ Elems(s) \subseteq {Head(s)} \cup Elems(Tail(s))
<1>1. Head(s) \in T /\ Tail(s) \in Seq(T) /\ Len(Tail(s)) = Len(s) - 1
  OBVIOUS
<1>2. ASSUME NEW i \in 1..Len(s), i # 1
      PROVE  i - 1 \in 1..Len(Tail(s)) /\ Tail(s)[i - 1] = s[i]
  BY <1>2
<1>3. s[1] = Head(s)
  OBVIOUS
<1> QED BY <1>1, <1>2, <1>3 DEF Elems

LEMMA ElemsOfAppend ==
  ASSUME NEW T, NEW s \in Seq(T), NEW r \in T
  PROVE  /\ Append(s, r) \in Seq(T) /\ r \in Elems(Append(s, r))
         /\ Elems(s) \subseteq Elems(Append(s, r))
<1>1. /\ Append(s, r) \in Seq(T) /\ Len(Append(s, r)) = Len(s) + 1
      /\ Len(s) \in Nat /\ Append(s, r)[Len(s) + 1] = r
      /\ \A i \in 1..Len(s) : Append(s, r)[i] = s[i]
  OBVIOUS
<1> QED BY <1>1 DEF Elems

-----------------------------------------------------------------------------
(***************************************************************************)
(* A request that begins                                                   *)
(***************************************************************************)
WellBegun(r) ==
  /\ r \in TxRow /\ WellFormed(r) /\ r.op # "none" /\ ~r.checked
  /\ r.seen = {r.id} /\ (r.op \in Moves => r.walk = r.to)
  /\ MustLock(r) \subseteq Elems(r.locks)
  /\ r.op \in NodeMakes => r.id \in FreshNodes
  /\ r.op = "createArticle" => r.id \in FreshArticles

\* A request that is about what its operation asks for, and lists what it must lock.
Fits(op, id, to, locks, walk) ==
  /\ op \in Ops /\ id \in Rows /\ to \in Nodes \cup {None}
  /\ locks \in Seq(Rows) /\ walk \in Nodes \cup {None}
  /\ op \in NodeWrites \cup NodeMakes => id \in Nodes
  /\ op \in ArticleWrites \cup {"createArticle"} => id \in Articles
  /\ op \in LawWrites => id = "law"
  /\ op \in {"assign", "file"} => to \in Nodes /\ to \in Elems(locks)
  /\ op \in StructureOnly => tree = "structure"
  /\ op \in SubjectsOnly => tree = "subjects"
  /\ op \in Moves => walk = to
  /\ op \in NodeWrites \cup ArticleWrites \cup LawWrites => id \in Elems(locks)
  /\ op \in {"createStructure", "createArticle", "editArticle"} => "law" \in Elems(locks)
  /\ op = "delete" /\ tree = "structure" => "law" \in Elems(locks)
  /\ op \in NodeMakes => id \in FreshNodes
  /\ op = "createArticle" => id \in FreshArticles

LEMMA FittingBegins ==
  ASSUME NEW op, NEW id, NEW to, NEW locks, NEW walk,
         Fits(op, id, to, locks, walk)
  PROVE  /\ WellBegun(Request(op, id, to, locks, walk))
         /\ \A active \in BOOLEAN : WellBegun(Flagged(Request(op, id, to, locks, walk), active))
<1> SUFFICES ASSUME NEW r,
                    \/ r = Request(op, id, to, locks, walk)
                    \/ \E active \in BOOLEAN :
                         r = Flagged(Request(op, id, to, locks, walk), active)
             PROVE  WellBegun(r)
  OBVIOUS
<1>1. /\ r \in TxRow /\ r.op = op /\ r.id = id /\ r.to = to /\ r.locks = locks
      /\ r.walk = walk /\ r.seen = {id} /\ r.checked = FALSE
  <2>1. /\ op \in Ops /\ id \in Rows /\ to \in Nodes \cup {None}
        /\ locks \in Seq(Rows) /\ walk \in Nodes \cup {None}
    BY DEF Fits
  <2> DEFINE q == Request(op, id, to, locks, walk)
  <2>2. /\ q \in TxRow /\ q.op = op /\ q.id = id /\ q.to = to /\ q.locks = locks
        /\ q.walk = walk /\ q.seen = {id} /\ q.checked = FALSE
    BY <2>1 DEF Request, TxRow
  <2> HIDE DEF q
  <2>3. CASE \E active \in BOOLEAN : r = Flagged(q, active)
    BY <2>2, <2>3 DEF Flagged, TxRow
  <2> QED BY <2>2, <2>3 DEF q
<1>2. op # "none"
  BY DEF Ops, Fits
<1>3. WellFormed(r)
  BY <1>1, <1>2 DEF WellFormed, Fits
<1>4. MustLock(r) \subseteq Elems(r.locks)
  <2>1. r.op \in NodeWrites \cup ArticleWrites \cup LawWrites => r.id \in Elems(r.locks)
    BY <1>1, Zenon DEF Fits
  <2>2. r.op \in {"createStructure", "createArticle", "editArticle"}
          \/ (r.op = "delete" /\ tree = "structure") => "law" \in Elems(r.locks)
    BY <1>1, Zenon DEF Fits
  <2>3. r.op \in {"assign", "file"} => r.to \in Elems(r.locks)
    BY <1>1, Zenon DEF Fits
  <2> QED BY <2>1, <2>2, <2>3, Zenon DEF MustLock
<1> QED BY <1>1, <1>2, <1>3, <1>4 DEF WellBegun, Fits

LEMMA EveryRequestBegins ==
  ASSUME TreeTypes, NEW r \in Requests
  PROVE  WellBegun(r)
<1> USE ElemsOf
<1>0. /\ KnownNodes \subseteq Nodes /\ KnownArticles \subseteq Articles
      /\ FreshNodes \subseteq Nodes /\ FreshArticles \subseteq Articles
      /\ Parents \subseteq Nodes \cup {None} /\ Nodes \subseteq Rows /\ Articles \subseteq Rows
      /\ "law" \in Rows /\ None \in Nodes \cup {None}
  BY DEF KnownNodes, KnownArticles, FreshNodes, FreshArticles, NotBeingMade, Parents, Rows
<1>s. /\ <<>> \in Seq(Rows) /\ \A a \in Rows : <<a>> \in Seq(Rows)
      /\ \A a, b \in Rows : <<a, b>> \in Seq(Rows)
      /\ \A a, b, c \in Rows : <<a, b, c>> \in Seq(Rows)
  OBVIOUS
<1>1. CASE r \in {Request("disable", n, None, <<n>>, None) : n \in KnownNodes}
  <2>1. PICK n \in KnownNodes : r = Request("disable", n, None, <<n>>, None)
    BY <1>1
  <2>2. Fits("disable", n, None, <<n>>, None)
    BY <1>0, <1>s, <2>1 DEF Fits, Ops, NodeWrites, NodeMakes, Moves,
       ArticleWrites, LawWrites, StructureOnly, SubjectsOnly
  <2> QED BY <2>1, <2>2, FittingBegins
<1>2. CASE tree = "structure" /\ r \in NodeRequests
  <2> DEFINE R1(n, p) == Request("updateStructure", n, p, <<n, "law">>, p)
  <2> DEFINE R2(n, p) == Request("createStructure", n, p, <<"law">>, p)
  <2> DEFINE R3(op, n) == Request(op, n, None, <<n, "law">>, None)
  <2> DEFINE S1 == {R1(n, p) : n \in KnownNodes, p \in Parents}
  <2> DEFINE S2 == {R2(n, p) : n \in FreshNodes, p \in Parents}
  <2> DEFINE S3 == {R3(op, n) : op \in {"enable", "delete"}, n \in KnownNodes}
  <2>0. r \in S1 \cup S2 \cup S3
    BY <1>2 DEF NodeRequests
  <2>1. ASSUME NEW q \in S1 PROVE WellBegun(q)
    <3> HIDE DEF R1
    <3>1. PICK n \in KnownNodes, p \in Parents : q = R1(n, p)
      OBVIOUS
    <3> USE DEF R1
    <3>2. Fits("updateStructure", n, p, <<n, "law">>, p)
      BY <1>0, <1>s, <1>2, <3>1 DEF Fits, Ops, NodeWrites, NodeMakes, Moves, ArticleWrites,
         LawWrites, StructureOnly, SubjectsOnly
    <3> QED BY <3>1, <3>2, FittingBegins
  <2>2. ASSUME NEW q \in S2 PROVE WellBegun(q)
    <3> HIDE DEF R2
    <3>1. PICK n \in FreshNodes, p \in Parents : q = R2(n, p)
      OBVIOUS
    <3> USE DEF R2
    <3>2. Fits("createStructure", n, p, <<"law">>, p)
      BY <1>0, <1>s, <1>2, <3>1 DEF Fits, Ops, NodeWrites, NodeMakes, Moves, ArticleWrites,
         LawWrites, StructureOnly, SubjectsOnly
    <3> QED BY <3>1, <3>2, FittingBegins
  <2>3. ASSUME NEW q \in S3 PROVE WellBegun(q)
    <3> HIDE DEF R3
    <3>1. PICK op \in {"enable", "delete"}, n \in KnownNodes : q = R3(op, n)
      OBVIOUS
    <3> USE DEF R3
    <3>2. Fits(op, n, None, <<n, "law">>, None)
      BY <1>0, <1>s, <1>2, <3>1 DEF Fits, Ops, NodeWrites, NodeMakes, Moves, ArticleWrites,
         LawWrites, StructureOnly, SubjectsOnly
    <3> QED BY <3>1, <3>2, FittingBegins
  <2> HIDE DEF S1, S2, S3
  <2> QED BY <2>0, <2>1, <2>2, <2>3
<1>6. CASE tree = "structure" /\ r \in PlaceRequests
  <2> DEFINE R1(op, a, n) == Request(op, a, n, <<n, "law", a>>, None)
  <2> DEFINE R2(a, n) == Request("createArticle", a, n, <<"law">>, None)
  <2> DEFINE R3(a, n) == Request("editArticle", a, n, <<a, "law">>, None)
  <2> DEFINE S1 == {R1(op, a, n) :
                      op \in {"assign", "unassign"}, a \in KnownArticles, n \in KnownNodes}
  <2> DEFINE S2 == {R2(a, n) : a \in FreshArticles, n \in Parents}
  <2> DEFINE S3 == {R3(a, n) : a \in KnownArticles, n \in Parents}
  <2>0. r \in S1 \cup S2 \cup S3
    BY <1>6 DEF PlaceRequests
  <2>1. ASSUME NEW q \in S1 PROVE WellBegun(q)
    <3> HIDE DEF R1
    <3>1. PICK op \in {"assign", "unassign"}, a \in KnownArticles, n \in KnownNodes :
            q = R1(op, a, n)
      OBVIOUS
    <3> USE DEF R1
    <3>2. Fits(op, a, n, <<n, "law", a>>, None)
      BY <1>0, <1>s, <1>6, <3>1 DEF Fits, Ops, NodeWrites, NodeMakes, Moves, ArticleWrites,
         LawWrites, StructureOnly, SubjectsOnly
    <3> QED BY <3>1, <3>2, FittingBegins
  <2>2. ASSUME NEW q \in S2 PROVE WellBegun(q)
    <3> HIDE DEF R2
    <3>1. PICK a \in FreshArticles, n \in Parents : q = R2(a, n)
      OBVIOUS
    <3> USE DEF R2
    <3>2. Fits("createArticle", a, n, <<"law">>, None)
      BY <1>0, <1>s, <1>6, <3>1 DEF Fits, Ops, NodeWrites, NodeMakes, Moves, ArticleWrites,
         LawWrites, StructureOnly, SubjectsOnly
    <3> QED BY <3>1, <3>2, FittingBegins
  <2>3. ASSUME NEW q \in S3 PROVE WellBegun(q)
    <3> HIDE DEF R3
    <3>1. PICK a \in KnownArticles, n \in Parents : q = R3(a, n)
      OBVIOUS
    <3> USE DEF R3
    <3>2. Fits("editArticle", a, n, <<a, "law">>, None)
      BY <1>0, <1>s, <1>6, <3>1 DEF Fits, Ops, NodeWrites, NodeMakes, Moves, ArticleWrites,
         LawWrites, StructureOnly, SubjectsOnly
    <3> QED BY <3>1, <3>2, FittingBegins
  <2> HIDE DEF S1, S2, S3
  <2> QED BY <2>0, <2>1, <2>2, <2>3
<1>3. CASE tree = "structure" /\ r \in ArticleRequests
  <2> DEFINE R1(op, a) == Request(op, a, None, <<a, "law">>, None)
  <2> DEFINE R2(a) == Request("disableArticle", a, None, <<a>>, None)
  <2> DEFINE S1 == {R1(op, a) : op \in {"enableArticle", "deleteArticle"}, a \in KnownArticles}
  <2> DEFINE S2 == {R2(a) : a \in KnownArticles}
  <2>0. r \in S1 \cup S2
    BY <1>3 DEF ArticleRequests
  <2>1. ASSUME NEW q \in S1 PROVE WellBegun(q)
    <3> HIDE DEF R1
    <3>1. PICK op \in {"enableArticle", "deleteArticle"}, a \in KnownArticles : q = R1(op, a)
      OBVIOUS
    <3> USE DEF R1
    <3>2. Fits(op, a, None, <<a, "law">>, None)
      BY <1>0, <1>s, <1>3, <3>1 DEF Fits, Ops, NodeWrites, NodeMakes, Moves, ArticleWrites,
         LawWrites, StructureOnly, SubjectsOnly
    <3> QED BY <3>1, <3>2, FittingBegins
  <2>2. ASSUME NEW q \in S2 PROVE WellBegun(q)
    <3> HIDE DEF R2
    <3>1. PICK a \in KnownArticles : q = R2(a)
      OBVIOUS
    <3> USE DEF R2
    <3>2. Fits("disableArticle", a, None, <<a>>, None)
      BY <1>0, <1>s, <1>3, <3>1 DEF Fits, Ops, NodeWrites, NodeMakes, Moves, ArticleWrites,
         LawWrites, StructureOnly, SubjectsOnly
    <3> QED BY <3>1, <3>2, FittingBegins
  <2> HIDE DEF S1, S2
  <2> QED BY <2>0, <2>1, <2>2
<1>4. CASE tree = "structure" /\ r \in LawRequests
  <2> DEFINE R1(op) == Request(op, "law", None, <<"law">>, None)
  <2> DEFINE S1 == {R1(op) : op \in {"enableLaw", "disableLaw", "deleteLaw"}}
  <2>0. r \in S1
    BY <1>4 DEF LawRequests
  <2>1. ASSUME NEW q \in S1 PROVE WellBegun(q)
    <3> HIDE DEF R1
    <3>1. PICK op \in {"enableLaw", "disableLaw", "deleteLaw"} : q = R1(op)
      OBVIOUS
    <3> USE DEF R1
    <3>2. Fits(op, "law", None, <<"law">>, None)
      BY <1>0, <1>s, <1>4, <3>1 DEF Fits, Ops, NodeWrites, NodeMakes, Moves, ArticleWrites,
         LawWrites, StructureOnly, SubjectsOnly
    <3> QED BY <3>1, <3>2, FittingBegins
  <2> HIDE DEF S1
  <2> QED BY <2>0, <2>1
<1>5. CASE tree = "subjects" /\ r \in SubjectRequests
  <2> DEFINE R1(n, p, active) == Flagged(Request("updateReference", n, p, <<n>>, p), active)
  <2> DEFINE R2(n, p, active) == Flagged(Request("createReference", n, p, <<>>, p), active)
  <2> DEFINE R3(n) == Request("file", "law", n, <<"law", n>>, None)
  <2> DEFINE R4(op, n) == Request(op, n, None, <<n>>, None)
  <2> DEFINE S1 == {R1(n, p, active) : n \in KnownNodes, p \in Parents, active \in BOOLEAN}
  <2> DEFINE S2 == {R2(n, p, active) : n \in FreshNodes, p \in Parents, active \in BOOLEAN}
  <2> DEFINE S3 == {R3(n) : n \in KnownNodes}
  <2> DEFINE S4 == {R4(op, n) : op \in {"enable", "delete"}, n \in KnownNodes}
  <2>0. r \in S1 \cup S2 \cup S3 \cup S4
    BY <1>5 DEF SubjectRequests
  <2>1. ASSUME NEW q \in S1 PROVE WellBegun(q)
    <3> HIDE DEF R1
    <3>1. PICK n \in KnownNodes, p \in Parents, active \in BOOLEAN : q = R1(n, p, active)
      OBVIOUS
    <3> USE DEF R1
    <3>2. Fits("updateReference", n, p, <<n>>, p)
      BY <1>0, <1>s, <1>5, <3>1 DEF Fits, Ops, NodeWrites, NodeMakes, Moves, ArticleWrites,
         LawWrites, StructureOnly, SubjectsOnly
    <3> QED BY <3>1, <3>2, FittingBegins
  <2>2. ASSUME NEW q \in S2 PROVE WellBegun(q)
    <3> HIDE DEF R2
    <3>1. PICK n \in FreshNodes, p \in Parents, active \in BOOLEAN : q = R2(n, p, active)
      OBVIOUS
    <3> USE DEF R2
    <3>2. Fits("createReference", n, p, <<>>, p)
      BY <1>0, <1>s, <1>5, <3>1 DEF Fits, Ops, NodeWrites, NodeMakes, Moves, ArticleWrites,
         LawWrites, StructureOnly, SubjectsOnly
    <3> QED BY <3>1, <3>2, FittingBegins
  <2>3. ASSUME NEW q \in S3 PROVE WellBegun(q)
    <3> HIDE DEF R3
    <3>1. PICK n \in KnownNodes : q = R3(n)
      OBVIOUS
    <3> USE DEF R3
    <3>2. Fits("file", "law", n, <<"law", n>>, None)
      BY <1>0, <1>s, <1>5, <3>1 DEF Fits, Ops, NodeWrites, NodeMakes, Moves, ArticleWrites,
         LawWrites, StructureOnly, SubjectsOnly
    <3> QED BY <3>1, <3>2, FittingBegins
  <2>4. ASSUME NEW q \in S4 PROVE WellBegun(q)
    <3> HIDE DEF R4
    <3>1. PICK op \in {"enable", "delete"}, n \in KnownNodes : q = R4(op, n)
      OBVIOUS
    <3> USE DEF R4
    <3>2. Fits(op, n, None, <<n>>, None)
      BY <1>0, <1>s, <1>5, <3>1 DEF Fits, Ops, NodeWrites, NodeMakes, Moves, ArticleWrites,
         LawWrites, StructureOnly, SubjectsOnly
    <3> QED BY <3>1, <3>2, FittingBegins
  <2> HIDE DEF S1, S2, S3, S4
  <2> QED BY <2>0, <2>1, <2>2, <2>3, <2>4
<1> QED BY <1>1, <1>2, <1>3, <1>4, <1>5, <1>6, Zenon DEF Requests, TreeTypes

-----------------------------------------------------------------------------
(***************************************************************************)
(* Steps that write no row                                                 *)
(***************************************************************************)
LEMMA IdleStands ==
  ASSUME NEW c \in Clients, tx'[c] = NoRequest, \A r \in Rows : holder'[r] # c
  PROVE  OwnState(c)'
<1>1. NoRequest.op = "none" /\ NoRequest.checked = FALSE
  BY DEF NoRequest
<1>2. WellFormed(tx[c])'
  BY <1>1 DEF WellFormed, NodeWrites, NodeMakes, ArticleWrites, LawWrites, StructureOnly,
     SubjectsOnly
<1>3. LocksTaken(c)'
  BY <1>1 DEF LocksTaken, MustLock, NodeWrites, ArticleWrites, LawWrites
<1>4. AsLocked(c)' /\ Fresh(c)' /\ Walked(c)' /\ StillSo(c)'
  BY <1>1 DEF AsLocked, Fresh, Walked, StillSo, NodeWrites, NodeMakes, Moves, ArticleWrites
<1> QED BY <1>2, <1>3, <1>4 DEF OwnState

\* A request whose rows are left alone stands as it was.
LEMMA OthersStand ==
  ASSUME TreeTypes, TreeTypes', NEW d \in Clients, OwnState(d),
         tree' = tree, tx'[d] = tx[d],
         \A r \in Rows : holder'[r] = d <=> holder[r] = d,
         \A n \in Nodes : holder[n] = d /\ node[n].state # "absent" => node'[n] = node[n],
         \A a \in Articles :
           holder[a] = d /\ article[a].state # "absent" => article'[a] = article[a],
         holder["law"] = d => law'.state = law.state,
         Fresh(d)', StillSo(d)'
  PROVE  OwnState(d)'
<1>0. Nodes \subseteq Rows /\ Articles \subseteq Rows /\ "law" \in Rows
  BY DEF Rows
<1>1. WellFormed(tx[d])'
  BY DEF OwnState, WellFormed
<1>2. LocksTaken(d)'
  <2>1. MustLock(tx[d])' = MustLock(tx[d])
    BY DEF MustLock
  <2>2. MustLock(tx[d]) \subseteq Rows
    BY <1>0 DEF MustLock, OwnState, WellFormed, NodeWrites, ArticleWrites, LawWrites
  <2> QED BY <2>1, <2>2 DEF LocksTaken, OwnState
<1>3. AsLocked(d)'
  <2> DEFINE t == tx[d]
  <2>1. t.op \in NodeWrites /\ holder'[t.id] = d =>
          /\ t.id \in Nodes /\ holder[t.id] = d /\ Living(node[t.id].state)
          /\ node'[t.id] = node[t.id]
    BY <1>0 DEF OwnState, WellFormed, AsLocked, Living
  <2>2. t.op \in ArticleWrites /\ holder'[t.id] = d => Living(article'[t.id].state)
    BY <1>0 DEF OwnState, WellFormed, AsLocked, Living
  <2>3. t.op \in {"createStructure", "createArticle", "enableLaw", "disableLaw"}
          /\ holder'["law"] = d => law'.state # "deleted"
    BY <1>0 DEF OwnState, AsLocked
  <2>4. t.op \in {"assign", "file"} /\ holder'[t.to] = d => node'[t.to].state = "active"
    BY <1>0 DEF OwnState, WellFormed, AsLocked
  <2>5. t.op = "enable" /\ holder'[t.id] = d /\ node'[t.id].parent \notin {None, t.id} =>
          \/ node'[t.id].parent \in Elems(t.locks)
          \/ holder'[node'[t.id].parent] = d /\ node'[node'[t.id].parent].state = "active"
    <3>1. HAVE t.op = "enable" /\ holder'[t.id] = d /\ node'[t.id].parent \notin {None, t.id}
    <3> DEFINE p == node[t.id].parent
    <3>2. /\ holder[t.id] = d /\ node'[t.id] = node[t.id] /\ p \notin {None, t.id}
          /\ p \in Nodes
      BY <3>1, <2>1 DEF NodeWrites, TreeTypes
    <3>3. p \in Elems(t.locks) \/ (holder[p] = d /\ node[p].state = "active")
      BY <3>1, <3>2 DEF OwnState, AsLocked
    <3>4. holder[p] = d /\ node[p].state = "active" => holder'[p] = d /\ node'[p] = node[p]
      BY <3>2, <1>0
    <3> QED BY <3>2, <3>3, <3>4
  <2> QED BY <2>1, <2>2, <2>3, <2>4, <2>5 DEF AsLocked
<1>4. Walked(d)'
  <2>1. Ancestors(d)' = Ancestors(d)
    BY DEF Ancestors
  <2>2. ASSUME tx[d].op \in Moves, NEW m \in Ancestors(d)
        PROVE  m \in Nodes /\ holder'[m] = d /\ node'[m] = node[m]
    BY <2>2, <1>0 DEF OwnState, Walked
  <2> QED BY <2>1, <2>2 DEF OwnState, Walked
<1> QED BY <1>1, <1>2, <1>3, <1>4 DEF OwnState

\* A step that changes the transaction of one request, and the locks it holds.
LEMMA QuietKeeps ==
  ASSUME TreeInv, NEW c \in Clients, NEW t \in TxRow, UNCHANGED <<tree, treeRows>>,
         tx' = [tx EXCEPT ![c] = t], holder' \in [Rows -> Clients \cup {None}],
         requests' \in 0..MaxRequests,
         \A d \in Clients \ {c}, r \in Rows : holder'[r] = d <=> holder[r] = d,
         OwnState(c)'
  PROVE  TreeInv'
<1>1. /\ node' = node /\ article' = article /\ law' = law /\ filed' = filed /\ tree' = tree
  BY DEF treeRows
<1>2. TreeTypes'
  BY <1>1 DEF TreeInv, TreeTypes
<1>3. ASSUME NEW d \in Clients PROVE OwnState(d)'
  <2>1. CASE d = c
    BY <2>1
  <2>2. CASE d # c
    <3>1. tx'[d] = tx[d] /\ OwnState(d)
      BY <2>2 DEF TreeInv, TreeTypes
    <3>2. Fresh(d)'
      <4>1. \A e \in Clients \ {c} : tx'[e] = tx[e]
        BY DEF TreeInv, TreeTypes
      <4>2. Fresh(d) /\ Fresh(c)'
        BY <3>1 DEF OwnState
      <4>3. ASSUME NEW e \in Clients, e # d
            PROVE  /\ tx[d].op \in NodeMakes /\ tx'[e].op \in NodeMakes => tx'[e].id # tx[d].id
                   /\ tx[d].op = "createArticle" /\ tx'[e].op = "createArticle"
                        => tx'[e].id # tx[d].id
        <5>1. CASE e = c
          BY <3>1, <4>2, <4>3, <5>1 DEF Fresh
        <5>2. CASE e # c
          BY <4>1, <4>2, <4>3, <5>2 DEF Fresh
        <5> QED BY <5>1, <5>2
      <4> QED BY <1>1, <3>1, <4>2, <4>3 DEF Fresh
    <3>3. StillSo(d)'
      BY <1>1, <3>1 DEF OwnState, StillSo, KnownNodes, KnownArticles
    <3> QED BY <1>1, <1>2, <2>2, <3>1, <3>2, <3>3, OthersStand DEF TreeInv
  <2> QED BY <2>1, <2>2
<1>4. OtherTree' /\ NoCycle'
  BY <1>1 DEF TreeInv, OtherTree, NoCycle
<1>5. NothingHangsFromTheGone'
  BY <1>1 DEF TreeInv, NothingHangsFromTheGone, KnownNodes, KnownArticles
<1> QED BY <1>2, <1>3, <1>4, <1>5 DEF TreeInv

LEMMA ReleasedLocks ==
  ASSUME TreeTypes, NEW c \in Clients, holder' = Released(c)
  PROVE  /\ holder' \in [Rows -> Clients \cup {None}]
         /\ \A r \in Rows : holder'[r] # c
         /\ \A d \in Clients \ {c}, r \in Rows : holder'[r] = d <=> holder[r] = d
BY NoneAssumption DEF TreeTypes, Released

LEMMA RefuseKeeps ==
  ASSUME TreeInv, NEW c \in Clients, Refuse(c)
  PROVE  TreeInv'
<1>1. /\ tx' = [tx EXCEPT ![c] = NoRequest] /\ UNCHANGED <<tree, treeRows>>
      /\ requests' = requests /\ holder' = Released(c)
  BY DEF Refuse
<1>2. NoRequest \in TxRow
  BY DEF NoRequest, TxRow
<1>3. tx'[c] = NoRequest
  BY <1>1 DEF TreeInv, TreeTypes
<1>4. OwnState(c)'
  BY <1>1, <1>3, ReleasedLocks, IdleStands DEF TreeInv
<1> QED BY <1>1, <1>2, <1>4, ReleasedLocks, QuietKeeps DEF TreeInv, TreeTypes

LEMMA BeginRequestKeeps ==
  ASSUME TreeInv, NEW c \in Clients, BeginRequest(c)
  PROVE  TreeInv'
<1>1. PICK r \in Requests : tx' = [tx EXCEPT ![c] = r]
  BY DEF BeginRequest
<1>2. WellBegun(r)
  BY EveryRequestBegins DEF TreeInv
<1>3. /\ UNCHANGED <<tree, treeRows>> /\ holder' = holder /\ requests' \in 0..MaxRequests
      /\ tx[c] = NoRequest
  BY RequestsAssumption DEF BeginRequest, TreeInv, TreeTypes
<1>4. tx'[c] = r /\ \A d \in Clients \ {c} : tx'[d] = tx[d]
  BY <1>1 DEF TreeInv, TreeTypes
<1>5. \A x \in Rows : holder'[x] # c
  BY <1>3 DEF TreeInv, OwnState, LocksTaken, NoRequest
<1>6. tree' = tree /\ node' = node /\ article' = article /\ law' = law
  BY <1>3 DEF treeRows
<1>7. WellFormed(tx[c])'
  BY <1>2, <1>4, <1>6 DEF WellBegun, WellFormed
<1>8. LocksTaken(c)'
  <2>1. MustLock(tx[c])' = MustLock(r)
    BY <1>4, <1>6 DEF MustLock
  <2> QED BY <1>2, <1>4, <2>1 DEF LocksTaken, WellBegun
<1>9. AsLocked(c)'
  BY <1>2, <1>4, <1>5 DEF AsLocked, WellBegun, WellFormed, Rows, NodeWrites
<1>10. Fresh(c)'
  BY <1>2, <1>4, <1>6 DEF Fresh, WellBegun, FreshNodes, FreshArticles, NotBeingMade
<1>11. Walked(c)' /\ StillSo(c)'
  BY <1>2, <1>4 DEF Walked, StillSo, Ancestors, WellBegun
<1>12. OwnState(c)'
  BY <1>7, <1>8, <1>9, <1>10, <1>11 DEF OwnState
<1>13. r \in TxRow
  BY <1>2 DEF WellBegun
<1> QED BY <1>1, <1>3, <1>12, <1>13, QuietKeeps DEF TreeInv, TreeTypes

\* A lock that is granted is granted to one.
LEMMA TakenLock ==
  ASSUME TreeTypes, NEW c \in Clients, NEW r \in Rows, FreeFor(c, r),
         holder' = [holder EXCEPT ![r] = c]
  PROVE  /\ holder' \in [Rows -> Clients \cup {None}]
         /\ holder'[r] = c /\ \A x \in Rows : holder[x] = c => holder'[x] = c
         /\ \A x \in Rows : holder'[x] = c => x = r \/ holder[x] = c
         /\ \A d \in Clients \ {c}, x \in Rows : holder'[x] = d <=> holder[x] = d
BY NoneAssumption DEF TreeTypes, FreeFor

LEMMA LockRowKeeps ==
  ASSUME TreeInv, NEW c \in Clients, LockRow(c)
  PROVE  TreeInv'
<1> DEFINE r == Head(tx[c].locks)
           rest == ThenLocks(c, r)
           t == [tx[c] EXCEPT !.locks = rest]
<1>0. /\ Nodes \subseteq Rows /\ Articles \subseteq Rows /\ "law" \in Rows
      /\ \A x \in Nodes : x \notin Articles /\ x # "law"
      /\ "law" \notin Articles
  BY RowsAssumption DEF Rows
<1>1. /\ TreeTypes /\ OwnState(c) /\ tx[c] \in TxRow /\ tx[c].locks # <<>>
      /\ tx[c].locks \in Seq(Rows)
  BY DEF TreeInv, TreeTypes, LockRow, TxRow
<1>2. /\ r \in Rows /\ Tail(tx[c].locks) \in Seq(Rows)
      /\ Elems(tx[c].locks) \subseteq {r} \cup Elems(Tail(tx[c].locks))
  BY <1>1, ElemsOfTail
<1>3. CASE Refuse(c)
  BY <1>3, RefuseKeeps
<1>4. CASE /\ FreeFor(c, r) /\ Admits(c, r)
           /\ holder' = [holder EXCEPT ![r] = c] /\ tx' = [tx EXCEPT ![c].locks = rest]
           /\ UNCHANGED <<tree, treeRows, requests>>
  <2>p. PICK q \in Rows : q = r
    BY <1>2
  <2>t. PICK u : u = t
    OBVIOUS
  <2>1. /\ rest \in Seq(Rows) /\ Elems(Tail(tx[c].locks)) \subseteq Elems(rest)
        /\ tx[c].op = "enable" /\ q = tx[c].id /\ node[q].parent # None
             => node[q].parent \in Elems(rest)
    <3>1. CASE tx[c].op = "enable" /\ r = tx[c].id /\ node[r].parent # None
      <4>1. r \in Nodes /\ node[r].parent \in Rows
        BY <1>0, <1>1, <3>1 DEF OwnState, WellFormed, NodeWrites, TreeTypes
      <4>2. rest = Append(Tail(tx[c].locks), node[r].parent)
        BY <3>1 DEF ThenLocks
      <4> HIDE DEF r, rest
      <4> QED BY <1>2, <4>1, <4>2, <2>p, ElemsOfAppend
    <3>2. CASE ~(tx[c].op = "enable" /\ r = tx[c].id /\ node[r].parent # None)
      BY <1>2, <3>2, <2>p DEF ThenLocks
    <3> QED BY <3>1, <3>2
  <2>2. /\ u \in TxRow /\ u.op = tx[c].op /\ u.id = tx[c].id /\ u.to = tx[c].to
        /\ u.walk = tx[c].walk /\ u.seen = tx[c].seen /\ u.checked = tx[c].checked
        /\ u.locks = rest
    BY <1>1, <2>1, <2>t DEF TxRow
  <2>3. tx' = [tx EXCEPT ![c] = u] /\ tx'[c] = u
    BY <1>1, <1>4, <2>t DEF TreeTypes
  <2>4. /\ tree' = tree /\ node' = node /\ article' = article /\ law' = law /\ filed' = filed
        /\ requests' = requests
    BY <1>4 DEF treeRows
  <2>5. /\ holder' \in [Rows -> Clients \cup {None}]
        /\ holder'[q] = c /\ \A x \in Rows : holder[x] = c => holder'[x] = c
        /\ \A x \in Rows : holder'[x] = c => x = q \/ holder[x] = c
        /\ \A d \in Clients \ {c}, x \in Rows : holder'[x] = d <=> holder[x] = d
    BY <1>1, <1>4, <2>p, TakenLock
  <2>a. Admits(c, q) /\ Elems(tx[c].locks) \subseteq {q} \cup Elems(rest)
    BY <1>2, <1>4, <2>p, <2>1
  <2>6. tx[c].op # "none" /\ ~tx[c].checked
    BY <1>1 DEF OwnState, WellFormed, LocksTaken, NoRequest
  <2>f. /\ WellFormed(tx[c]) /\ LocksTaken(c) /\ AsLocked(c) /\ Fresh(c) /\ Walked(c)
    BY <1>1 DEF OwnState
  <2> HIDE DEF r, t, rest
  <2>7. WellFormed(tx[c])'
    BY <2>f, <2>2, <2>3, <2>4, <2>6 DEF WellFormed
  <2>8. LocksTaken(c)'
    <3>1. MustLock(tx[c])' = MustLock(tx[c]) /\ MustLock(tx[c]) \subseteq Rows
      BY <1>0, <2>f, <2>2, <2>3, <2>4 DEF MustLock, WellFormed, NodeWrites, ArticleWrites,
         LawWrites
    <3>2. \A x \in MustLock(tx[c]) : holder'[x] = c \/ x \in Elems(u.locks)
      BY <2>f, <2>2, <2>5, <2>a, <3>1 DEF LocksTaken
    <3> QED BY <2>2, <2>3, <2>6, <3>1, <3>2 DEF LocksTaken
  <2>9. AsLocked(c)'
    <3>1. u.op \in NodeWrites /\ holder'[u.id] = c => Living(node[u.id].state)
      <4>1. HAVE u.op \in NodeWrites /\ holder'[u.id] = c
      <4>2. u.id \in Nodes /\ (u.id = q \/ holder[u.id] = c)
        BY <1>0, <2>2, <2>5, <2>f, <4>1 DEF WellFormed
      <4>3. CASE u.id = q
        BY <1>0, <2>2, <2>a, <4>1, <4>2, <4>3 DEF Admits, NodeAdmits, NodeWrites
      <4>4. CASE holder[u.id] = c
        BY <2>2, <2>f, <4>1, <4>4 DEF AsLocked
      <4> QED BY <4>2, <4>3, <4>4
    <3>2. u.op \in ArticleWrites /\ holder'[u.id] = c => Living(article[u.id].state)
      <4>1. HAVE u.op \in ArticleWrites /\ holder'[u.id] = c
      <4>2. u.id \in Articles /\ (u.id = q \/ holder[u.id] = c)
        BY <1>0, <2>2, <2>5, <2>f, <4>1 DEF WellFormed
      <4>3. CASE u.id = q
        BY <1>0, <2>2, <2>a, <4>1, <4>2, <4>3 DEF Admits
      <4>4. CASE holder[u.id] = c
        BY <2>2, <2>f, <4>1, <4>4 DEF AsLocked
      <4> QED BY <4>2, <4>3, <4>4
    <3>3. u.op \in {"createStructure", "createArticle", "enableLaw", "disableLaw"}
            /\ holder'["law"] = c => law.state # "deleted"
      <4>1. HAVE u.op \in {"createStructure", "createArticle", "enableLaw", "disableLaw"}
                   /\ holder'["law"] = c
      <4>2. CASE q = "law"
        <5>1. LawAdmits(tx[c])
          BY <1>0, <2>a, <4>2 DEF Admits
        <5> QED BY <2>2, <4>1, <5>1 DEF LawAdmits
      <4>3. CASE holder["law"] = c
        BY <2>2, <2>f, <4>1, <4>3 DEF AsLocked
      <4> QED BY <1>0, <2>5, <4>1, <4>2, <4>3
    <3>4. u.op \in {"assign", "file"} /\ holder'[u.to] = c => node[u.to].state = "active"
      <4>1. HAVE u.op \in {"assign", "file"} /\ holder'[u.to] = c
      <4>2. u.to \in Nodes /\ (u.to = q \/ holder[u.to] = c)
        BY <1>0, <2>2, <2>5, <2>f, <4>1 DEF WellFormed
      <4>3. CASE u.to = q
        BY <1>0, <2>2, <2>a, <4>1, <4>2, <4>3 DEF Admits, NodeAdmits
      <4>4. CASE holder[u.to] = c
        BY <2>2, <2>f, <4>1, <4>4 DEF AsLocked
      <4> QED BY <4>2, <4>3, <4>4
    <3>5. u.op = "enable" /\ holder'[u.id] = c /\ node[u.id].parent \notin {None, u.id} =>
            \/ node[u.id].parent \in Elems(u.locks)
            \/ holder'[node[u.id].parent] = c /\ node[node[u.id].parent].state = "active"
      <4>1. HAVE u.op = "enable" /\ holder'[u.id] = c /\ node[u.id].parent \notin {None, u.id}
      <4>2. PICK p \in Nodes : p = node[u.id].parent
        BY <1>1, <2>2, <2>f, <4>1 DEF WellFormed, NodeWrites, TreeTypes
      <4>3. CASE u.id = q
        BY <2>1, <2>2, <4>1, <4>3
      <4>4. CASE u.id # q
        <5>1. holder[u.id] = c
          BY <1>0, <2>2, <2>5, <2>f, <4>1, <4>4 DEF WellFormed, NodeWrites
        <5>2. p \in Elems(tx[c].locks) \/ (holder[p] = c /\ node[p].state = "active")
          BY <2>2, <2>f, <4>1, <4>2, <5>1 DEF AsLocked
        <5>3. CASE p = q
          <6>1. node[p].state = "active"
            BY <1>0, <2>2, <2>a, <4>1, <4>2, <5>3 DEF Admits, NodeAdmits
          <6> QED BY <2>5, <4>2, <5>3, <6>1
        <5>4. CASE p # q
          BY <1>0, <2>2, <2>5, <2>a, <4>2, <5>2, <5>4
        <5> QED BY <5>3, <5>4
      <4> QED BY <4>3, <4>4
    <3> QED BY <2>3, <2>4, <3>1, <3>2, <3>3, <3>4, <3>5 DEF AsLocked
  <2>10. Fresh(c)'
    <3>1. \A d \in Clients \ {c} : tx'[d] = tx[d]
      BY <1>1, <2>3 DEF TreeTypes
    <3> QED BY <2>f, <2>2, <2>3, <2>4, <3>1 DEF Fresh
  <2>11. Walked(c)'
    <3>1. Ancestors(c)' = Ancestors(c)
      BY <2>2, <2>3 DEF Ancestors
    <3> QED BY <1>0, <2>f, <2>2, <2>3, <2>4, <2>5, <3>1 DEF Walked
  <2>12. StillSo(c)'
    BY <2>2, <2>3, <2>6 DEF StillSo
  <2>13. OwnState(c)'
    BY <2>7, <2>8, <2>9, <2>10, <2>11, <2>12 DEF OwnState
  <2>14. UNCHANGED <<tree, treeRows>> /\ requests' \in 0..MaxRequests
    BY <1>1, <2>4 DEF TreeTypes, treeRows
  <2> QED BY <2>2, <2>3, <2>5, <2>13, <2>14, QuietKeeps
<1> QED BY <1>3, <1>4 DEF LockRow

LEMMA AssertParentKeeps ==
  ASSUME TreeInv, NEW c \in Clients, AssertParent(c)
  PROVE  TreeInv'
<1>0. /\ Nodes \subseteq Rows /\ Articles \subseteq Rows /\ "law" \in Rows
      /\ \A x \in Nodes : x \notin Articles /\ x # "law"
  BY RowsAssumption DEF Rows
<1>1. /\ TreeTypes /\ OwnState(c) /\ tx[c] \in TxRow /\ tx[c].locks = <<>>
      /\ tx[c].walk # None
  BY DEF TreeInv, TreeTypes, AssertParent
<1>2. PICK p \in Nodes : p = tx[c].walk
  BY <1>1 DEF TxRow
<1>3. CASE Refuse(c)
  BY <1>3, RefuseKeeps
<1>4. CASE /\ p \notin tx[c].seen /\ FreeFor(c, p) /\ node[p].state = "active"
           /\ holder' = [holder EXCEPT ![p] = c]
           /\ tx' = [tx EXCEPT ![c].walk = node[p].parent, ![c].seen = @ \cup {p}]
           /\ UNCHANGED <<tree, treeRows, requests>>
  <2>1. PICK u : u = [tx[c] EXCEPT !.walk = node[p].parent, !.seen = @ \cup {p}]
    OBVIOUS
  <2>2. /\ u \in TxRow /\ u.op = tx[c].op /\ u.id = tx[c].id /\ u.to = tx[c].to
        /\ u.walk = node[p].parent /\ u.seen = tx[c].seen \cup {p}
        /\ u.checked = tx[c].checked /\ u.locks = <<>>
    <3>1. node[p].parent \in Nodes \cup {None} /\ p \in Rows
      BY <1>0, <1>1 DEF TreeTypes
    <3> QED BY <1>1, <2>1, <3>1 DEF TxRow
  <2>3. tx' = [tx EXCEPT ![c] = u] /\ tx'[c] = u
    BY <1>1, <1>4, <2>1 DEF TreeTypes
  <2>4. /\ tree' = tree /\ node' = node /\ article' = article /\ law' = law /\ filed' = filed
        /\ requests' = requests
    BY <1>4 DEF treeRows
  <2>5. /\ holder' \in [Rows -> Clients \cup {None}]
        /\ holder'[p] = c /\ \A x \in Rows : holder[x] = c => holder'[x] = c
        /\ \A x \in Rows : holder'[x] = c => x = p \/ holder[x] = c
        /\ \A d \in Clients \ {c}, x \in Rows : holder'[x] = d <=> holder[x] = d
    BY <1>0, <1>1, <1>4, TakenLock
  <2>6. tx[c].op # "none"
    BY <1>1 DEF OwnState, WellFormed, NoRequest
  <2>f. /\ WellFormed(tx[c]) /\ LocksTaken(c) /\ AsLocked(c) /\ Fresh(c) /\ Walked(c)
        /\ StillSo(c)
    BY <1>1 DEF OwnState
  <2>7. WellFormed(tx[c])'
    BY <2>f, <2>2, <2>3, <2>4, <2>6 DEF WellFormed
  <2>h. \A x \in MustLock(tx[c]) : holder[x] = c
    BY <1>1, <2>f, ElemsOf DEF LocksTaken
  <2>8. LocksTaken(c)'
    <3>1. MustLock(tx[c])' = MustLock(tx[c]) /\ MustLock(tx[c]) \subseteq Rows
      BY <1>0, <2>f, <2>2, <2>3, <2>4 DEF MustLock, WellFormed, NodeWrites, ArticleWrites,
         LawWrites
    <3> QED BY <2>h, <2>2, <2>3, <2>5, <2>6, <3>1 DEF LocksTaken
  <2>9. AsLocked(c)'
    <3>1. u.op \in NodeWrites => holder[u.id] = c
      BY <2>h, <2>2 DEF MustLock
    <3>2. u.op \in ArticleWrites => holder[u.id] = c
      BY <2>h, <2>2 DEF MustLock
    <3>3. u.op \in {"assign", "file"} => holder[u.to] = c
      BY <2>h, <2>2 DEF MustLock
    <3>4. holder'["law"] = c => holder["law"] = c
      BY <1>0, <2>5
    <3>5. u.op = "enable" /\ holder'[u.id] = c /\ node[u.id].parent \notin {None, u.id} =>
            holder'[node[u.id].parent] = c /\ node[node[u.id].parent].state = "active"
      <4>1. HAVE u.op = "enable" /\ holder'[u.id] = c /\ node[u.id].parent \notin {None, u.id}
      <4>2. PICK x \in Nodes : x = node[u.id].parent
        BY <1>1, <2>2, <2>f, <4>1 DEF WellFormed, NodeWrites, TreeTypes
      <4>3. x \notin Elems(tx[c].locks)
        BY <1>1, ElemsOf
      <4>4. holder[x] = c /\ node[x].state = "active"
        BY <2>2, <2>f, <3>1, <4>1, <4>2, <4>3 DEF AsLocked, NodeWrites
      <4> QED BY <1>0, <2>5, <4>2, <4>4
    <3>6. /\ u.op \in NodeWrites => Living(node[u.id].state)
          /\ u.op \in ArticleWrites => Living(article[u.id].state)
          /\ u.op \in {"createStructure", "createArticle", "enableLaw", "disableLaw"}
               /\ holder["law"] = c => law.state # "deleted"
          /\ u.op \in {"assign", "file"} => node[u.to].state = "active"
      BY <2>2, <2>f, <3>1, <3>2, <3>3 DEF AsLocked
    <3> QED BY <2>3, <2>4, <3>4, <3>5, <3>6 DEF AsLocked
  <2>10. Fresh(c)'
    <3>1. \A d \in Clients \ {c} : tx'[d] = tx[d]
      BY <1>1, <2>3 DEF TreeTypes
    <3> QED BY <2>f, <2>2, <2>3, <2>4, <3>1 DEF Fresh
  <2>11. Walked(c)'
    <3>1. SUFFICES ASSUME tx[c].op \in Moves
                   PROVE  /\ u.id \in u.seen /\ u.to \in Ancestors(c)' \cup {u.walk}
                          /\ \A m \in Ancestors(c)' :
                               /\ m \in Nodes /\ holder'[m] = c /\ node[m].state = "active"
                               /\ node[m].parent \in Ancestors(c)' \cup {u.walk}
      BY <2>2, <2>3, <2>4 DEF Walked
    <3>2. Ancestors(c)' = Ancestors(c) \cup {p}
      BY <1>4, <2>2, <2>3, <2>f, <3>1 DEF Ancestors, Walked
    <3> QED BY <1>0, <1>2, <1>4, <2>2, <2>5, <2>f, <3>1, <3>2 DEF Walked
  <2>12. StillSo(c)'
    BY <2>f, <2>2, <2>3, <2>4 DEF StillSo, KnownNodes, KnownArticles
  <2>13. OwnState(c)'
    BY <2>7, <2>8, <2>9, <2>10, <2>11, <2>12 DEF OwnState
  <2>14. UNCHANGED <<tree, treeRows>> /\ requests' \in 0..MaxRequests
    BY <1>1, <2>4 DEF TreeTypes, treeRows
  <2> QED BY <2>2, <2>3, <2>5, <2>13, <2>14, QuietKeeps
<1> QED BY <1>2, <1>3, <1>4 DEF AssertParent

LEMMA CheckUnlockedKeeps ==
  ASSUME TreeInv, NEW c \in Clients, CheckUnlocked(c)
  PROVE  TreeInv'
<1>1. /\ TreeTypes /\ OwnState(c) /\ tx[c] \in TxRow /\ tx[c].locks = <<>>
      /\ tx[c].op # "none" /\ tx[c].op \in Unchecked
  BY DEF TreeInv, TreeTypes, CheckUnlocked, Locked
<1>2. CASE Refuse(c)
  BY <1>2, RefuseKeeps
<1>3. CASE /\ ~Blocked(c) /\ tx' = [tx EXCEPT ![c].checked = TRUE]
           /\ UNCHANGED <<tree, treeRows, holder, requests>>
  <2>1. PICK u : u = [tx[c] EXCEPT !.checked = TRUE]
    OBVIOUS
  <2>2. /\ u \in TxRow /\ u.op = tx[c].op /\ u.id = tx[c].id /\ u.to = tx[c].to
        /\ u.walk = tx[c].walk /\ u.seen = tx[c].seen /\ u.checked = TRUE
        /\ u.locks = tx[c].locks
    BY <1>1, <2>1 DEF TxRow
  <2>3. tx' = [tx EXCEPT ![c] = u] /\ tx'[c] = u
    BY <1>1, <1>3, <2>1 DEF TreeTypes
  <2>4. /\ tree' = tree /\ node' = node /\ article' = article /\ law' = law /\ filed' = filed
        /\ requests' = requests /\ holder' = holder
    BY <1>3 DEF treeRows
  <2>f. /\ WellFormed(tx[c]) /\ LocksTaken(c) /\ AsLocked(c) /\ Fresh(c) /\ Walked(c)
    BY <1>1 DEF OwnState
  <2>5. WellFormed(tx[c])'
    BY <1>1, <2>f, <2>2, <2>3, <2>4 DEF WellFormed
  <2>6. LocksTaken(c)'
    <3>1. MustLock(tx[c])' = MustLock(tx[c])
      BY <2>2, <2>3, <2>4 DEF MustLock
    <3> QED BY <1>1, <2>f, <2>2, <2>3, <2>4, <3>1 DEF LocksTaken
  <2>7. AsLocked(c)'
    BY <2>f, <2>2, <2>3, <2>4 DEF AsLocked
  <2>8. Fresh(c)'
    <3>1. \A d \in Clients \ {c} : tx'[d] = tx[d]
      BY <1>1, <2>3 DEF TreeTypes
    <3> QED BY <2>f, <2>2, <2>3, <2>4, <3>1 DEF Fresh
  <2>9. Walked(c)'
    <3>1. Ancestors(c)' = Ancestors(c)
      BY <2>2, <2>3 DEF Ancestors
    <3> QED BY <2>f, <2>2, <2>3, <2>4, <3>1 DEF Walked
  <2>10. StillSo(c)'
    <3>1. u.op = "disable" => \A m \in Nodes : node[m].parent = u.id => node[m].state # "active"
      BY <1>3, <2>2 DEF Blocked, DisableIsBlocked, Children
    <3>2. u.op = "delete" =>
            /\ \A m \in Nodes : node[m].parent = u.id => ~Living(node[m].state)
            /\ tree = "structure" =>
                 \A a \in Articles : article[a].node = u.id => ~Living(article[a].state)
            /\ tree = "subjects" => u.id \notin filed
      <4>1. HAVE u.op = "delete"
      <4>2. ~DeleteIsBlocked(u.id)
        BY <1>3, <2>2, <4>1 DEF Blocked
      <4>3. CASE tree = "structure"
        BY <4>2, <4>3 DEF DeleteIsBlocked, Children, Held, Living
      <4>4. CASE tree = "subjects"
        BY <4>2, <4>4 DEF DeleteIsBlocked, Children, Living
      <4> QED BY <1>1, <4>3, <4>4 DEF TreeTypes
    <3>3. u.op \in {"createArticle", "editArticle"} => u.to = None \/ Living(node[u.to].state)
      BY <1>3, <2>2 DEF Blocked, Living
    <3>4. u.op = "deleteLaw" => KnownNodes = {} /\ KnownArticles = {}
      BY <1>3, <2>2 DEF Blocked, KnownNodes, KnownArticles
    <3>5. KnownNodes' = KnownNodes /\ KnownArticles' = KnownArticles
      BY <2>4 DEF KnownNodes, KnownArticles
    <3> QED BY <2>2, <2>3, <2>4, <3>1, <3>2, <3>3, <3>4, <3>5 DEF StillSo
  <2>11. OwnState(c)'
    BY <2>5, <2>6, <2>7, <2>8, <2>9, <2>10 DEF OwnState
  <2> QED BY <1>1, <1>3, <2>2, <2>3, <2>4, <2>11, QuietKeeps DEF TreeTypes
<1> QED BY <1>2, <1>3 DEF CheckUnlocked

LEMMA LawStatusKeeps ==
  ASSUME TreeInv, ChangeLawStatus
  PROVE  TreeInv'
<1>1. /\ tree' = tree /\ node' = node /\ article' = article /\ filed' = filed /\ tx' = tx
      /\ holder' = holder /\ requests' = requests
  BY DEF ChangeLawStatus
<1>2. law' \in [state : States, status : Statuses] /\ law'.state = law.state
  BY DEF ChangeLawStatus, TreeInv, TreeTypes, Statuses
<1>3. TreeTypes'
  BY <1>1, <1>2 DEF TreeInv, TreeTypes
<1>4. KnownNodes' = KnownNodes /\ KnownArticles' = KnownArticles
  BY <1>1 DEF KnownNodes, KnownArticles
<1>5. ASSUME NEW d \in Clients PROVE OwnState(d)'
  <2>1. OwnState(d) /\ Fresh(d)' /\ StillSo(d)'
    BY <1>1, <1>4 DEF TreeInv, OwnState, Fresh, StillSo
  <2> QED BY <1>1, <1>2, <1>3, <2>1, OthersStand DEF TreeInv
<1>6. OtherTree' /\ NoCycle' /\ NothingHangsFromTheGone'
  BY <1>1, <1>2, <1>4 DEF TreeInv, OtherTree, NoCycle, NothingHangsFromTheGone
<1> QED BY <1>3, <1>5, <1>6 DEF TreeInv

-----------------------------------------------------------------------------
(***************************************************************************)
(* Steps that write                                                        *)
(***************************************************************************)
\* What a request holds, and knows of it, when it writes.
Ready(c) ==
  LET t == tx[c]
  IN /\ \A r \in MustLock(t) : holder[r] = c
     /\ t.op \in NodeWrites =>
          t.id \in Nodes /\ holder[t.id] = c /\ Living(node[t.id].state)
     /\ t.op \in ArticleWrites =>
          t.id \in Articles /\ holder[t.id] = c /\ Living(article[t.id].state)
     /\ t.op \in LawWrites => holder["law"] = c
     /\ t.op \in {"enableLaw", "disableLaw"} => law.state # "deleted"
     /\ t.op \in {"createStructure", "createArticle"} =>
          holder["law"] = c /\ law.state # "deleted"
     /\ t.op = "delete" /\ tree = "structure" => holder["law"] = c
     /\ t.op \in {"assign", "file"} =>
          t.to \in Nodes /\ holder[t.to] = c /\ node[t.to].state = "active"
     /\ t.op = "enable" /\ node[t.id].parent \notin {None, t.id} =>
          holder[node[t.id].parent] = c /\ node[node[t.id].parent].state = "active"
     /\ t.op \in Moves =>
          /\ t.to \in Ancestors(c) \cup {None}
          /\ \A m \in Ancestors(c) :
               /\ m \in Nodes /\ holder[m] = c /\ node[m].state = "active"
               /\ node[m].parent \in Ancestors(c) \cup {None}
     /\ t.op \in Unchecked => t.checked

LEMMA CommitsReady ==
  ASSUME TreeInv, NEW c \in Clients, NEW op, CommitsRequest(c, op)
  PROVE  Ready(c) /\ tx[c].op = op /\ WellFormed(tx[c]) /\ Fresh(c) /\ StillSo(c)
<1>1. /\ tx[c].op = op /\ tx[c].locks = <<>> /\ tx[c].walk = None
      /\ op \in Unchecked => tx[c].checked
  BY DEF CommitsRequest, Locked
<1>2. /\ WellFormed(tx[c]) /\ LocksTaken(c) /\ AsLocked(c) /\ Fresh(c) /\ Walked(c)
      /\ StillSo(c) /\ TreeTypes
  BY DEF TreeInv, OwnState
<1>3. \A r : r \notin Elems(tx[c].locks)
  BY <1>1, ElemsOf
<1>4. \A r \in MustLock(tx[c]) : holder[r] = c
  BY <1>2, <1>3 DEF LocksTaken
<1>5. tx[c].op \in NodeWrites =>
        tx[c].id \in Nodes /\ holder[tx[c].id] = c /\ Living(node[tx[c].id].state)
  BY <1>2, <1>4 DEF MustLock, AsLocked, WellFormed
<1>6. tx[c].op \in ArticleWrites =>
        tx[c].id \in Articles /\ holder[tx[c].id] = c /\ Living(article[tx[c].id].state)
  BY <1>2, <1>4 DEF MustLock, AsLocked, WellFormed
<1>7. /\ tx[c].op \in LawWrites => holder["law"] = c
      /\ tx[c].op \in {"enableLaw", "disableLaw"} => law.state # "deleted"
  BY <1>2, <1>4 DEF MustLock, AsLocked, WellFormed, LawWrites
<1>8. /\ tx[c].op \in {"createStructure", "createArticle"} =>
           holder["law"] = c /\ law.state # "deleted"
      /\ tx[c].op = "delete" /\ tree = "structure" => holder["law"] = c
  BY <1>2, <1>4 DEF MustLock, AsLocked
<1>9. tx[c].op \in {"assign", "file"} =>
        tx[c].to \in Nodes /\ holder[tx[c].to] = c /\ node[tx[c].to].state = "active"
  BY <1>2, <1>4 DEF MustLock, AsLocked, WellFormed
<1>10. tx[c].op = "enable" /\ node[tx[c].id].parent \notin {None, tx[c].id} =>
         /\ holder[node[tx[c].id].parent] = c
         /\ node[node[tx[c].id].parent].state = "active"
  BY <1>2, <1>3, <1>5 DEF AsLocked, NodeWrites
<1>11. tx[c].op \in Moves =>
         /\ tx[c].to \in Ancestors(c) \cup {None}
         /\ \A m \in Ancestors(c) :
              /\ m \in Nodes /\ holder[m] = c /\ node[m].state = "active"
              /\ node[m].parent \in Ancestors(c) \cup {None}
  BY <1>1, <1>2 DEF Walked
<1>12. Ready(c)
  BY <1>1, <1>4, <1>5, <1>6, <1>7, <1>8, <1>9, <1>10, <1>11 DEF Ready
<1> QED BY <1>1, <1>2, <1>12

\* What a write may do to rows that others rely on without having locked them.
Courteous(c) ==
  /\ \A m \in Nodes : node'[m] # node[m] /\ Living(node'[m].state) =>
       \/ node'[m].parent = None
       \/ holder[node'[m].parent] = c
       \/ /\ node'[m].parent = node[m].parent /\ Living(node[m].state)
          /\ node'[m].state = "active" => node[m].state = "active"
  /\ \A a \in Articles : article'[a] # article[a] /\ Living(article'[a].state) =>
       \/ article'[a].node = None
       \/ holder[article'[a].node] \in {None, c}
       \/ article'[a].node = article[a].node /\ Living(article[a].state)
  /\ \A n \in filed' : n \in filed \/ holder[n] = c
  /\ tree = "structure" =>
       /\ \A n \in Nodes :
            ~(Living(node[n].state) <=> Living(node'[n].state)) => holder["law"] = c
       /\ \A a \in Articles :
            Living(article'[a].state) /\ ~Living(article[a].state) => holder["law"] = c

LEMMA StillSoForOthers ==
  ASSUME TreeTypes, NEW c \in Clients, NEW d \in Clients \ {c}, OwnState(d),
         tx'[d] = tx[d], tree' = tree, Courteous(c)
  PROVE  StillSo(d)'
<1> DEFINE t == tx[d]
<1>1. SUFFICES ASSUME t.checked
               PROVE  StillSo(d)'
  BY DEF StillSo
<1>2. StillSo(d) /\ WellFormed(t) /\ \A r \in MustLock(t) : holder[r] = d
  BY <1>1, ElemsOf DEF OwnState, LocksTaken
<1>3. t.op \in {"disable", "delete"} => t.id \in Nodes /\ holder[t.id] = d
  BY <1>2 DEF WellFormed, MustLock, NodeWrites
<1>4. d \notin {None, c}
  BY NoneAssumption
<1>5. t.op = "disable" =>
        \A m \in Nodes : node'[m].parent = t.id => node'[m].state # "active"
  <2>1. SUFFICES ASSUME t.op = "disable", NEW m \in Nodes, node'[m].parent = t.id,
                        node'[m].state = "active"
                 PROVE  FALSE
    OBVIOUS
  <2>2. t.id # None /\ holder[t.id] # c
    BY <1>3, <1>4, <2>1, NoneAssumption
  <2>3. \A n \in Nodes : node[n].parent = t.id => node[n].state # "active"
    BY <1>1, <1>2, <2>1 DEF StillSo
  <2>4. Living(node'[m].state)
    BY <2>1 DEF Living
  <2> QED BY <2>1, <2>2, <2>3, <2>4 DEF Courteous
<1>6. t.op = "delete" =>
        /\ \A m \in Nodes : node'[m].parent = t.id => ~Living(node'[m].state)
        /\ tree = "structure" =>
             \A a \in Articles : article'[a].node = t.id => ~Living(article'[a].state)
        /\ tree = "subjects" => t.id \notin filed'
  <2>1. HAVE t.op = "delete"
  <2>2. t.id # None /\ holder[t.id] \notin {None, c}
    BY <1>3, <1>4, <2>1, NoneAssumption
  <2>3. /\ \A n \in Nodes : node[n].parent = t.id => ~Living(node[n].state)
        /\ tree = "structure" =>
             \A a \in Articles : article[a].node = t.id => ~Living(article[a].state)
        /\ tree = "subjects" => t.id \notin filed
    BY <1>1, <1>2, <2>1 DEF StillSo
  <2>4. \A m \in Nodes : node'[m].parent = t.id => ~Living(node'[m].state)
    BY <2>2, <2>3 DEF Courteous
  <2>5. tree = "structure" =>
          \A a \in Articles : article'[a].node = t.id => ~Living(article'[a].state)
    BY <2>2, <2>3 DEF Courteous
  <2>6. tree = "subjects" => t.id \notin filed'
    BY <2>2, <2>3 DEF Courteous
  <2> QED BY <2>4, <2>5, <2>6
<1>7. t.op \in {"createArticle", "editArticle"} => t.to = None \/ Living(node'[t.to].state)
  <2>1. HAVE t.op \in {"createArticle", "editArticle"}
  <2>2. holder["law"] = d /\ tree = "structure"
    BY <1>2, <2>1 DEF WellFormed, MustLock, StructureOnly, ArticleWrites
  <2>3. t.to = None \/ (t.to \in Nodes /\ Living(node[t.to].state))
    BY <1>1, <1>2, <2>1 DEF StillSo, TreeTypes, TxRow
  <2> QED BY <1>4, <2>2, <2>3 DEF Courteous
<1>8. t.op = "deleteLaw" => KnownNodes' = {} /\ KnownArticles' = {}
  <2>1. HAVE t.op = "deleteLaw"
  <2>2. holder["law"] = d /\ tree = "structure"
    BY <1>2, <2>1 DEF WellFormed, MustLock, StructureOnly, LawWrites
  <2>3. KnownNodes = {} /\ KnownArticles = {}
    BY <1>1, <1>2, <2>1 DEF StillSo
  <2> QED BY <1>4, <2>2, <2>3 DEF Courteous, KnownNodes, KnownArticles
<1> QED BY <1>5, <1>6, <1>7, <1>8 DEF StillSo

\* What is shown of every write: the rows it may touch, and what holds after it.
LEMMA CommitKeeps ==
  ASSUME TreeInv, NEW c \in Clients, NEW op, CommitsRequest(c, op),
         node' \in [Nodes -> [state : States, parent : Nodes \cup {None}]],
         article' \in [Articles -> [state : States, node : Nodes \cup {None}]],
         law' \in [state : States, status : Statuses], filed' \subseteq Nodes,
         \A n \in Nodes :
           node'[n] # node[n] => n = tx[c].id /\ op \in NodeWrites \cup NodeMakes,
         \A a \in Articles :
           article'[a] # article[a] => a = tx[c].id /\ op \in ArticleWrites \cup {"createArticle"},
         law' # law => op \in LawWrites,
         Courteous(c), OtherTree', NoCycle', NothingHangsFromTheGone'
  PROVE  TreeInv'
<1>1. /\ tx' = [tx EXCEPT ![c] = NoRequest] /\ holder' = Released(c)
      /\ tree' = tree /\ requests' = requests
  BY DEF CommitsRequest
<1>2. /\ Ready(c) /\ tx[c].op = op /\ WellFormed(tx[c]) /\ Fresh(c) /\ TreeTypes
  BY CommitsReady DEF TreeInv
<1>3. NoRequest \in TxRow /\ NoRequest.op = "none"
  BY DEF NoRequest, TxRow
<1>4. /\ holder' \in [Rows -> Clients \cup {None}]
      /\ \A r \in Rows : holder'[r] # c
      /\ \A d \in Clients \ {c}, r \in Rows : holder'[r] = d <=> holder[r] = d
  BY <1>1, <1>2, ReleasedLocks
<1>5. TreeTypes'
  BY <1>1, <1>2, <1>3, <1>4 DEF TreeTypes
<1>6. OwnState(c)'
  <2>1. tx'[c] = NoRequest
    BY <1>1, <1>2 DEF TreeTypes
  <2> QED BY <1>4, <2>1, IdleStands
<1>7. ASSUME NEW d \in Clients \ {c} PROVE OwnState(d)'
  <2>1. OwnState(d) /\ tx'[d] = tx[d]
    BY <1>1, <1>2 DEF TreeInv, TreeTypes
  <2>2. StillSo(d)'
    BY <1>1, <1>2, <2>1, StillSoForOthers
  <2>3. ASSUME NEW n \in Nodes, node'[n] # node[n]
        PROVE  n = tx[c].id /\ (holder[n] = c \/ node[n].state = "absent")
    BY <1>2, <2>3 DEF Ready, Fresh
  <2>4. ASSUME NEW a \in Articles, article'[a] # article[a]
        PROVE  a = tx[c].id /\ (holder[a] = c \/ article[a].state = "absent")
    BY <1>2, <2>4 DEF Ready, Fresh
  <2>5. holder["law"] = d => law' = law
    BY <1>2 DEF Ready
  <2>6. Fresh(d)'
    <3>1. Fresh(d)
      BY <2>1 DEF OwnState
    <3>2. \A e \in Clients : tx'[e] = NoRequest \/ tx'[e] = tx[e]
      BY <1>1, <1>2 DEF TreeTypes
    <3>3. tx[d].op \in NodeMakes => tx[d].id \in Nodes /\ node'[tx[d].id] = node[tx[d].id]
      <4>1. HAVE tx[d].op \in NodeMakes
      <4>2. tx[d].id \in Nodes /\ node[tx[d].id].state = "absent"
        BY <2>1, <3>1, <4>1 DEF OwnState, WellFormed, Fresh
      <4>3. CASE op \in NodeWrites
        BY <1>2, <4>2, <4>3 DEF Ready, Living
      <4>4. CASE op \in NodeMakes
        BY <1>2, <3>1, <4>1, <4>2, <4>4 DEF Fresh
      <4> QED BY <4>2, <4>3, <4>4
    <3>4. tx[d].op = "createArticle" =>
            tx[d].id \in Articles /\ article'[tx[d].id] = article[tx[d].id]
      <4>1. HAVE tx[d].op = "createArticle"
      <4>2. tx[d].id \in Articles /\ article[tx[d].id].state = "absent"
        BY <2>1, <3>1, <4>1 DEF OwnState, WellFormed, Fresh
      <4>3. CASE op \in ArticleWrites
        BY <1>2, <4>2, <4>3 DEF Ready, Living
      <4>4. CASE op = "createArticle"
        BY <1>2, <3>1, <4>1, <4>2, <4>4 DEF Fresh
      <4> QED BY <4>2, <4>3, <4>4
    <3> QED BY <1>3, <2>1, <3>1, <3>2, <3>3, <3>4 DEF Fresh, NodeMakes
  <2>7. \A n \in Nodes : holder[n] = d /\ node[n].state # "absent" => node'[n] = node[n]
    BY <2>3
  <2>8. \A a \in Articles :
          holder[a] = d /\ article[a].state # "absent" => article'[a] = article[a]
    BY <2>4
  <2> QED BY <1>1, <1>2, <1>4, <1>5, <2>1, <2>2, <2>5, <2>6, <2>7, <2>8, OthersStand
<1> QED BY <1>5, <1>6, <1>7 DEF TreeInv

\* A row that is hung from another: neither its new ancestors nor it change in between.
LEMMA MovesKeep ==
  ASSUME TreeInv, NEW c \in Clients, NEW op \in Moves, CommitsRequest(c, op),
         NEW s \in {"active", "disabled"},
         op = "updateStructure" => s = node[tx[c].id].state,
         node' = [node EXCEPT ![tx[c].id] = [state |-> s, parent |-> tx[c].to]],
         UNCHANGED <<article, law, filed>>
  PROVE  TreeInv'
<1>1. PICK id \in Nodes, to \in Nodes \cup {None} : id = tx[c].id /\ to = tx[c].to
  BY CommitsReady DEF TreeInv, TreeTypes, TxRow, WellFormed, Moves, NodeWrites
<1>2. /\ Ready(c) /\ tx[c].op = op /\ WellFormed(tx[c]) /\ Fresh(c) /\ TreeTypes
      /\ OtherTree /\ NoCycle /\ NothingHangsFromTheGone
  BY CommitsReady DEF TreeInv
<1>3. /\ node' \in [Nodes -> [state : States, parent : Nodes \cup {None}]]
      /\ node'[id].state = s /\ node'[id].parent = to
      /\ \A n \in Nodes \ {id} : node'[n] = node[n]
  BY <1>1, <1>2 DEF TreeTypes, States
<1>4. article' = article /\ law' = law /\ filed' = filed /\ tree' = tree
  BY DEF CommitsRequest
<1>5. PICK U \in SUBSET Nodes :
        /\ to \in U \cup {None} /\ id \notin U
        /\ \A m \in U : /\ holder[m] = c /\ node[m].state = "active"
                        /\ node[m].parent \in U \cup {None}
  <2>1. /\ tx[c].to \in Ancestors(c) \cup {None}
        /\ \A m \in Ancestors(c) :
             /\ m \in Nodes /\ holder[m] = c /\ node[m].state = "active"
             /\ node[m].parent \in Ancestors(c) \cup {None}
    BY <1>2 DEF Ready
  <2>2. id \notin Ancestors(c) /\ Ancestors(c) \in SUBSET Nodes
    BY <1>1, <2>1 DEF Ancestors
  <2> QED BY <1>1, <2>1, <2>2
<1>6. None \notin Nodes
  BY NoneAssumption
<1>7. Living(s)
  BY DEF Living
<1>8. NoCycle'
  <2>1. SUFFICES ASSUME NEW S \in SUBSET Nodes, \A n \in S : node'[n].state # "absent", S # {}
                 PROVE  \E n \in S : node'[n].parent \notin S
    BY DEF NoCycle
  <2>2. \A T \in SUBSET Nodes :
          (\A n \in T : node[n].state # "absent") /\ T # {} => \E n \in T : node[n].parent \notin T
    BY <1>2 DEF NoCycle
  <2>3. CASE id \notin S
    <3>1. \A n \in S : node'[n] = node[n]
      BY <1>3, <2>1, <2>3
    <3> QED BY <2>1, <2>2, <3>1
  <2>4. CASE id \in S /\ to \notin S
    BY <1>3, <2>4
  <2>5. CASE id \in S /\ to \in S
    <3>1. to \in U \cap S
      BY <1>5, <1>6, <2>1, <2>5
    <3>2. \A n \in U \cap S : node[n].state # "absent"
      BY <1>5
    <3>3. PICK n \in U \cap S : node[n].parent \notin U \cap S
      BY <2>1, <2>2, <3>1, <3>2
    <3>4. node'[n] = node[n] /\ node[n].parent \in U \cup {None}
      BY <1>3, <1>5, <3>3
    <3>5. node[n].parent \notin S
      BY <1>6, <2>1, <3>3, <3>4
    <3> QED BY <3>3, <3>4, <3>5
  <2> QED BY <2>3, <2>4, <2>5
<1>9. to # None => to # id /\ node'[to].state = "active" /\ holder[to] = c
  BY <1>3, <1>5
<1>10. \A n \in Nodes : Living(node[n].state) => Living(node'[n].state)
  BY <1>3, <1>7
<1>11. /\ op = "updateStructure" => Living(node[id].state) /\ s = node[id].state
       /\ op = "updateReference" => Living(node[id].state)
       /\ op \in NodeMakes => node[id].state = "absent"
  BY <1>1, <1>2 DEF Ready, NodeWrites, Fresh
<1>12. /\ op \in {"updateStructure", "createStructure"} => tree = "structure"
       /\ op \in {"updateReference", "createReference"} => tree = "subjects"
  BY <1>2 DEF WellFormed, StructureOnly, SubjectsOnly
<1>13. OtherTree'
  BY <1>2, <1>4 DEF OtherTree
<1>14. NothingHangsFromTheGone'
  <2>1. ASSUME NEW n \in Nodes, Living(node'[n].state), node'[n].parent # None
        PROVE  Living(node'[node'[n].parent].state)
    <3>1. CASE n = id
      BY <1>3, <1>9, <2>1, <3>1 DEF Living
    <3>2. CASE n # id
      <4>1. node'[n] = node[n] /\ node[n].parent \in Nodes
        BY <1>2, <1>3, <2>1, <3>2 DEF TreeTypes
      <4>2. Living(node[node[n].parent].state)
        BY <1>2, <2>1, <4>1 DEF NothingHangsFromTheGone
      <4> QED BY <1>10, <4>1, <4>2
    <3> QED BY <3>1, <3>2
  <2>2. ASSUME NEW a \in Articles, Living(article'[a].state), article'[a].node # None
        PROVE  Living(node'[article'[a].node].state)
    <3>1. article[a].node \in Nodes
      BY <1>2, <1>4, <2>2 DEF TreeTypes
    <3> QED BY <1>2, <1>4, <1>10, <2>2, <3>1 DEF NothingHangsFromTheGone
  <2>3. \A n \in filed' : Living(node'[n].state)
    BY <1>2, <1>4, <1>10 DEF NothingHangsFromTheGone, TreeTypes
  <2>4. law'.state = "deleted" => KnownNodes' = {} /\ KnownArticles' = {}
    <3>1. SUFFICES ASSUME law.state = "deleted" PROVE FALSE
      BY <1>4
    <3>2. \A n \in Nodes : ~Living(node[n].state)
      BY <1>2, <3>1 DEF NothingHangsFromTheGone, KnownNodes
    <3>3. op = "createStructure"
      BY <1>2, <1>11, <1>12, <3>1, <3>2 DEF Moves, NodeMakes, OtherTree
    <3> QED BY <1>2, <3>1, <3>3 DEF Ready
  <2>5. ASSUME tree = "structure", NEW n \in Nodes, node'[n].state = "active",
               node'[n].parent # None
        PROVE  node'[node'[n].parent].state = "active"
    <3>1. CASE n = id
      BY <1>3, <1>9, <2>5, <3>1
    <3>2. CASE n # id
      <4>1. node'[n] = node[n] /\ node[n].parent \in Nodes
        BY <1>2, <1>3, <2>5, <3>2 DEF TreeTypes
      <4>2. node[node[n].parent].state = "active"
        BY <1>2, <2>5, <4>1 DEF NothingHangsFromTheGone
      <4>3. node[id].state = "active" => s = "active"
        BY <1>11, <1>12, <2>5 DEF Moves, NodeMakes
      <4> QED BY <1>3, <4>1, <4>2, <4>3
    <3> QED BY <3>1, <3>2
  <2> QED BY <1>4, <2>1, <2>2, <2>3, <2>4, <2>5 DEF NothingHangsFromTheGone
<1>15. Courteous(c)
  <2>1. \A m \in Nodes : node'[m] # node[m] /\ Living(node'[m].state) =>
          node'[m].parent = None \/ holder[node'[m].parent] = c
    BY <1>3, <1>9
  <2>2. tree = "structure" =>
          \A n \in Nodes : ~(Living(node[n].state) <=> Living(node'[n].state)) => holder["law"] = c
    <3>1. SUFFICES ASSUME tree = "structure", NEW n \in Nodes,
                          ~(Living(node[n].state) <=> Living(node'[n].state))
                   PROVE  holder["law"] = c
      OBVIOUS
    <3>2. n = id /\ ~Living(node[id].state)
      BY <1>3, <1>7, <3>1
    <3>3. op = "createStructure"
      BY <1>11, <1>12, <3>1, <3>2 DEF Moves, NodeMakes
    <3> QED BY <1>2, <3>3 DEF Ready
  <2> QED BY <1>4, <2>1, <2>2 DEF Courteous
<1>16. \A n \in Nodes : node'[n] # node[n] => n = tx[c].id /\ op \in NodeWrites \cup NodeMakes
  BY <1>1, <1>3 DEF Moves, NodeWrites
<1> QED BY <1>2, <1>3, <1>4, <1>8, <1>13, <1>14, <1>15, <1>16, CommitKeeps DEF TreeTypes

LEMMA NodeMovesKeep ==
  ASSUME TreeInv, NEW c \in Clients,
         \/ UpdateStructure(c) \/ CreateStructure(c) \/ UpdateReference(c) \/ CreateReference(c)
  PROVE  TreeInv'
<1>1. CASE UpdateStructure(c)
  <2>1. CommitsRequest(c, "updateStructure") /\ UNCHANGED <<article, law, filed>>
    BY <1>1 DEF UpdateStructure
  <2>2. /\ tx[c].id \in Nodes /\ node[tx[c].id].state \in {"active", "disabled"}
        /\ node \in [Nodes -> [state : States, parent : Nodes \cup {None}]]
    BY <2>1, CommitsReady DEF Ready, NodeWrites, Living, TreeInv, TreeTypes
  <2>3. node' = [node EXCEPT ![tx[c].id] = [state |-> node[tx[c].id].state, parent |-> tx[c].to]]
    <3>1. node' = [node EXCEPT ![tx[c].id].parent = tx[c].to]
      BY <1>1 DEF UpdateStructure
    <3>2. \A r \in [state : States, parent : Nodes \cup {None}], p \in Nodes \cup {None} :
            [r EXCEPT !.parent = p] = [state |-> r.state, parent |-> p]
      OBVIOUS
    <3>3. node[tx[c].id] \in [state : States, parent : Nodes \cup {None}]
      BY <2>2
    <3>4. [node[tx[c].id] EXCEPT !.parent = tx[c].to]
            = [state |-> node[tx[c].id].state, parent |-> tx[c].to]
      BY <3>2, <3>3
    <3> QED BY <3>1, <3>4, Zenon
  <2>4. PICK op \in Moves, s \in {"active", "disabled"} :
          op = "updateStructure" /\ s = node[tx[c].id].state
    BY <2>2 DEF Moves
  <2> QED BY <2>1, <2>3, <2>4, MovesKeep
<1>2. CASE CreateStructure(c)
  <2>1. PICK op \in Moves, s \in {"active", "disabled"} : op = "createStructure" /\ s = "active"
    BY DEF Moves, NodeMakes
  <2>2. /\ CommitsRequest(c, op) /\ UNCHANGED <<article, law, filed>>
        /\ node' = [node EXCEPT ![tx[c].id] = [state |-> s, parent |-> tx[c].to]]
    BY <1>2, <2>1 DEF CreateStructure
  <2> QED BY <2>1, <2>2, MovesKeep
<1>3. CASE UpdateReference(c)
  <2>1. PICK op \in Moves, s \in {"active", "disabled"} :
          op = "updateReference" /\ s = IF tx[c].active THEN "active" ELSE "disabled"
    BY DEF Moves
  <2>2. /\ CommitsRequest(c, op) /\ UNCHANGED <<article, law, filed>>
        /\ node' = [node EXCEPT ![tx[c].id] = [state |-> s, parent |-> tx[c].to]]
    BY <1>3, <2>1 DEF UpdateReference
  <2> QED BY <2>1, <2>2, MovesKeep
<1>4. CASE CreateReference(c)
  <2>1. PICK op \in Moves, s \in {"active", "disabled"} :
          op = "createReference" /\ s = IF tx[c].active THEN "active" ELSE "disabled"
    BY DEF Moves, NodeMakes
  <2>2. /\ CommitsRequest(c, op) /\ UNCHANGED <<article, law, filed>>
        /\ node' = [node EXCEPT ![tx[c].id] = [state |-> s, parent |-> tx[c].to]]
    BY <1>4, <2>1 DEF CreateReference
  <2> QED BY <2>1, <2>2, MovesKeep
<1> QED BY <1>1, <1>2, <1>3, <1>4

LEMMA ChangeNodeKeeps ==
  ASSUME TreeInv, NEW c \in Clients, ChangeNode(c)
  PROVE  TreeInv'
<1>1. PICK op \in {"enable", "disable", "delete"} :
        /\ CommitsRequest(c, op) /\ node' = [node EXCEPT ![tx[c].id].state = StateAfter(op)]
        /\ UNCHANGED <<article, law, filed>>
  BY DEF ChangeNode
<1>2. /\ Ready(c) /\ tx[c].op = op /\ WellFormed(tx[c]) /\ TreeTypes /\ StillSo(c)
      /\ OtherTree /\ NoCycle /\ NothingHangsFromTheGone
  BY <1>1, CommitsReady DEF TreeInv
<1>3. PICK id \in Nodes : id = tx[c].id /\ holder[id] = c /\ Living(node[id].state)
  BY <1>1, <1>2 DEF Ready, NodeWrites
<1>4. PICK s \in {"active", "disabled", "deleted"} :
        /\ s = StateAfter(op)
        /\ op = "enable" => s = "active"
        /\ op = "disable" => s = "disabled"
        /\ op = "delete" => s = "deleted"
  BY <1>1 DEF StateAfter
<1>5. /\ node' \in [Nodes -> [state : States, parent : Nodes \cup {None}]]
      /\ node'[id].state = s
      /\ \A n \in Nodes : node'[n].parent = node[n].parent
      /\ \A n \in Nodes \ {id} : node'[n] = node[n]
  BY <1>1, <1>2, <1>3, <1>4 DEF TreeTypes, States
<1>6. article' = article /\ law' = law /\ filed' = filed /\ tree' = tree
  BY <1>1 DEF CommitsRequest
<1>7. /\ op \in {"enable", "disable"} => Living(s)
      /\ ~Living("deleted") /\ \A n \in Nodes : Living(node'[n].state) => Living(node[n].state)
  BY <1>3, <1>4, <1>5 DEF Living
<1>8. tx[c].op \in {"disable", "delete"} => tx[c].checked
  BY <1>2 DEF Ready, Unchecked
<1>9. op = "disable" => \A m \in Nodes : node[m].parent = id => node[m].state # "active"
  BY <1>2, <1>3, <1>8 DEF StillSo
<1>10. op = "delete" =>
         /\ \A m \in Nodes : node[m].parent = id => ~Living(node[m].state)
         /\ tree = "structure" =>
              \A a \in Articles : article[a].node = id => ~Living(article[a].state)
         /\ tree = "subjects" => id \notin filed
  BY <1>2, <1>3, <1>8 DEF StillSo
<1>11. \A n \in Nodes : Living(node[n].state) /\ ~Living(node'[n].state) => n = id /\ op = "delete"
  BY <1>4, <1>5, <1>7
<1>12. NoCycle'
  <2>1. \A n \in Nodes : node'[n].state # "absent" => node[n].state # "absent"
    BY <1>3, <1>5 DEF Living
  <2> QED BY <1>2, <1>5, <2>1 DEF NoCycle
<1>13. OtherTree'
  BY <1>2, <1>6 DEF OtherTree
<1>14. NothingHangsFromTheGone'
  <2>1. ASSUME NEW n \in Nodes, Living(node'[n].state), node'[n].parent # None
        PROVE  Living(node'[node'[n].parent].state)
    <3>1. Living(node[n].state) /\ node'[n].parent = node[n].parent /\ node[n].parent \in Nodes
      BY <1>2, <1>5, <1>7, <2>1 DEF TreeTypes
    <3>2. Living(node[node[n].parent].state)
      BY <1>2, <2>1, <3>1 DEF NothingHangsFromTheGone
    <3>3. node[n].parent = id => op # "delete"
      BY <1>10, <3>1
    <3> QED BY <1>11, <3>1, <3>2, <3>3
  <2>2. ASSUME NEW a \in Articles, Living(article'[a].state), article'[a].node # None
        PROVE  Living(node'[article'[a].node].state)
    <3>1. article[a].node \in Nodes /\ Living(article[a].state)
      BY <1>2, <1>6, <2>2 DEF TreeTypes
    <3>2. Living(node[article[a].node].state)
      BY <1>2, <1>6, <2>2, <3>1 DEF NothingHangsFromTheGone
    <3>3. tree = "structure"
      BY <1>2, <3>1 DEF OtherTree, Living, TreeTypes
    <3>4. article[a].node = id => op # "delete"
      BY <1>10, <3>1, <3>3
    <3> QED BY <1>6, <1>11, <3>1, <3>2, <3>4
  <2>3. ASSUME NEW n \in filed' PROVE Living(node'[n].state)
    <3>1. n \in filed /\ n \in Nodes /\ Living(node[n].state) /\ tree = "subjects"
      BY <1>2, <1>6, <2>3 DEF NothingHangsFromTheGone, TreeTypes, OtherTree
    <3> QED BY <1>10, <1>11, <3>1
  <2>4. law'.state = "deleted" => KnownNodes' = {} /\ KnownArticles' = {}
    BY <1>2, <1>6, <1>7 DEF NothingHangsFromTheGone, KnownNodes, KnownArticles
  <2>5. ASSUME tree = "structure", NEW n \in Nodes, node'[n].state = "active",
               node'[n].parent # None
        PROVE  node'[node'[n].parent].state = "active"
    <3>0. node'[n].parent = node[n].parent /\ node[n].parent \in Nodes
      BY <1>2, <1>5, <2>5 DEF TreeTypes
    <3>1. CASE n = id
      <4>1. s = "active" /\ op = "enable"
        BY <1>4, <1>5, <2>5, <3>1
      <4>2. CASE node[id].parent = id
        BY <1>5, <3>0, <3>1, <4>1, <4>2
      <4>3. CASE node[id].parent # id
        <5>1. node[node[id].parent].state = "active"
          BY <1>2, <1>3, <2>5, <3>0, <3>1, <4>1, <4>3 DEF Ready
        <5> QED BY <1>5, <3>0, <3>1, <4>3, <5>1
      <4> QED BY <4>2, <4>3
    <3>2. CASE n # id
      <4>1. node[n].state = "active" /\ Living(node[n].state)
        BY <1>5, <2>5, <3>2 DEF Living
      <4>2. node[node[n].parent].state = "active"
        BY <1>2, <2>5, <3>0, <4>1 DEF NothingHangsFromTheGone
      <4>3. node[n].parent = id => op = "enable"
        BY <1>1, <1>9, <1>10, <3>0, <4>1
      <4> QED BY <1>4, <1>5, <3>0, <4>2, <4>3
    <3> QED BY <3>1, <3>2
  <2> QED BY <1>6, <2>1, <2>2, <2>3, <2>4, <2>5 DEF NothingHangsFromTheGone
<1>15. Courteous(c)
  <2>1. ASSUME NEW m \in Nodes, node'[m] # node[m], Living(node'[m].state)
        PROVE  \/ node'[m].parent = None
               \/ holder[node'[m].parent] = c
               \/ /\ node'[m].parent = node[m].parent /\ Living(node[m].state)
                  /\ node'[m].state = "active" => node[m].state = "active"
    <3>1. m = id /\ node'[m].parent = node[m].parent /\ Living(node[m].state)
      BY <1>5, <1>7, <2>1
    <3>2. op = "enable" /\ node[id].parent \notin {None, id} => holder[node[id].parent] = c
      BY <1>2, <1>3 DEF Ready
    <3>3. op # "enable" => node'[m].state # "active"
      BY <1>1, <1>4, <1>5, <3>1
    <3> QED BY <1>3, <3>1, <3>2, <3>3
  <2>2. tree = "structure" =>
          \A n \in Nodes : ~(Living(node[n].state) <=> Living(node'[n].state)) => holder["law"] = c
    BY <1>2, <1>7, <1>11 DEF Ready
  <2> QED BY <1>6, <2>1, <2>2 DEF Courteous
<1>16. \A n \in Nodes : node'[n] # node[n] => n = tx[c].id /\ op \in NodeWrites \cup NodeMakes
  BY <1>1, <1>3, <1>5 DEF NodeWrites
<1> QED BY <1>1, <1>2, <1>5, <1>6, <1>12, <1>13, <1>14, <1>15, <1>16, CommitKeeps DEF TreeTypes

\* A row of the articles: it hangs from a living node, or from where it hung.
LEMMA ArticleWriteKeeps ==
  ASSUME TreeInv, NEW c \in Clients, NEW op \in ArticleWrites \cup {"createArticle"},
         CommitsRequest(c, op), NEW s \in {"active", "disabled", "deleted"},
         NEW n \in Nodes \cup {None},
         article' = [article EXCEPT ![tx[c].id] = [state |-> s, node |-> n]],
         UNCHANGED <<node, law, filed>>,
         \/ n = None
         \/ Living(node[n].state) /\ holder[n] \in {None, c}
         \/ op \in ArticleWrites /\ n = article[tx[c].id].node
  PROVE  TreeInv'
<1>1. /\ Ready(c) /\ tx[c].op = op /\ WellFormed(tx[c]) /\ Fresh(c) /\ TreeTypes
      /\ OtherTree /\ NoCycle /\ NothingHangsFromTheGone
  BY CommitsReady DEF TreeInv
<1>2. PICK id \in Articles : id = tx[c].id
  BY <1>1 DEF WellFormed
<1>3. /\ article' \in [Articles -> [state : States, node : Nodes \cup {None}]]
      /\ article'[id].state = s /\ article'[id].node = n
      /\ \A a \in Articles \ {id} : article'[a] = article[a]
  BY <1>1, <1>2 DEF TreeTypes, States
<1>4. node' = node /\ law' = law /\ filed' = filed /\ tree' = tree
  BY DEF CommitsRequest
<1>5. /\ tree = "structure"
      /\ op \in ArticleWrites => Living(article[id].state)
      /\ op = "createArticle" => holder["law"] = c /\ law.state # "deleted"
  BY <1>1, <1>2 DEF WellFormed, StructureOnly, Ready
<1>6. n # None => Living(node[n].state)
  BY <1>1, <1>2, <1>5 DEF NothingHangsFromTheGone
<1>7. OtherTree' /\ NoCycle'
  BY <1>1, <1>4, <1>5 DEF OtherTree, NoCycle
<1>8. NothingHangsFromTheGone'
  <2>1. \A a \in Articles : Living(article'[a].state) /\ article'[a].node # None
                              => Living(node[article'[a].node].state)
    BY <1>1, <1>3, <1>6 DEF NothingHangsFromTheGone
  <2>2. law.state = "deleted" => KnownArticles' = {}
    <3>1. SUFFICES ASSUME law.state = "deleted" PROVE FALSE
      OBVIOUS
    <3>2. Living(article[id].state)
      BY <1>5, <3>1
    <3> QED BY <1>1, <3>1, <3>2 DEF NothingHangsFromTheGone, KnownArticles
  <2>3. KnownNodes' = KnownNodes
    BY <1>4 DEF KnownNodes
  <2> QED BY <1>1, <1>4, <2>1, <2>2, <2>3 DEF NothingHangsFromTheGone
<1>9. Courteous(c)
  <2>1. \A a \in Articles : article'[a] # article[a] /\ Living(article'[a].state) =>
          \/ article'[a].node = None
          \/ holder[article'[a].node] \in {None, c}
          \/ article'[a].node = article[a].node /\ Living(article[a].state)
    BY <1>2, <1>3, <1>5
  <2>2. \A a \in Articles :
          Living(article'[a].state) /\ ~Living(article[a].state) => holder["law"] = c
    BY <1>3, <1>5
  <2> QED BY <1>4, <2>1, <2>2 DEF Courteous
<1>10. \A a \in Articles :
         article'[a] # article[a] => a = tx[c].id /\ op \in ArticleWrites \cup {"createArticle"}
  BY <1>2, <1>3
<1> QED BY <1>1, <1>3, <1>4, <1>7, <1>8, <1>9, <1>10, CommitKeeps DEF TreeTypes

LEMMA ArticleStepsKeep ==
  ASSUME TreeInv, NEW c \in Clients,
         \/ AssignArticle(c) \/ UnassignArticle(c) \/ CreateArticle(c) \/ EditArticle(c)
         \/ ChangeArticle(c)
  PROVE  TreeInv'
<1>0. /\ article \in [Articles -> [state : States, node : Nodes \cup {None}]]
      /\ tx[c].to \in Nodes \cup {None}
  BY DEF TreeInv, TreeTypes, TxRow
<1>r. \A r \in [state : States, node : Nodes \cup {None}] :
        /\ \A v \in Nodes \cup {None} : [r EXCEPT !.node = v] = [state |-> r.state, node |-> v]
        /\ \A v \in States : [r EXCEPT !.state = v] = [state |-> v, node |-> r.node]
  OBVIOUS
<1>k. \A op \in ArticleWrites : CommitsRequest(c, op) =>
        /\ tx[c].op = op /\ Ready(c) /\ tx[c].id \in Articles
        /\ article[tx[c].id] \in [state : States, node : Nodes \cup {None}]
        /\ article[tx[c].id].state \in {"active", "disabled"}
  BY <1>0, CommitsReady DEF Ready, Living
<1>1. CASE AssignArticle(c)
  <2>1. PICK op \in ArticleWrites : op = "assign"
    BY DEF ArticleWrites
  <2>2. CommitsRequest(c, op) /\ UNCHANGED <<node, law, filed>>
    BY <1>1, <2>1 DEF AssignArticle
  <2>3. PICK s \in {"active", "disabled", "deleted"} : s = article[tx[c].id].state
    BY <1>k, <2>2
  <2>4. article' = [article EXCEPT ![tx[c].id] = [state |-> s, node |-> tx[c].to]]
    <3>1. article' = [article EXCEPT ![tx[c].id].node = tx[c].to]
      BY <1>1 DEF AssignArticle
    <3>2. [article[tx[c].id] EXCEPT !.node = tx[c].to] = [state |-> s, node |-> tx[c].to]
      BY <1>k, <1>r, <2>2, <2>3
    <3> QED BY <3>1, <3>2, Zenon
  <2>5. Living(node[tx[c].to].state) /\ holder[tx[c].to] = c
    BY <1>k, <2>1, <2>2 DEF Ready, Living
  <2> QED BY <1>0, <2>2, <2>4, <2>5, ArticleWriteKeeps
<1>2. CASE UnassignArticle(c)
  <2>1. PICK op \in ArticleWrites : op = "unassign"
    BY DEF ArticleWrites
  <2>2. CommitsRequest(c, op) /\ UNCHANGED <<node, law, filed>>
    BY <1>2, <2>1 DEF UnassignArticle
  <2>3. PICK s \in {"active", "disabled", "deleted"}, n \in Nodes \cup {None} :
          /\ s = article[tx[c].id].state
          /\ n = IF article[tx[c].id].node = tx[c].to THEN None ELSE article[tx[c].id].node
    BY <1>k, <2>2
  <2>4. article' = [article EXCEPT ![tx[c].id] = [state |-> s, node |-> n]]
    <3>1. article' = [article EXCEPT ![tx[c].id].node = n]
      BY <1>2, <2>3 DEF UnassignArticle
    <3>2. [article[tx[c].id] EXCEPT !.node = n] = [state |-> s, node |-> n]
      BY <1>k, <1>r, <2>2, <2>3
    <3> QED BY <3>1, <3>2, Zenon
  <2> QED BY <2>2, <2>3, <2>4, ArticleWriteKeeps
<1>3. CASE CreateArticle(c)
  <2>1. PICK op \in ArticleWrites \cup {"createArticle"}, s \in {"active", "disabled", "deleted"} :
          op = "createArticle" /\ s = "active"
    OBVIOUS
  <2>2. /\ CommitsRequest(c, op) /\ UNCHANGED <<node, law, filed>>
        /\ article' = [article EXCEPT ![tx[c].id] = [state |-> s, node |-> tx[c].to]]
    BY <1>3, <2>1 DEF CreateArticle
  <2>3. tx[c].op = op /\ Ready(c) /\ StillSo(c)
    BY <2>2, CommitsReady
  <2>4. tx[c].to # None => Living(node[tx[c].to].state) /\ holder[tx[c].to] \in {None, c}
    BY <1>3, <2>1, <2>3 DEF StillSo, Ready, Unchecked, CreateArticle, FreeFor
  <2> QED BY <1>0, <2>2, <2>4, ArticleWriteKeeps
<1>4. CASE EditArticle(c)
  <2>1. PICK op \in ArticleWrites : op = "editArticle"
    BY DEF ArticleWrites
  <2>2. CommitsRequest(c, op) /\ UNCHANGED <<node, law, filed>>
    BY <1>4, <2>1 DEF EditArticle
  <2>3. PICK s \in {"active", "disabled", "deleted"} : s = article[tx[c].id].state
    BY <1>k, <2>2
  <2>4. article' = [article EXCEPT ![tx[c].id] = [state |-> s, node |-> tx[c].to]]
    <3>1. article' = [article EXCEPT ![tx[c].id].node = tx[c].to]
      BY <1>4 DEF EditArticle
    <3>2. [article[tx[c].id] EXCEPT !.node = tx[c].to] = [state |-> s, node |-> tx[c].to]
      BY <1>k, <1>r, <2>2, <2>3
    <3> QED BY <3>1, <3>2, Zenon
  <2>5. tx[c].op = op /\ Ready(c) /\ StillSo(c)
    BY <2>2, CommitsReady
  <2>6. tx[c].to # None => Living(node[tx[c].to].state) /\ holder[tx[c].to] \in {None, c}
    BY <1>4, <2>1, <2>5 DEF StillSo, Ready, Unchecked, EditArticle, FreeFor
  <2> QED BY <1>0, <2>2, <2>4, <2>6, ArticleWriteKeeps
<1>5. CASE ChangeArticle(c)
  <2>1. PICK op \in {"enableArticle", "disableArticle", "deleteArticle"} :
          /\ CommitsRequest(c, op) /\ UNCHANGED <<node, law, filed>>
          /\ article' = [article EXCEPT ![tx[c].id].state = StateAfter(op)]
    BY <1>5, Zenon DEF ChangeArticle
  <2>2. op \in ArticleWrites
    BY DEF ArticleWrites
  <2>3. PICK s \in {"active", "disabled", "deleted"} : s = StateAfter(op)
    BY DEF StateAfter
  <2>4. PICK n \in Nodes \cup {None} : n = article[tx[c].id].node
    BY <1>k, <2>1, <2>2
  <2>5. article' = [article EXCEPT ![tx[c].id] = [state |-> s, node |-> n]]
    <3>1. [article[tx[c].id] EXCEPT !.state = s] = [state |-> s, node |-> n]
      BY <1>k, <1>r, <2>1, <2>2, <2>4
    <3>2. article' = [article EXCEPT ![tx[c].id].state = s]
      BY <2>1, <2>3, Zenon
    <3> QED BY <3>1, <3>2, Zenon
  <2>6. CommitsRequest(c, op) /\ UNCHANGED <<node, law, filed>>
    BY <2>1
  <2>7. PICK w \in ArticleWrites : w = op
    BY <2>2
  <2>8. CommitsRequest(c, w) /\ UNCHANGED <<node, law, filed>>
    BY <2>6, <2>7
  <2> QED BY <2>4, <2>5, <2>8, ArticleWriteKeeps
<1> QED BY <1>1, <1>2, <1>3, <1>4, <1>5

LEMMA ChangeLawKeeps ==
  ASSUME TreeInv, NEW c \in Clients, ChangeLaw(c)
  PROVE  TreeInv'
<1>1. PICK op \in LawWrites :
        /\ CommitsRequest(c, op) /\ law' = [law EXCEPT !.state = StateAfter(op)]
        /\ UNCHANGED <<node, article, filed>>
  BY DEF ChangeLaw, LawWrites
<1>2. /\ Ready(c) /\ tx[c].op = op /\ WellFormed(tx[c]) /\ StillSo(c) /\ TreeTypes
      /\ OtherTree /\ NoCycle /\ NothingHangsFromTheGone
  BY <1>1, CommitsReady DEF TreeInv
<1>3. /\ law' \in [state : States, status : Statuses]
      /\ law'.state = "deleted" => op = "deleteLaw"
  BY <1>1, <1>2 DEF TreeTypes, StateAfter, States, LawWrites
<1>4. node' = node /\ article' = article /\ filed' = filed /\ tree' = tree
  BY <1>1 DEF CommitsRequest
<1>5. tree = "structure"
  BY <1>2 DEF WellFormed, StructureOnly
<1>6. op = "deleteLaw" => KnownNodes = {} /\ KnownArticles = {}
  BY <1>2 DEF Ready, StillSo, Unchecked
<1>7. KnownNodes' = KnownNodes /\ KnownArticles' = KnownArticles
  BY <1>4 DEF KnownNodes, KnownArticles
<1>8. OtherTree' /\ NoCycle' /\ NothingHangsFromTheGone'
  BY <1>2, <1>3, <1>4, <1>5, <1>6, <1>7 DEF OtherTree, NoCycle, NothingHangsFromTheGone
<1>9. Courteous(c)
  BY <1>4 DEF Courteous
<1> QED BY <1>1, <1>2, <1>3, <1>4, <1>8, <1>9, CommitKeeps DEF TreeTypes

LEMMA FileUnderSubjectKeeps ==
  ASSUME TreeInv, NEW c \in Clients, FileUnderSubject(c)
  PROVE  TreeInv'
<1>1. /\ CommitsRequest(c, "file") /\ filed' = {tx[c].to}
      /\ node' = node /\ article' = article /\ law' = law /\ tree' = tree
  BY DEF FileUnderSubject, CommitsRequest
<1>2. /\ Ready(c) /\ tx[c].op = "file" /\ WellFormed(tx[c]) /\ TreeTypes
      /\ OtherTree /\ NoCycle /\ NothingHangsFromTheGone
  BY <1>1, CommitsReady DEF TreeInv
<1>3. tree = "subjects"
  BY <1>2 DEF WellFormed, SubjectsOnly
<1>4. tx[c].to \in Nodes /\ holder[tx[c].to] = c /\ Living(node[tx[c].to].state)
  BY <1>2 DEF Ready, Living
<1>5. OtherTree' /\ NoCycle'
  BY <1>1, <1>2, <1>3 DEF OtherTree, NoCycle
<1>6. NothingHangsFromTheGone'
  BY <1>1, <1>2, <1>3, <1>4 DEF NothingHangsFromTheGone, KnownNodes, KnownArticles
<1>7. Courteous(c)
  BY <1>1, <1>4 DEF Courteous
<1> QED BY <1>1, <1>2, <1>4, <1>5, <1>6, <1>7, CommitKeeps DEF TreeTypes

-----------------------------------------------------------------------------
LEMMA TreeInitially == TreeInit => TreeInv
<1> SUFFICES ASSUME TreeInit PROVE TreeInv
  OBVIOUS
<1>1. /\ tree \in {"structure", "subjects"} /\ node \in InitNodes
      /\ article \in (IF tree = "structure" THEN InitArticles
                      ELSE {[a \in Articles |-> [state |-> "absent", node |-> None]]})
      /\ law = [state |-> "active", status |-> "DRAFT"] /\ filed = {}
      /\ \A c \in Clients : tx[c] = NoRequest
      /\ tx = [c \in Clients |-> NoRequest]
      /\ holder = [r \in Rows |-> None] /\ requests = 0
  BY DEF TreeInit
<1>2. node \in [Nodes -> [state : States, parent : Nodes \cup {None}]]
  BY <1>1, ForestAssumption
<1>3. /\ article \in [Articles -> [state : States, node : Nodes \cup {None}]]
      /\ tree = "subjects" => \A a \in Articles : article[a].state = "absent"
  BY <1>1, LeavesAssumption DEF States
<1>4. TreeTypes
  <2>1. NoRequest \in TxRow
    BY DEF NoRequest, TxRow
  <2> QED BY <1>1, <1>2, <1>3, <2>1, RequestsAssumption DEF TreeTypes, States, Statuses
<1>5. ASSUME NEW c \in Clients PROVE OwnState(c)
  <2>1. NoRequest.op = "none" /\ NoRequest.checked = FALSE /\ tx[c] = NoRequest
    BY <1>1 DEF NoRequest
  <2>2. \A r \in Rows : holder[r] # c
    BY <1>1, NoneAssumption
  <2>3. WellFormed(tx[c]) /\ LocksTaken(c)
    BY <2>1, <2>2 DEF WellFormed, LocksTaken, MustLock, NodeWrites, NodeMakes, ArticleWrites,
       LawWrites, StructureOnly, SubjectsOnly
  <2>4. AsLocked(c) /\ Fresh(c) /\ Walked(c) /\ StillSo(c)
    BY <2>1 DEF AsLocked, Fresh, Walked, StillSo, NodeWrites, NodeMakes, Moves, ArticleWrites
  <2> QED BY <2>3, <2>4 DEF OwnState
<1>6. OtherTree
  BY <1>1, <1>3 DEF OtherTree
<1>7. NoCycle
  BY <1>1, ForestAssumption DEF NoCycle
<1>8. NothingHangsFromTheGone
  <2>1. \A n \in Nodes : node[n].parent # None =>
          /\ Living(node[n].state) => Living(node[node[n].parent].state)
          /\ node[n].state = "active" => node[node[n].parent].state = "active"
    BY <1>1, ForestAssumption
  <2>2. \A a \in Articles : Living(article[a].state) /\ article[a].node # None
                            => Living(node[article[a].node].state)
    <3>1. CASE tree = "structure"
      BY <1>1, <3>1, LeavesAssumption
    <3>2. CASE tree = "subjects"
      BY <1>3, <3>2 DEF Living
    <3> QED BY <1>1, <3>1, <3>2
  <2> QED BY <1>1, <2>1, <2>2 DEF NothingHangsFromTheGone
<1> QED BY <1>4, <1>5, <1>6, <1>7, <1>8 DEF TreeInv

LEMMA TreeSteps ==
  ASSUME TreeInv, [TreeNext]_treeVars
  PROVE  TreeInv'
<1>1. CASE ChangeLawStatus
  BY <1>1, LawStatusKeeps
<1>2. ASSUME NEW c \in Clients, BeginRequest(c)
      PROVE  TreeInv'
  BY <1>2, BeginRequestKeeps
<1>3. ASSUME NEW c \in Clients, TreeStep(c)
      PROVE  TreeInv'
  <2>1. CASE LockRow(c)
    BY <2>1, LockRowKeeps
  <2>2. CASE AssertParent(c)
    BY <2>2, AssertParentKeeps
  <2>3. CASE CheckUnlocked(c)
    BY <2>3, CheckUnlockedKeeps
  <2>4. CASE RolledBack(c)
    BY <2>4, RefuseKeeps DEF RolledBack
  <2>5. CASE \/ UpdateStructure(c) \/ CreateStructure(c)
             \/ UpdateReference(c) \/ CreateReference(c)
    BY <2>5, NodeMovesKeep
  <2>6. CASE FileUnderSubject(c)
    BY <2>6, FileUnderSubjectKeeps
  <2>7. CASE \/ AssignArticle(c) \/ UnassignArticle(c) \/ CreateArticle(c) \/ EditArticle(c)
             \/ ChangeArticle(c)
    BY <2>7, ArticleStepsKeep
  <2>8. CASE ChangeNode(c)
    BY <2>8, ChangeNodeKeeps
  <2>9. CASE ChangeLaw(c)
    BY <2>9, ChangeLawKeeps
  <2> QED BY <1>3, <2>1, <2>2, <2>3, <2>4, <2>5, <2>6, <2>7, <2>8, <2>9 DEF TreeStep
<1>4. CASE UNCHANGED treeVars
  <2>1. /\ tree' = tree /\ node' = node /\ article' = article /\ law' = law /\ filed' = filed
        /\ tx' = tx /\ holder' = holder /\ requests' = requests
    BY <1>4 DEF treeVars
  <2>2. KnownNodes' = KnownNodes /\ KnownArticles' = KnownArticles
    BY <2>1 DEF KnownNodes, KnownArticles
  <2>3. TreeTypes'
    BY <2>1 DEF TreeInv, TreeTypes
  <2>4. ASSUME NEW d \in Clients PROVE OwnState(d)'
    <3>1. OwnState(d) /\ Fresh(d)' /\ StillSo(d)'
      BY <2>1, <2>2 DEF TreeInv, OwnState, Fresh, StillSo
    <3> QED BY <2>1, <2>3, <3>1, OthersStand DEF TreeInv
  <2> QED BY <2>1, <2>2, <2>3, <2>4 DEF TreeInv, OtherTree, NoCycle, NothingHangsFromTheGone
<1> QED BY <1>1, <1>2, <1>3, <1>4 DEF TreeNext

LEMMA TreeHolds == TreeInv => TreeTypeOK /\ NoCycle /\ NothingHangsFromTheGone
<1> SUFFICES ASSUME TreeInv PROVE TreeTypeOK
  BY DEF TreeInv
<1>1. \A r \in Rows : holder[r] # None => holder[r] \in Clients /\ tx[holder[r]].op # "none"
  BY DEF TreeInv, TreeTypes, OwnState, LocksTaken
<1>2. \A c \in Clients :
        /\ tx[c].op \in Ops \cup {"none"}
        /\ tx[c].id \in Rows \cup {None} /\ tx[c].to \in Nodes \cup {None}
        /\ tx[c].locks \in Seq(Rows) /\ tx[c].walk \in Nodes \cup {None}
        /\ tx[c].active \in BOOLEAN /\ tx[c].checked \in BOOLEAN
  BY DEF TreeInv, TreeTypes, TxRow
<1> QED BY <1>1, <1>2 DEF TreeInv, TreeTypes, TreeTypeOK
=============================================================================
