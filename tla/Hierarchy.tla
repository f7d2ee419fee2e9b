------------------------------ MODULE Hierarchy ------------------------------
(***************************************************************************)
(* The two trees the administration keeps, the structure nodes of a law    *)
(* and the subjects, with what hangs from them: the articles of the law    *)
(* and the subjects a law is filed under.  Requests run in transactions    *)
(* that lock rows one at a time (SELECT ... FOR UPDATE), read others           *)
(* without a lock, and write at the end: the module tells the two apart,   *)
(* because what was read without a lock may be false when it is used.      *)
(*                                                                         *)
(* `tree` says which table the run is about; the code of the walk, the     *)
(* life cycle and the checks is shared by both.                            *)
(***************************************************************************)
EXTENDS Integers, Sequences, FiniteSets

CONSTANTS
  Nodes,        \* rows of the table
  Articles,     \* articles of the law
  Clients,      \* requests running at a time
  None,
  InitNodes,    \* the trees a run may start from
  InitArticles,
  MaxRequests   \* bound on the requests of a behaviour

ASSUME NoneAssumption == None \notin Nodes \cup Articles \cup Clients \cup {"law"}
ASSUME RowsAssumption == Nodes \cap Articles = {} /\ "law" \notin Nodes \cup Articles
ASSUME RequestsAssumption == MaxRequests \in Nat

VARIABLES
  tree,      \* "structure" (structure_nodes) or "subjects"
  node,      \* the rows: [state, parent]
  article,   \* [state, node]
  law,       \* [state, status]; its row lock is the resource "law"
  filed,     \* legislation_subjects of the law
  tx,        \* the transaction of each client
  holder,    \* row locks
  requests   \* requests begun

treeVars == <<tree, node, article, law, filed, tx, holder, requests>>
treeRows == <<node, article, law, filed>>

States == {"absent", "active", "disabled", "deleted"}
Statuses == {"DRAFT", "IN_REVIEW", "PUBLISHED"}
Rows == Nodes \cup Articles \cup {"law"}
Living(s) == s \in {"active", "disabled"}

Ops == {"updateStructure", "createStructure", "assign", "unassign", "createArticle",
        "editArticle", "updateReference", "createReference", "file",
        "enable", "disable", "delete",
        "enableArticle", "disableArticle", "deleteArticle",
        "enableLaw", "disableLaw", "deleteLaw"}

\* A run starts from rows that earlier requests may have left.
ASSUME ForestAssumption ==
  \A forest \in InitNodes :
    /\ forest \in [Nodes -> [state : States, parent : Nodes \cup {None}]]
    /\ \A S \in SUBSET {n \in Nodes : forest[n].state # "absent"} :
         S # {} => \E n \in S : forest[n].parent \notin S
    /\ \A n \in Nodes : forest[n].parent # None =>
         /\ Living(forest[n].state) => Living(forest[forest[n].parent].state)
         /\ forest[n].state = "active" => forest[forest[n].parent].state = "active"
ASSUME LeavesAssumption ==
  \A leaves \in InitArticles :
    /\ leaves \in [Articles -> [state : States, node : Nodes \cup {None}]]
    /\ \A forest \in InitNodes, a \in Articles :
         Living(leaves[a].state) /\ leaves[a].node # None
           => Living(forest[leaves[a].node].state)

NoRequest == [op |-> "none", id |-> None, to |-> None, active |-> TRUE,
         locks |-> <<>>, walk |-> None, seen |-> {}, checked |-> FALSE]

TreeInit ==
  /\ tree \in {"structure", "subjects"}
  /\ node \in InitNodes
  /\ article \in (IF tree = "structure" THEN InitArticles
                  ELSE {[a \in Articles |-> [state |-> "absent", node |-> None]]})
  /\ law = [state |-> "active", status |-> "DRAFT"]
  /\ filed = {}
  /\ tx = [c \in Clients |-> NoRequest]
  /\ holder = [r \in Rows |-> None]
  /\ requests = 0

-----------------------------------------------------------------------------
(***************************************************************************)
(* The requests, and the rows each transaction locks before it decides         *)
(***************************************************************************)
Request(op, id, to, locks, walk) ==
  [op |-> op, id |-> id, to |-> to, active |-> TRUE, locks |-> locks,
   walk |-> walk, seen |-> {id}, checked |-> FALSE]
Flagged(r, active) == [r EXCEPT !.active = active]

KnownNodes == {n \in Nodes : Living(node[n].state)}
KnownArticles == {a \in Articles : Living(article[a].state)}
Parents == KnownNodes \cup {None}
NotBeingMade(ids) == {i \in ids : \A c \in Clients : tx[c].id # i}
FreshNodes == NotBeingMade({n \in Nodes : node[n].state = "absent"})
FreshArticles == NotBeingMade({a \in Articles : article[a].state = "absent"})

NodeRequests ==
  {Request("updateStructure", n, p, <<n, "law">>, p) : n \in KnownNodes, p \in Parents}
    \cup {Request("createStructure", n, p, <<"law">>, p) : n \in FreshNodes, p \in Parents}
    \cup {Request(op, n, None, <<n, "law">>, None) :
            op \in {"enable", "delete"}, n \in KnownNodes}

PlaceRequests ==
  {Request(op, a, n, <<n, "law", a>>, None) :
     op \in {"assign", "unassign"}, a \in KnownArticles, n \in KnownNodes}
    \cup {Request("createArticle", a, n, <<"law">>, None) :
            a \in FreshArticles, n \in Parents}
    \cup {Request("editArticle", a, n, <<a, "law">>, None) :
            a \in KnownArticles, n \in Parents}

ArticleRequests ==
  {Request(op, a, None, <<a, "law">>, None) :
     op \in {"enableArticle", "deleteArticle"}, a \in KnownArticles}
    \cup {Request("disableArticle", a, None, <<a>>, None) : a \in KnownArticles}

LawRequests ==
  {Request(op, "law", None, <<"law">>, None) : op \in {"enableLaw", "disableLaw", "deleteLaw"}}

SubjectRequests ==
  {Flagged(Request("updateReference", n, p, <<n>>, p), active) :
     n \in KnownNodes, p \in Parents, active \in BOOLEAN}
    \cup {Flagged(Request("createReference", n, p, <<>>, p), active) :
            n \in FreshNodes, p \in Parents, active \in BOOLEAN}
    \cup {Request("file", "law", n, <<"law", n>>, None) : n \in KnownNodes}
    \cup {Request(op, n, None, <<n>>, None) : op \in {"enable", "delete"}, n \in KnownNodes}

\* In both tables a row to be disabled is locked alone.
Requests ==
  (IF tree = "structure" THEN NodeRequests \cup PlaceRequests \cup ArticleRequests \cup LawRequests
   ELSE SubjectRequests)
    \cup {Request("disable", n, None, <<n>>, None) : n \in KnownNodes}

BeginRequest(c) ==
  /\ tx[c] = NoRequest /\ requests < MaxRequests
  /\ \E r \in Requests : tx' = [tx EXCEPT ![c] = r]
  /\ requests' = requests + 1
  /\ UNCHANGED <<tree, treeRows, holder>>

-----------------------------------------------------------------------------
(***************************************************************************)
(* Row locks (external: InnoDB).  A transaction that waits in a circle is  *)
(* rolled back.                                                            *)
(***************************************************************************)
FreeFor(c, r) == holder[r] \in {None, c}
Released(c) == [r \in Rows |-> IF holder[r] = c THEN None ELSE holder[r]]

\* A foreign key written without a lock on the row it names still waits for it.
ForeignKey(c) ==
  IF tx[c].op \in {"createArticle", "editArticle"} /\ tx[c].checked
  THEN tx[c].to ELSE None

Wanted(c) ==
  IF tx[c].locks # <<>> THEN Head(tx[c].locks)
  ELSE IF tx[c].walk # None THEN tx[c].walk ELSE ForeignKey(c)

Waits(c, d) == Wanted(c) # None /\ c # d /\ holder[Wanted(c)] = d

Refuse(c) ==
  /\ tx' = [tx EXCEPT ![c] = NoRequest]
  /\ holder' = Released(c)
  /\ UNCHANGED <<tree, treeRows, requests>>

RolledBack(c) ==
  /\ \E d \in Clients : Waits(c, d) /\ Waits(d, c)
  /\ Refuse(c)

(***************************************************************************)
(* The condition each handler puts on a row it has just locked             *)
(***************************************************************************)
LawAdmits(t) ==
  CASE t.op \in {"enable", "enableArticle"} -> law.state = "active"
    [] t.op \in {"delete", "deleteArticle"} -> law.status = "DRAFT"
    [] t.op = "deleteLaw" -> law.status = "DRAFT" /\ law.state # "deleted"
    [] t.op = "createArticle" -> law.status = "DRAFT" /\ law.state # "deleted"
    [] t.op \in {"assign", "unassign", "editArticle"} ->
         law.status \in {"DRAFT", "IN_REVIEW"} /\ law.state # "deleted"
    [] OTHER -> law.state # "deleted"

NodeAdmits(t, n) ==
  CASE t.op = "enable" /\ n # t.id -> node[n].state = "active"
    [] t.op \in {"assign", "file"} -> node[n].state = "active"
    [] OTHER -> Living(node[n].state)

Admits(c, r) ==
  CASE r = "law" -> LawAdmits(tx[c])
    [] r \in Nodes -> NodeAdmits(tx[c], r)
    [] r \in Articles -> Living(article[r].state)

\* Mutant: the parent is locked also when there is none.
ThenLocksAnyParent(c, r) ==
  IF tx[c].op = "enable" /\ r = tx[c].id
  THEN Append(Tail(tx[c].locks), node[r].parent)
  ELSE Tail(tx[c].locks)

\* Enabling a row also locks its parent, read from the row itself.
ThenLocks(c, r) ==
  IF tx[c].op = "enable" /\ r = tx[c].id /\ node[r].parent # None
  THEN Append(Tail(tx[c].locks), node[r].parent)
  ELSE Tail(tx[c].locks)

LockRow(c) ==
  /\ tx[c].locks # <<>>
  /\ LET r == Head(tx[c].locks)
     IN /\ FreeFor(c, r)
        /\ IF Admits(c, r)
           THEN /\ holder' = [holder EXCEPT ![r] = c]
                /\ tx' = [tx EXCEPT ![c].locks = ThenLocks(c, r)]
                /\ UNCHANGED <<tree, treeRows, requests>>
           ELSE Refuse(c)

\* Mutant: the ancestors are read without a lock.
AssertParentUnlocked(c) ==
  /\ tx[c].locks = <<>> /\ tx[c].walk # None
  /\ LET p == tx[c].walk
     IN IF p \in tx[c].seen \/ node[p].state # "active"
        THEN Refuse(c)
        ELSE /\ tx' = [tx EXCEPT ![c].walk = node[p].parent, ![c].seen = @ \cup {p}]
             /\ UNCHANGED <<tree, treeRows, holder, requests>>

\* The walk from the new parent to the root: each ancestor is locked, and must
\* be active and not have been met before.
AssertParent(c) ==
  /\ tx[c].locks = <<>> /\ tx[c].walk # None
  /\ LET p == tx[c].walk
     IN IF p \in tx[c].seen THEN Refuse(c)
        ELSE /\ FreeFor(c, p)
             /\ IF node[p].state # "active"
                THEN Refuse(c)
                ELSE /\ holder' = [holder EXCEPT ![p] = c]
                     /\ tx' = [tx EXCEPT ![c].walk = node[p].parent,
                                         ![c].seen = @ \cup {p}]
                     /\ UNCHANGED <<tree, treeRows, requests>>

Locked(c) == tx[c].op # "none" /\ tx[c].locks = <<>> /\ tx[c].walk = None

(***************************************************************************)
(* Reads without a lock, taken before the write                            *)
(***************************************************************************)
Children(n) == {m \in Nodes : node[m].parent = n /\ node[m].state # "absent"}
Held(n) == {a \in Articles : article[a].node = n /\ Living(article[a].state)}

\* Mutant: only the direct articles keep a node from being disabled.
DisableIsBlockedByArticles(n) == \E a \in Held(n) : article[a].state = "active"

DisableIsBlocked(n) ==
  \/ \E m \in Children(n) : node[m].state = "active"
  \/ \E a \in Held(n) : article[a].state = "active"

\* A subject is kept by any row below it, deleted ones included.
DeleteIsBlocked(n) ==
  IF tree = "structure"
  THEN Held(n) # {} \/ \E m \in Children(n) : node[m].state # "deleted"
  ELSE n \in filed \/ Children(n) # {}

Unchecked == {"disable", "delete", "createArticle", "editArticle", "deleteLaw"}

Blocked(c) ==
  LET t == tx[c]
  IN CASE t.op = "disable" -> DisableIsBlocked(t.id)
       [] t.op = "delete" -> DeleteIsBlocked(t.id)
       [] t.op = "createArticle" -> t.to # None /\ node[t.to].state # "active"
       [] t.op = "editArticle" ->
            /\ t.to # None /\ node[t.to].state # "active"
            /\ ~(t.to = article[t.id].node /\ Living(node[t.to].state))
       [] t.op = "deleteLaw" ->
            \/ \E n \in Nodes : Living(node[n].state)
            \/ \E a \in Articles : Living(article[a].state)
       [] OTHER -> FALSE

CheckUnlocked(c) ==
  /\ Locked(c) /\ tx[c].op \in Unchecked /\ ~tx[c].checked
  /\ IF Blocked(c) THEN Refuse(c)
     ELSE /\ tx' = [tx EXCEPT ![c].checked = TRUE]
          /\ UNCHANGED <<tree, treeRows, holder, requests>>

-----------------------------------------------------------------------------
(***************************************************************************)
(* The writes                                                              *)
(***************************************************************************)
CommitsRequest(c, op) ==
  /\ Locked(c) /\ tx[c].op = op
  /\ op \in Unchecked => tx[c].checked
  /\ tx' = [tx EXCEPT ![c] = NoRequest]
  /\ holder' = Released(c)
  /\ UNCHANGED <<tree, requests>>

UpdateStructure(c) ==
  /\ CommitsRequest(c, "updateStructure")
  /\ node' = [node EXCEPT ![tx[c].id].parent = tx[c].to]
  /\ UNCHANGED <<article, law, filed>>

CreateStructure(c) ==
  /\ CommitsRequest(c, "createStructure")
  /\ node' = [node EXCEPT ![tx[c].id] = [state |-> "active", parent |-> tx[c].to]]
  /\ UNCHANGED <<article, law, filed>>

UpdateReference(c) ==
  /\ CommitsRequest(c, "updateReference")
  /\ node' = [node EXCEPT ![tx[c].id] =
                [state |-> IF tx[c].active THEN "active" ELSE "disabled",
                 parent |-> tx[c].to]]
  /\ UNCHANGED <<article, law, filed>>

CreateReference(c) ==
  /\ CommitsRequest(c, "createReference")
  /\ node' = [node EXCEPT ![tx[c].id] =
                [state |-> IF tx[c].active THEN "active" ELSE "disabled",
                 parent |-> tx[c].to]]
  /\ UNCHANGED <<article, law, filed>>

\* The subject list of the law is replaced.
FileUnderSubject(c) ==
  /\ CommitsRequest(c, "file")
  /\ filed' = {tx[c].to}
  /\ UNCHANGED <<node, article, law>>

AssignArticle(c) ==
  /\ CommitsRequest(c, "assign")
  /\ article' = [article EXCEPT ![tx[c].id].node = tx[c].to]
  /\ UNCHANGED <<node, law, filed>>

\* Only an article of this very node is unassigned.
UnassignArticle(c) ==
  /\ CommitsRequest(c, "unassign")
  /\ article' = [article EXCEPT ![tx[c].id].node = IF @ = tx[c].to THEN None ELSE @]
  /\ UNCHANGED <<node, law, filed>>

CreateArticle(c) ==
  /\ CommitsRequest(c, "createArticle")
  /\ tx[c].to # None => FreeFor(c, tx[c].to)
  /\ article' = [article EXCEPT ![tx[c].id] = [state |-> "active", node |-> tx[c].to]]
  /\ UNCHANGED <<node, law, filed>>

EditArticle(c) ==
  /\ CommitsRequest(c, "editArticle")
  /\ tx[c].to # None => FreeFor(c, tx[c].to)
  /\ article' = [article EXCEPT ![tx[c].id].node = tx[c].to]
  /\ UNCHANGED <<node, law, filed>>

StateAfter(op) ==
  CASE op \in {"enable", "enableArticle", "enableLaw"} -> "active"
    [] op \in {"disable", "disableArticle", "disableLaw"} -> "disabled"
    [] op \in {"delete", "deleteArticle", "deleteLaw"} -> "deleted"

ChangeNode(c) ==
  \E op \in {"enable", "disable", "delete"} :
    /\ CommitsRequest(c, op)
    /\ node' = [node EXCEPT ![tx[c].id].state = StateAfter(op)]
    /\ UNCHANGED <<article, law, filed>>

\* Enabling an article asks nothing of the node it hangs from.
ChangeArticle(c) ==
  \E op \in {"enableArticle", "disableArticle", "deleteArticle"} :
    /\ CommitsRequest(c, op)
    /\ article' = [article EXCEPT ![tx[c].id].state = StateAfter(op)]
    /\ UNCHANGED <<node, law, filed>>

ChangeLaw(c) ==
  \E op \in {"enableLaw", "disableLaw", "deleteLaw"} :
    /\ CommitsRequest(c, op)
    /\ law' = [law EXCEPT !.state = StateAfter(op)]
    /\ UNCHANGED <<node, article, filed>>

\* The publication workflow of SeparationOfDuties, as seen from here.
ChangeLawStatus ==
  /\ tree = "structure" /\ holder["law"] = None /\ law.state = "active"
  /\ \/ law.status = "DRAFT" /\ law' = [law EXCEPT !.status = "IN_REVIEW"]
     \/ law.status = "IN_REVIEW" /\ law' = [law EXCEPT !.status = "PUBLISHED"]
  /\ UNCHANGED <<tree, node, article, filed, tx, holder, requests>>

TreeStep(c) ==
  \/ LockRow(c) \/ AssertParent(c) \/ CheckUnlocked(c) \/ RolledBack(c)
  \/ UpdateStructure(c) \/ CreateStructure(c)
  \/ UpdateReference(c) \/ CreateReference(c) \/ FileUnderSubject(c)
  \/ AssignArticle(c) \/ UnassignArticle(c) \/ CreateArticle(c) \/ EditArticle(c)
  \/ ChangeNode(c) \/ ChangeArticle(c) \/ ChangeLaw(c)

TreeNext == ChangeLawStatus \/ \E c \in Clients : BeginRequest(c) \/ TreeStep(c)

-----------------------------------------------------------------------------
TreeTypeOK ==
  /\ tree \in {"structure", "subjects"}
  /\ node \in [Nodes -> [state : States, parent : Nodes \cup {None}]]
  /\ article \in [Articles -> [state : States, node : Nodes \cup {None}]]
  /\ law \in [state : States, status : Statuses]
  /\ filed \subseteq Nodes
  /\ \A c \in Clients :
       /\ tx[c].op \in Ops \cup {"none"}
       /\ tx[c].id \in Rows \cup {None} /\ tx[c].to \in Nodes \cup {None}
       /\ tx[c].locks \in Seq(Rows) /\ tx[c].walk \in Nodes \cup {None}
       /\ tx[c].active \in BOOLEAN /\ tx[c].checked \in BOOLEAN
  /\ holder \in [Rows -> Clients \cup {None}]
  /\ \A r \in Rows : holder[r] # None => tx[holder[r]].op # "none"
  /\ requests \in 0..MaxRequests

\* "The relation makes a cycle in the hierarchy" (record-validation.ts:38-41): no
\* two requests that each move a row under the other's subtree make one together,
\* because each holds the ancestors it walked over until it has written.
NoCycle ==
  \A S \in SUBSET {n \in Nodes : node[n].state # "absent"} :
    S # {} => \E n \in S : node[n].parent \notin S

\* Nothing hangs from what is gone.  A living row has a living parent, a living
\* article a living node, the law is filed under living subjects, and a deleted law
\* leaves neither nodes nor articles behind (lifecycle.service.ts:294-389), whatever
\* was attached while the deletion looked for dependants; and since "a disabled
\* hierarchy node cannot conceal or orphan active children"
\* (lifecycle.service.ts:221), an active node of the structure has active nodes
\* alone above it, also when a child is moved, made or enabled while its parent is
\* being disabled.
NothingHangsFromTheGone ==
  /\ \A n \in Nodes : Living(node[n].state) /\ node[n].parent # None
                         => Living(node[node[n].parent].state)
  /\ \A a \in Articles : Living(article[a].state) /\ article[a].node # None
                            => Living(node[article[a].node].state)
  /\ \A n \in filed : Living(node[n].state)
  /\ law.state = "deleted" => KnownNodes = {} /\ KnownArticles = {}
  /\ tree = "structure" =>
       \A n \in Nodes : node[n].state = "active" /\ node[n].parent # None
                           => node[node[n].parent].state = "active"
=============================================================================
