--------------------------- MODULE AmendmentDraft ---------------------------
(***************************************************************************)
(* One amendment document while it is written: its items, the place each   *)
(* has in the order of application, and the revision by which two writers  *)
(* are kept from undoing each other's items.  What publication then does   *)
(* with the items is the subject of ArticleTimeline.                       *)
(***************************************************************************)
EXTENDS Integers, Sequences, FiniteSets

CONSTANTS
  Items,         \* rows of amendment_operations
  FirstItems,    \* those the document is created with, in their order
  Writers,       \* people with the document open
  Shift,         \* what a save first adds to every place (100000)
  MaxSteps       \* bound on the steps that raise the revision

ASSUME ShiftAssumption == Shift \in Nat /\ Shift > Cardinality(Items)
ASSUME StepsAssumption == MaxSteps \in Nat
ASSUME ItemsAssumption ==
  /\ IsFiniteSet(Items) /\ FirstItems \in Seq(Items)
  /\ \A k, l \in DOMAIN FirstItems : FirstItems[k] = FirstItems[l] => k = l

VARIABLES
  document,   \* [status, active, deleted, revision]
  item,       \* [state, place]; a deleted row keeps a place
  view,       \* what each writer has loaded: [revision, list]
  collided    \* a save ended on the unique key of the places

draftVars == <<document, item, view, collided>>

NoItem == [state |-> "absent", place |-> 0]
Kept == {i \in Items : item[i].state \in {"active", "disabled"}}
StoredItems == {i \in Items : item[i].state # "absent"}

\* The items in the order of application (list, :70).
Listed ==
  CHOOSE s \in [1..Cardinality(Kept) -> Kept] :
    \A a, b \in DOMAIN s : a < b => item[s[a]].place < item[s[b]].place

DraftInit ==
  /\ document = [status |-> "DRAFT", active |-> TRUE, deleted |-> FALSE, revision |-> 1]
  /\ item = [i \in Items |->
               IF \E k \in DOMAIN FirstItems : FirstItems[k] = i
               THEN [state |-> "active",
                     place |-> CHOOSE k \in DOMAIN FirstItems : FirstItems[k] = i]
               ELSE NoItem]
  /\ view = [w \in Writers |-> [revision |-> 1, list |-> FirstItems]]
  /\ collided = FALSE

Editing == document.status = "DRAFT" /\ ~document.deleted
Steps == document.revision <= MaxSteps

LoadDocument(w) ==
  /\ ~document.deleted
  /\ view' = [view EXCEPT ![w] = [revision |-> document.revision, list |-> Listed]]
  /\ UNCHANGED <<document, item, collided>>

\* The lists a writer may send: any of the items loaded and of new ones.
Lists(w) ==
  LET known == {view[w].list[k] : k \in DOMAIN view[w].list} \cup (Items \ StoredItems)
  IN UNION {{s \in [1..n -> known] : \A a, b \in 1..n : s[a] = s[b] => a = b} :
              n \in 1..Cardinality(known)}

Raised == [i \in Items |-> IF i \in StoredItems
                           THEN [item[i] EXCEPT !.place = @ + Shift] ELSE NoItem]

\* Every place is raised at once, row by row, under UNIQUE (amendment_id,
\* application_order): a place that is still taken ends the save.
Collides == \E i, j \in StoredItems : item[j].place = item[i].place + Shift

SaveDocument(w, list) ==
  /\ Editing /\ Steps /\ view[w].revision = document.revision
  /\ item' = [i \in Items |->
       IF \E k \in DOMAIN list : list[k] = i
       THEN [state |-> IF i \in Kept THEN item[i].state ELSE "active",
             place |-> CHOOSE k \in DOMAIN list : list[k] = i]
       ELSE IF i \in Kept THEN [Raised[i] EXCEPT !.state = "deleted"]
       ELSE Raised[i]]
  /\ document' = [document EXCEPT !.revision = @ + 1]
  /\ UNCHANGED <<view, collided>>

\* Which row is raised first is the database's choice.
SaveRefusedByKey(w) ==
  /\ Editing /\ view[w].revision = document.revision
  /\ Collides
  /\ collided' = TRUE
  /\ UNCHANGED <<document, item, view>>

\* Mutant: the life cycle of an item leaves the revision of its document alone.
ChangeItemQuietly(i) ==
  \E state \in {"active", "disabled", "deleted"} :
    /\ Editing /\ Steps /\ i \in Kept
    /\ item' = [item EXCEPT ![i].state = state]
    /\ UNCHANGED <<document, view, collided>>

\* The life cycle of a single item; a deleted one keeps its place as it is.
ChangeItem(i) ==
  \E state \in {"active", "disabled", "deleted"} :
    /\ Editing /\ Steps /\ i \in Kept
    /\ item' = [item EXCEPT ![i].state = state]
    /\ document' = [document EXCEPT !.revision = @ + 1]
    /\ UNCHANGED <<view, collided>>

ChangeDocument ==
  /\ ~document.deleted
  /\ \/ document' = [document EXCEPT !.active = ~@]
     \/ document.status = "DRAFT"
          /\ document' = [document EXCEPT !.active = FALSE, !.deleted = TRUE]
  /\ UNCHANGED <<item, view, collided>>

\* Review and publication look at the items there are, not at a revision seen.
Advance(from, to) ==
  /\ document.status = from /\ document.active
  /\ \E i \in Kept : item[i].state = "active"
  /\ document' = [document EXCEPT !.status = to, !.revision = @ + 1]
  /\ UNCHANGED <<item, view, collided>>

ReviewDocument == Advance("DRAFT", "REVIEWED")
PublishDocument == Advance("REVIEWED", "PUBLISHED")

DraftNext ==
  \/ \E w \in Writers : \/ LoadDocument(w) \/ SaveRefusedByKey(w)
                        \/ \E list \in Lists(w) : SaveDocument(w, list)
  \/ \E i \in Items : ChangeItem(i)
  \/ ChangeDocument \/ ReviewDocument \/ PublishDocument

-----------------------------------------------------------------------------
DraftTypeOK ==
  /\ document \in [status : {"DRAFT", "REVIEWED", "PUBLISHED"}, active : BOOLEAN,
                   deleted : BOOLEAN, revision : 1..(MaxSteps + 3)]
  /\ \A i \in Items : /\ item[i].state \in {"absent", "active", "disabled", "deleted"}
                      /\ item[i].place \in Nat
  /\ \A w \in Writers : /\ view[w].revision \in 1..document.revision
                        /\ view[w].list \in UNION {[1..n -> Items] : n \in 0..Cardinality(Items)}
  /\ collided \in BOOLEAN

\* "The revision keeps concurrent editing from being lost" (docs/crud-coverage.md:31),
\* of the items of a document: a save that is accepted came from a writer who had
\* seen every item there is, in its order, so that none is dropped or moved that
\* somebody added, withdrew or moved meanwhile (amendments.service.ts:134-137,
\* lifecycle.service.ts:245-248).
NoItemOverlooked ==
  [][\A w \in Writers : \/ view[w].list = Listed
                        \/ \A list \in Lists(w) : ~SaveDocument(w, list)]_draftVars

\* "Move existing order values out of the incoming range before reordering"
\* (amendments.service.ts:226): no save of the newest revision ends on the unique
\* key of the order values.
PlacesNeverCollide == ~collided
=============================================================================
