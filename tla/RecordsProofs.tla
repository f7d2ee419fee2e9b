----------------------------- MODULE RecordsProofs -----------------------------
(***************************************************************************)
(* Proofs about Records for every value of its constants: the dictionary,  *)
(* the forms that several people edit, the page of one law, the amendment  *)
(* documents, and, with HierarchyProofs, StructureParserProofs and         *)
(* MigrationProofs, the trees, the parser and the migrations.              *)
(* Each desk has an inductive invariant of its own, proved for its own     *)
(* next-state relation; the last section carries them over to the desks    *)
(* together, whose every step is a step of one.                            *)
(***************************************************************************)
EXTENDS Records, HierarchyProofs, StructureParserProofs, MigrationProofs, FiniteSetTheorems

-----------------------------------------------------------------------------
(***************************************************************************)
(* The synonym dictionary                                                  *)
(***************************************************************************)
SetRow ==
  [status : {"none", "DRAFT", "ACTIVE", "ARCHIVED"}, active : BOOLEAN, deleted : BOOLEAN]

InsertOps == {"createSet", "addToNewSet"}
PairOps == {"add", "replace", "enable", "disable", "delete"}
SetOps == {"activate", "enableSet", "disableSet", "deleteSet"}
EditRow ==
  [set : 0..LastSet, pair : Terms, op : {"none"} \cup InsertOps \cup PairOps \cup SetOps]

\* The types of the dictionary's own state.
DictTypes ==
  /\ sets \in [Versions -> SetRow]
  /\ pairs \in [Versions -> [Terms -> PairStates]]
  /\ edit \in [Curators -> EditRow]
  /\ locked \in [Curators -> SUBSET (1..Gap)]

\* Versions are numbered without a gap.
Numbered == \E k \in 0..LastSet : Stored = 1..k

\* Two requests hold no row in common, the gap apart.
RowsApart == \A c, d \in Curators : c # d => locked[c] \cap locked[d] \subseteq {Gap}

\* A request that will insert a set holds the gap, and there is no draft.
InsertersAlone ==
  \A c \in Curators : edit[c].op \in InsertOps => Gap \in locked[c] /\ Drafts = {}

\* A request about a set holds its row; the set is not deleted and, when the request
\* is about a pair, still a draft.
SetsHeld ==
  \A c \in Curators : edit[c].op \in PairOps \cup SetOps =>
    /\ edit[c].set \in Stored /\ edit[c].set \in locked[c] /\ ~sets[edit[c].set].deleted
    /\ edit[c].op \in PairOps => sets[edit[c].set].status = "DRAFT"

OneOfEach ==
  /\ \A v, w \in Drafts : v = w
  /\ \A v, w \in Stored : sets[v].status = "ACTIVE" /\ sets[w].status = "ACTIVE" => v = w
  /\ \A v \in Stored : sets[v].status = "ACTIVE" => ActivePairs(v) # {}
  /\ \A v \in Stored : sets[v].deleted => sets[v].status = "DRAFT" /\ pairs[v] = NoPairs

DictInv == DictTypes /\ Numbered /\ RowsApart /\ InsertersAlone /\ SetsHeld /\ OneOfEach

-----------------------------------------------------------------------------
\* The request that locks and the request that lets go, whatever they are about.
LEMMA TakesKeeps ==
  ASSUME DictInv, NEW c \in Curators, NEW v \in 0..LastSet, NEW t \in Terms,
         NEW op \in InsertOps \cup PairOps \cup SetOps, NEW rows \in SUBSET (1..Gap),
         Takes(c, op, v, t, rows),
         op \in InsertOps => Gap \in rows /\ Drafts = {},
         op \in PairOps \cup SetOps =>
           /\ v \in Stored /\ v \in rows /\ ~sets[v].deleted
           /\ op \in PairOps => sets[v].status = "DRAFT"
  PROVE  DictInv'
<1>1. /\ sets' = sets /\ pairs' = pairs
      /\ edit' = [edit EXCEPT ![c] = [op |-> op, set |-> v, pair |-> t]]
      /\ locked' = [locked EXCEPT ![c] = rows]
  BY DEF Takes
<1>2. Stored' = Stored /\ Drafts' = Drafts
  BY <1>1 DEF Stored, Drafts, Exists
<1>3. DictTypes'
  BY <1>1 DEF DictInv, DictTypes, EditRow
<1>4. RowsApart'
  <2>1. SUFFICES ASSUME NEW a \in Curators, NEW b \in Curators, a # b,
                        NEW r \in locked'[a], r \in locked'[b], r # Gap
                 PROVE  FALSE
    BY DEF RowsApart
  <2>2. \A d \in Curators \ {c} : locked'[d] = locked[d] /\ (r \in rows => r \notin locked[d])
    BY <1>1, <2>1 DEF Takes, FreeRow, DictInv, DictTypes
  <2>3. locked'[c] = rows
    BY <1>1 DEF DictInv, DictTypes
  <2> QED BY <2>1, <2>2, <2>3 DEF DictInv, RowsApart
<1>5. InsertersAlone'
  BY <1>1, <1>2 DEF DictInv, DictTypes, InsertersAlone, EditRow
<1>6. SetsHeld'
  <2>1. SUFFICES ASSUME NEW d \in Curators, edit'[d].op \in PairOps \cup SetOps
                 PROVE  /\ edit'[d].set \in Stored /\ edit'[d].set \in locked'[d]
                        /\ ~sets[edit'[d].set].deleted
                        /\ edit'[d].op \in PairOps => sets[edit'[d].set].status = "DRAFT"
    BY <1>1, <1>2, Zenon DEF SetsHeld
  <2>2. CASE d = c
    BY <1>1, <2>1, <2>2 DEF DictInv, DictTypes
  <2>3. CASE d # c
    BY <1>1, <2>1, <2>3 DEF DictInv, DictTypes, SetsHeld
  <2> QED BY <2>2, <2>3
<1>7. OneOfEach'
  BY <1>1, <1>2 DEF DictInv, OneOfEach, ActivePairs, NoPairs
<1>8. Numbered'
  BY <1>2 DEF DictInv, Numbered
<1> QED BY <1>3, <1>4, <1>5, <1>6, <1>7, <1>8 DEF DictInv

LEMMA EndedRequest ==
  ASSUME DictInv, NEW c \in Curators, Ends(c)
  PROVE  /\ edit' \in [Curators -> EditRow] /\ locked' \in [Curators -> SUBSET (1..Gap)]
         /\ edit'[c].op = "none" /\ locked'[c] = {}
         /\ \A d \in Curators \ {c} : edit'[d] = edit[d] /\ locked'[d] = locked[d]
         /\ RowsApart'
<1>1. NoEdit \in EditRow /\ NoEdit.op = "none"
  BY TermsAssumption, LastSetAssumption DEF NoEdit, EditRow
<1>2. /\ edit' = [edit EXCEPT ![c] = NoEdit] /\ locked' = [locked EXCEPT ![c] = {}]
      /\ edit \in [Curators -> EditRow] /\ locked \in [Curators -> SUBSET (1..Gap)]
  BY DEF Ends, DictInv, DictTypes
<1>3. edit' \in [Curators -> EditRow] /\ locked' \in [Curators -> SUBSET (1..Gap)]
  BY <1>1, <1>2
<1>4. edit'[c] = NoEdit /\ locked'[c] = {}
  BY <1>2
<1>5. \A d \in Curators \ {c} : edit'[d] = edit[d] /\ locked'[d] = locked[d]
  BY <1>2
<1>6. RowsApart'
  BY <1>4, <1>5 DEF RowsApart, DictInv
<1> QED BY <1>1, <1>3, <1>4, <1>5, <1>6

\* What a request holds, no other request is about.
LEMMA OthersElsewhere ==
  ASSUME DictInv, NEW c \in Curators, NEW d \in Curators \ {c},
         edit[c].op \in PairOps \cup SetOps, edit[d].op \in PairOps \cup SetOps
  PROVE  edit[d].set # edit[c].set
<1>1. edit[c].set \in locked[c] /\ edit[d].set \in locked[d] /\ edit[c].set \in Versions
  BY DEF DictInv, SetsHeld, Stored
<1>2. Gap \notin Versions
  BY LastSetAssumption DEF Gap, Versions
<1> QED BY <1>1, <1>2 DEF DictInv, RowsApart

-----------------------------------------------------------------------------
\* The kinds of write a request ends with.
LEMMA InsertKeeps ==
  ASSUME DictInv, NEW c \in Curators, edit[c].op \in InsertOps, MayInsert(c), Ends(c),
         sets' = NewDraft, pairs' \in [Versions -> [Terms -> PairStates]],
         \A v \in Stored : pairs'[v] = pairs[v]
  PROVE  DictInv'
<1> USE LastSetAssumption
<1>1. PICK k \in 0..LastSet : Stored = 1..k
  BY DEF DictInv, Numbered
<1>2. NextVersion = k + 1 /\ k + 1 \in Versions /\ k + 1 \notin Stored
  <2>1. Cardinality(1..k) = k
    <3>1. k \in Int /\ k >= 0
      OBVIOUS
    <3> QED BY <3>1, FS_Interval
  <2> QED BY <1>1, <2>1 DEF NextVersion, MayInsert, Versions
<1> DEFINE n == k + 1
<1>3. /\ sets' \in [Versions -> SetRow]
      /\ sets'[n] = [status |-> "DRAFT", active |-> TRUE, deleted |-> FALSE]
      /\ \A v \in Versions \ {n} : sets'[v] = sets[v]
  BY <1>2 DEF NewDraft, DictInv, DictTypes, SetRow
<1>n. n \in Versions /\ n \notin Stored /\ n = k + 1
  BY <1>2
<1> HIDE DEF n
<1>4. Stored' = Stored \cup {n} /\ Stored' = 1..n
  <2>1. \A v \in Versions : sets'[v].status # "none" <=> sets[v].status # "none" \/ v = n
    BY <1>3, <1>n
  <2>2. Stored' = Stored \cup {n}
    BY <2>1, <1>n DEF Stored, Exists
  <2>3. (1..k) \cup {k + 1} = 1..(k + 1)
    OBVIOUS
  <2>4. Stored' = 1..n
    BY <2>2, <2>3, <1>1, <1>n
  <2> QED BY <2>2, <2>4
<1>5. Drafts = {}
  BY DEF DictInv, InsertersAlone
<1>6. Drafts' \subseteq {n}
  BY <1>3, <1>4, <1>5, <1>n DEF Drafts, Stored
<1>7. DictTypes'
  BY <1>3, EndedRequest DEF DictTypes
<1>8. Numbered'
  BY <1>4, <1>n DEF Numbered, Versions
<1>9. InsertersAlone'
  <2>1. \A d \in Curators \ {c} : edit[d].op \notin InsertOps
    BY DEF MayInsert, DictInv, InsertersAlone
  <2>2. edit'[c].op \notin InsertOps
    BY EndedRequest DEF InsertOps
  <2> QED BY <2>1, <2>2, EndedRequest DEF InsertersAlone
<1>10. SetsHeld'
  <2>1. SUFFICES ASSUME NEW d \in Curators, edit'[d].op \in PairOps \cup SetOps
                 PROVE  /\ edit'[d].set \in Stored' /\ edit'[d].set \in locked'[d]
                        /\ ~sets'[edit'[d].set].deleted
                        /\ edit'[d].op \in PairOps => sets'[edit'[d].set].status = "DRAFT"
    BY Zenon DEF SetsHeld
  <2>2. d # c
    BY <2>1, EndedRequest DEF PairOps, SetOps
  <2>3. edit'[d] = edit[d] /\ locked'[d] = locked[d]
    BY <2>2, EndedRequest
  <2>4. /\ edit[d].set \in Stored /\ edit[d].set \in locked[d]
        /\ ~sets[edit[d].set].deleted
        /\ edit[d].op \in PairOps => sets[edit[d].set].status = "DRAFT"
    BY <2>1, <2>3, Zenon DEF DictInv, SetsHeld
  <2>5. sets'[edit[d].set] = sets[edit[d].set]
    BY <2>4, <1>3, <1>n DEF Stored
  <2> QED BY <2>3, <2>4, <2>5, <1>4
<1>11. OneOfEach'
  <2>1. \A v \in Stored : sets'[v] = sets[v] /\ pairs'[v] = pairs[v]
    BY <1>3, <1>n DEF Stored
  <2>2. sets'[n].status # "ACTIVE" /\ ~sets'[n].deleted
    BY <1>3
  <2>3. \A v, w \in Drafts' : v = w
    BY <1>6
  <2>4. \A v, w \in Stored' :
          sets'[v].status = "ACTIVE" /\ sets'[w].status = "ACTIVE" => v = w
    BY <1>4, <2>1, <2>2 DEF DictInv, OneOfEach
  <2>5. \A v \in Stored' : sets'[v].status = "ACTIVE" => ActivePairs(v)' # {}
    BY <1>4, <2>1, <2>2 DEF DictInv, OneOfEach, ActivePairs
  <2>6. \A v \in Stored' :
          sets'[v].deleted => sets'[v].status = "DRAFT" /\ pairs'[v] = NoPairs
    BY <1>4, <2>1, <2>2 DEF DictInv, OneOfEach
  <2> QED BY <2>3, <2>4, <2>5, <2>6, Zenon DEF OneOfEach, NoPairs
<1> QED BY <1>7, <1>8, <1>9, <1>10, <1>11, EndedRequest DEF DictInv

LEMMA PairWriteKeeps ==
  ASSUME DictInv, NEW c \in Curators, edit[c].op \in PairOps, Ends(c), sets' = sets,
         pairs' \in [Versions -> [Terms -> PairStates]],
         \A w \in Versions \ {edit[c].set} : pairs'[w] = pairs[w]
  PROVE  DictInv'
<1> DEFINE v == edit[c].set
<1>1. v \in Stored /\ sets[v].status = "DRAFT" /\ ~sets[v].deleted
  BY DEF DictInv, SetsHeld
<1>2. Stored' = Stored /\ Drafts' = Drafts
  BY DEF Stored, Drafts, Exists
<1>3. DictTypes' /\ RowsApart'
  BY EndedRequest DEF DictTypes, DictInv
<1>4. Numbered'
  BY <1>2 DEF DictInv, Numbered
<1>5. InsertersAlone' /\ SetsHeld'
  <2>1. \A d \in Curators : edit'[d].op # "none" =>
          edit'[d] = edit[d] /\ locked'[d] = locked[d]
    BY EndedRequest
  <2>2. InsertersAlone'
    BY <2>1, <1>2 DEF DictInv, InsertersAlone, InsertOps
  <2>3. SetsHeld'
    BY <2>1, <1>2 DEF DictInv, SetsHeld, PairOps, SetOps
  <2> QED BY <2>2, <2>3
<1>6. OneOfEach'
  <2>1. \A w \in Stored : w # v => pairs'[w] = pairs[w]
    BY DEF Stored
  <2>2. \A w \in Stored : sets[w].status = "ACTIVE" => ActivePairs(w)' # {}
    BY <2>1, <1>1 DEF DictInv, OneOfEach, ActivePairs
  <2>3. \A w \in Stored : sets[w].deleted => sets[w].status = "DRAFT" /\ pairs'[w] = NoPairs
    BY <2>1, <1>1 DEF DictInv, OneOfEach
  <2> QED BY <1>2, <2>2, <2>3 DEF DictInv, OneOfEach, NoPairs
<1> QED BY <1>3, <1>4, <1>5, <1>6 DEF DictInv

\* The writes to the sets themselves: the row held, and the one that answered.
LEMMA SetWriteKeeps ==
  ASSUME DictInv, NEW c \in Curators, edit[c].op \in SetOps, Ends(c), pairs' = pairs,
         sets' \in [Versions -> SetRow], Stored' = Stored, Drafts' \subseteq Drafts,
         \A w \in Stored : w # edit[c].set /\ sets[w].status # "ACTIVE" => sets'[w] = sets[w],
         \A w \in Stored : w # edit[c].set => sets'[w].deleted = sets[w].deleted,
         OneOfEach'
  PROVE  DictInv'
<1>1. DictTypes' /\ RowsApart'
  BY EndedRequest DEF DictTypes, DictInv
<1>2. Numbered'
  BY DEF DictInv, Numbered
<1>3. \A d \in Curators : edit'[d].op # "none" =>
        d # c /\ edit'[d] = edit[d] /\ locked'[d] = locked[d]
  BY EndedRequest
<1>4. InsertersAlone'
  BY <1>3 DEF DictInv, InsertersAlone, InsertOps
<1>5. SetsHeld'
  <2>1. SUFFICES ASSUME NEW d \in Curators, edit'[d].op \in PairOps \cup SetOps
                 PROVE  /\ edit'[d].set \in Stored /\ edit'[d].set \in locked'[d]
                        /\ ~sets'[edit'[d].set].deleted
                        /\ edit'[d].op \in PairOps => sets'[edit'[d].set].status = "DRAFT"
    BY Zenon DEF SetsHeld
  <2>2. d # c /\ edit'[d] = edit[d] /\ locked'[d] = locked[d]
    BY <2>1, <1>3 DEF PairOps, SetOps
  <2>3. /\ edit[d].set \in Stored /\ edit[d].set \in locked[d]
        /\ ~sets[edit[d].set].deleted
        /\ edit[d].op \in PairOps => sets[edit[d].set].status = "DRAFT"
    BY <2>1, <2>2, Zenon DEF DictInv, SetsHeld
  <2>4. edit[d].set # edit[c].set
    BY <2>1, <2>2, OthersElsewhere
  <2> QED BY <2>2, <2>3, <2>4
<1> QED BY <1>1, <1>2, <1>4, <1>5 DEF DictInv

-----------------------------------------------------------------------------
LEMMA BeginsKeep ==
  ASSUME DictInv, NEW c \in Curators,
         BeginSet(c) \/ BeginPair(c) \/ BeginOnSet(c) \/ BeginOnPair(c)
  PROVE  DictInv'
<1> USE LastSetAssumption
<1>0. /\ NoEdit.pair \in Terms /\ 0 \in 0..LastSet
      /\ Stored \subseteq 0..LastSet /\ Drafts \subseteq Stored
      /\ Scan \in SUBSET (1..Gap) /\ Gap \in Scan
      /\ \A v \in Stored : {v} \in SUBSET (1..Gap)
  BY TermsAssumption DEF NoEdit, Stored, Versions, Scan, Gap, Drafts
<1>1. CASE BeginSet(c)
  BY <1>0, <1>1, TakesKeeps DEF BeginSet, InsertOps, PairOps, SetOps
<1>2. CASE BeginPair(c)
  <2>1. PICK t \in Terms :
          \/ Drafts = {} /\ Takes(c, "addToNewSet", 0, t, Scan)
          \/ Drafts # {} /\ Takes(c, "add", Newest(Drafts), t, {Newest(Drafts)})
    BY <1>2 DEF BeginPair
  <2>2. CASE Drafts = {} /\ Takes(c, "addToNewSet", 0, t, Scan)
    BY <1>0, <2>2, TakesKeeps DEF InsertOps, PairOps, SetOps
  <2>3. CASE Drafts # {} /\ Takes(c, "add", Newest(Drafts), t, {Newest(Drafts)})
    <3>1. PICK d \in Drafts : \A w \in Drafts : w = d
      BY <2>3 DEF DictInv, OneOfEach
    <3>2. \A w \in Drafts : w <= d
      BY <3>1, <1>0
    <3>3. Newest(Drafts) \in Drafts
      BY <3>2 DEF Newest
    <3>4. /\ Newest(Drafts) \in Stored /\ sets[Newest(Drafts)].status = "DRAFT"
          /\ ~sets[Newest(Drafts)].deleted
      BY <3>3 DEF Drafts
    <3> HIDE DEF Newest
    <3> QED BY <1>0, <2>3, <3>4, TakesKeeps DEF InsertOps, PairOps, SetOps
  <2> QED BY <2>1, <2>2, <2>3
<1>3. CASE BeginOnSet(c)
  <2>1. PICK v \in Stored, op \in SetOps :
          ~sets[v].deleted /\ Takes(c, op, v, NoEdit.pair, {v})
    BY <1>3 DEF BeginOnSet, SetOps
  <2>2. op \notin InsertOps /\ op \notin PairOps
    BY <2>1 DEF InsertOps, PairOps, SetOps
  <2> QED BY <1>0, <2>1, <2>2, TakesKeeps
<1>4. CASE BeginOnPair(c)
  <2>1. PICK v \in Stored, t \in Terms, op \in PairOps :
          /\ pairs[v][t] \in {"active", "disabled"} /\ sets[v].status = "DRAFT"
          /\ Takes(c, op, v, t, {v})
    BY <1>4 DEF BeginOnPair, PairOps
  <2>2. op \notin InsertOps /\ op \notin SetOps
    BY <2>1 DEF InsertOps, PairOps, SetOps
  <2>3. ~sets[v].deleted
    BY <2>1 DEF DictInv, OneOfEach, NoPairs
  <2> QED BY <1>0, <2>1, <2>2, <2>3, TakesKeeps
<1> QED BY <1>1, <1>2, <1>3, <1>4

LEMMA PairWritesKeep ==
  ASSUME DictInv, NEW c \in Curators,
         CreateSynonymSet(c) \/ AddSynonym(c) \/ UpdateSynonym(c) \/ ChangePair(c)
  PROVE  DictInv'
<1>1. CASE CreateSynonymSet(c)
  BY <1>1, InsertKeeps DEF CreateSynonymSet, InsertOps, DictInv, DictTypes
<1>2. CASE edit[c].op = "addToNewSet" /\ AddSynonym(c)
  <2>1. /\ MayInsert(c) /\ sets' = NewDraft /\ Ends(c)
        /\ pairs' = [pairs EXCEPT ![NextVersion][edit[c].pair] = "active"]
    BY <1>2 DEF AddSynonym
  <2>2. NextVersion \notin Stored
    <3>1. PICK k \in 0..LastSet : Stored = 1..k
      BY DEF DictInv, Numbered
    <3>2. Cardinality(1..k) = k
      BY <3>1, FS_Interval, LastSetAssumption
    <3> QED BY <3>1, <3>2, LastSetAssumption DEF NextVersion
  <2>3. \A v \in Stored : pairs'[v] = pairs[v]
    BY <2>1, <2>2 DEF DictInv, DictTypes, Stored
  <2>4. pairs' \in [Versions -> [Terms -> PairStates]]
    BY <2>1 DEF DictInv, DictTypes, PairStates
  <2> QED BY <1>2, <2>1, <2>3, <2>4, InsertKeeps DEF InsertOps
<1>3. CASE edit[c].op = "add" /\ AddSynonym(c)
  <2>1. /\ sets' = sets /\ Ends(c)
        /\ pairs' = [pairs EXCEPT ![edit[c].set][edit[c].pair] = "active"]
    BY <1>3 DEF AddSynonym
  <2>2. pairs' \in [Versions -> [Terms -> PairStates]]
    BY <2>1 DEF DictInv, DictTypes, PairStates
  <2>3. \A w \in Versions \ {edit[c].set} : pairs'[w] = pairs[w]
    BY <2>1 DEF DictInv, DictTypes
  <2> QED BY <1>3, <2>1, <2>2, <2>3, PairWriteKeeps DEF PairOps
<1>4. CASE UpdateSynonym(c)
  <2> DEFINE v == edit[c].set
             p == edit[c].pair
  <2>1. PICK t \in Terms :
          pairs' = [pairs EXCEPT ![v][t] = pairs[v][p], ![v][p] = "absent"]
    BY <1>4 DEF UpdateSynonym
  <2>2. v \in Versions /\ p \in Terms /\ pairs[v][p] \in PairStates
    BY <1>4 DEF UpdateSynonym, DictInv, DictTypes, SetsHeld, PairOps, Stored, EditRow
  <2>3. pairs' \in [Versions -> [Terms -> PairStates]]
    BY <2>1, <2>2 DEF DictInv, DictTypes, PairStates
  <2>4. \A w \in Versions \ {v} : pairs'[w] = pairs[w]
    BY <2>1, <2>2 DEF DictInv, DictTypes
  <2> QED BY <1>4, <2>3, <2>4, PairWriteKeeps DEF PairOps, UpdateSynonym
<1>5. CASE ChangePair(c)
  <2>1. /\ edit[c].op \in {"enable", "disable", "delete"} /\ sets' = sets /\ Ends(c)
        /\ \E s \in PairStates : pairs' = [pairs EXCEPT ![edit[c].set][edit[c].pair] = s]
    BY <1>5 DEF ChangePair, PairStates
  <2>2. PICK s \in PairStates : pairs' = [pairs EXCEPT ![edit[c].set][edit[c].pair] = s]
    BY <2>1
  <2>3. pairs \in [Versions -> [Terms -> PairStates]]
    BY DEF DictInv, DictTypes
  <2>4. pairs' \in [Versions -> [Terms -> PairStates]]
    BY <2>2, <2>3
  <2>5. \A w \in Versions \ {edit[c].set} : pairs'[w] = pairs[w]
    BY <2>2, <2>3
  <2> QED BY <2>1, <2>4, <2>5, PairWriteKeeps DEF PairOps
<1> QED BY <1>1, <1>2, <1>3, <1>4, <1>5 DEF AddSynonym

LEMMA ChangeSetKeeps ==
  ASSUME DictInv, NEW c \in Curators, ChangeSet(c)
  PROVE  DictInv'
<1> DEFINE v == edit[c].set
<1>1. /\ edit[c].op \in SetOps /\ Ends(c) /\ pairs' = pairs
      /\ sets' = [sets EXCEPT ![v].active = edit[c].op = "enableSet",
                              ![v].deleted = edit[c].op = "deleteSet"]
      /\ edit[c].op = "deleteSet" => sets[v].status = "DRAFT" /\ pairs[v] = NoPairs
  BY DEF ChangeSet, SetOps
<1>2. v \in Stored /\ ~sets[v].deleted /\ v \in Versions
  BY <1>1 DEF DictInv, SetsHeld, Stored
<1>3. /\ sets' \in [Versions -> SetRow]
      /\ \A w \in Versions \ {v} : sets'[w] = sets[w]
      /\ sets'[v].status = sets[v].status
      /\ sets'[v].deleted => edit[c].op = "deleteSet"
  <2>1. \A b \in BOOLEAN, e \in BOOLEAN :
          LET s == [sets EXCEPT ![v].active = b, ![v].deleted = e]
          IN /\ s \in [Versions -> SetRow] /\ s[v].status = sets[v].status
             /\ s[v].deleted = e
             /\ \A w \in Versions \ {v} : s[w] = sets[w]
    <3>1. sets \in [Versions -> SetRow] /\ v \in Versions
      BY <1>2 DEF DictInv, DictTypes
    <3> QED BY <3>1 DEF SetRow
  <2> QED BY <1>1, <2>1, Zenon
<1>4. Stored' = Stored /\ Drafts' \subseteq Drafts
  <2>1. \A w \in Versions : sets'[w].status = sets[w].status
    BY <1>3
  <2>2. Stored' = Stored
    BY <2>1 DEF Stored, Exists
  <2>3. \A w \in Stored : ~sets'[w].deleted => ~sets[w].deleted
    BY <1>2, <1>3 DEF Stored
  <2> QED BY <2>1, <2>2, <2>3 DEF Drafts, Stored
<1>5. OneOfEach'
  <2>1. \A w \in Stored : sets'[w].status = sets[w].status
    BY <1>3 DEF Stored
  <2>2. \A w \in Stored :
          sets'[w].deleted => sets'[w].status = "DRAFT" /\ pairs'[w] = NoPairs
    BY <1>1, <1>3, <2>1 DEF DictInv, OneOfEach, Stored
  <2>3. \A x, w \in Drafts' : x = w
    BY <1>4 DEF DictInv, OneOfEach
  <2>4. \A x, w \in Stored' :
          sets'[x].status = "ACTIVE" /\ sets'[w].status = "ACTIVE" => x = w
    BY <1>4, <2>1 DEF DictInv, OneOfEach
  <2>5. \A w \in Stored' : sets'[w].status = "ACTIVE" => ActivePairs(w)' # {}
    BY <1>1, <1>4, <2>1 DEF DictInv, OneOfEach, ActivePairs
  <2> QED BY <1>4, <2>2, <2>3, <2>4, <2>5, Zenon DEF OneOfEach, NoPairs
<1>6. /\ \A w \in Stored : w # v /\ sets[w].status # "ACTIVE" => sets'[w] = sets[w]
      /\ \A w \in Stored : w # v => sets'[w].deleted = sets[w].deleted
  BY <1>3 DEF Stored
<1> QED BY <1>1, <1>3, <1>4, <1>5, <1>6, SetWriteKeeps

LEMMA ActivationKeeps ==
  ASSUME DictInv, NEW c \in Curators, ActivateSynonymSet(c)
  PROVE  DictInv'
<1>0. PICK v \in Stored : v = edit[c].set /\ ~sets[v].deleted /\ v \in Versions
  BY DEF ActivateSynonymSet, DictInv, SetsHeld, SetOps, Stored
<1>1. /\ edit[c].op \in SetOps /\ Ends(c) /\ pairs' = pairs
      /\ sets[v].status = "DRAFT" /\ ActivePairs(v) # {}
      /\ sets' = [w \in Versions |->
                    IF w = v THEN [sets[w] EXCEPT !.status = "ACTIVE"]
                    ELSE IF sets[w].status = "ACTIVE" THEN [sets[w] EXCEPT !.status = "ARCHIVED"]
                    ELSE sets[w]]
  BY <1>0 DEF ActivateSynonymSet, SetOps
<1>2. v \in Stored /\ ~sets[v].deleted /\ v \in Versions
  BY <1>0
<1>3. sets' \in [Versions -> SetRow]
  BY <1>1 DEF DictInv, DictTypes, SetRow
<1>4. /\ sets'[v].status = "ACTIVE"
      /\ \A w \in Versions : sets'[w].deleted = sets[w].deleted
      /\ \A w \in Versions \ {v} :
           /\ sets[w].status # "ACTIVE" => sets'[w] = sets[w]
           /\ sets[w].status = "ACTIVE" => sets'[w].status = "ARCHIVED"
  BY <1>1, <1>2 DEF DictInv, DictTypes, SetRow
<1>5. Stored' = Stored /\ Drafts' \subseteq Drafts
  <2>1. \A w \in Versions : sets'[w].status # "none" <=> sets[w].status # "none"
    BY <1>1, <1>2, <1>4
  <2>2. Stored' = Stored
    BY <2>1 DEF Stored, Exists
  <2> QED BY <2>2, <1>4 DEF Drafts, Stored
<1>6. OneOfEach'
  <2>1. \A w \in Stored' : sets'[w].status = "ACTIVE" <=> w = v
    BY <1>2, <1>4, <1>5 DEF Stored
  <2>2. ActivePairs(v)' # {}
    BY <1>1 DEF ActivePairs
  <2>3. \A w \in Stored :
          sets'[w].deleted => sets'[w].status = "DRAFT" /\ pairs'[w] = NoPairs
    BY <1>1, <1>2, <1>4 DEF DictInv, OneOfEach, Stored
  <2>4. \A x, w \in Drafts' : x = w
    BY <1>5 DEF DictInv, OneOfEach
  <2>5. \A w \in Stored' : sets'[w].status = "ACTIVE" => ActivePairs(w)' # {}
    BY <2>1, <2>2
  <2> QED BY <1>5, <2>1, <2>3, <2>4, <2>5, Zenon DEF OneOfEach, NoPairs
<1>7. /\ \A w \in Stored : w # v /\ sets[w].status # "ACTIVE" => sets'[w] = sets[w]
      /\ \A w \in Stored : w # v => sets'[w].deleted = sets[w].deleted
  BY <1>4 DEF Stored
<1> QED BY <1>0, <1>1, <1>3, <1>5, <1>6, <1>7, SetWriteKeeps

-----------------------------------------------------------------------------
LEMMA DictionaryInitially == DictionaryInit => DictInv
<1> SUFFICES ASSUME DictionaryInit PROVE DictInv
  OBVIOUS
<1> USE LastSetAssumption, TermsAssumption
<1>1. DictTypes
  BY DEF DictionaryInit, DictTypes, NoSet, NoEdit, SetRow, EditRow, PairStates, Gap
<1>2. Stored \subseteq {1} /\ Drafts = {} /\ (Stored # {} => SeedSet # {} /\ Stored = {1})
  BY DEF DictionaryInit, Stored, Exists, NoSet, Drafts, Versions
<1>3. Numbered
  <2>1. CASE Stored = {}
    BY <2>1 DEF Numbered
  <2>2. CASE Stored = {1}
    BY <2>2 DEF Numbered
  <2> QED BY <1>2, <2>1, <2>2
<1>4. RowsApart /\ InsertersAlone /\ SetsHeld
  BY DEF DictionaryInit, RowsApart, InsertersAlone, SetsHeld, NoEdit, InsertOps, PairOps,
     SetOps
<1>5. OneOfEach
  <2>1. \A v \in Stored : v = 1 /\ SeedSet # {} /\ 1 \in Versions
    BY <1>2 DEF Versions
  <2>2. \A v \in Stored : ActivePairs(v) = SeedSet /\ ~sets[v].deleted
    BY <2>1 DEF DictionaryInit, ActivePairs
  <2> QED BY <1>2, <2>1, <2>2 DEF OneOfEach
<1> QED BY <1>1, <1>3, <1>4, <1>5 DEF DictInv

LEMMA DictionarySteps ==
  ASSUME DictInv, [DictionaryNext]_dictionaryVars
  PROVE  DictInv'
<1>1. CASE DictionaryNext
  <2>1. PICK c \in Curators :
          \/ BeginSet(c) \/ BeginPair(c) \/ BeginOnSet(c) \/ BeginOnPair(c) \/ GiveUp(c)
          \/ CreateSynonymSet(c) \/ AddSynonym(c) \/ UpdateSynonym(c)
          \/ ChangePair(c) \/ ChangeSet(c) \/ ActivateSynonymSet(c)
    BY <1>1 DEF DictionaryNext
  <2>2. CASE GiveUp(c)
    <3>1. sets' = sets /\ pairs' = pairs /\ Ends(c)
      BY <2>2 DEF GiveUp
    <3>2. Stored' = Stored /\ Drafts' = Drafts
      BY <3>1 DEF Stored, Drafts, Exists
    <3>3. \A d \in Curators : edit'[d].op # "none" =>
            edit'[d] = edit[d] /\ locked'[d] = locked[d]
      BY <3>1, EndedRequest
    <3>4. DictTypes' /\ RowsApart'
      BY <3>1, EndedRequest DEF DictInv, DictTypes
    <3>5. InsertersAlone'
      BY <3>2, <3>3 DEF DictInv, InsertersAlone, InsertOps
    <3>6. SetsHeld'
      BY <3>1, <3>2, <3>3 DEF DictInv, SetsHeld, PairOps, SetOps
    <3>7. OneOfEach' /\ Numbered'
      BY <3>1, <3>2 DEF DictInv, OneOfEach, Numbered, ActivePairs, NoPairs
    <3> QED BY <3>4, <3>5, <3>6, <3>7 DEF DictInv
  <2> QED BY <2>1, <2>2, BeginsKeep, PairWritesKeep, ChangeSetKeeps, ActivationKeeps
<1>2. CASE UNCHANGED dictionaryVars
  BY <1>2 DEF dictionaryVars, DictInv, DictTypes, Numbered, RowsApart, InsertersAlone,
     SetsHeld, OneOfEach, Stored, Drafts, Exists, ActivePairs, NoPairs
<1> QED BY <1>1, <1>2

LEMMA AtMostOne ==
  ASSUME NEW S, \A x, y \in S : x = y
  PROVE  Cardinality(S) <= 1
<1>1. CASE S = {}
  BY <1>1, FS_EmptySet
<1>2. CASE S # {}
  <2>1. PICK x \in S : S = {x}
    BY <1>2
  <2> QED BY <2>1, FS_Singleton
<1> QED BY <1>1, <1>2

LEMMA WholeDictionary == DictInv => DictionaryTypeOK /\ DictionaryStaysWhole
<1> SUFFICES ASSUME DictInv PROVE DictionaryTypeOK /\ DictionaryStaysWhole
  OBVIOUS
<1>1. DictionaryTypeOK
  BY DEF DictInv, DictTypes, DictionaryTypeOK, SetRow, EditRow, InsertOps, PairOps, SetOps
<1>2. Cardinality(Drafts) <= 1
  BY AtMostOne DEF DictInv, OneOfEach
<1>3. Cardinality({v \in Stored : sets[v].status = "ACTIVE"}) <= 1
  <2> DEFINE S == {v \in Stored : sets[v].status = "ACTIVE"}
  <2>1. \A v, w \in S : v = w
    BY DEF DictInv, OneOfEach
  <2> HIDE DEF S
  <2>2. Cardinality(S) <= 1
    BY <2>1, AtMostOne
  <2> QED BY <2>2 DEF S
<1>4. Cardinality({p[1] : p \in Synonyms}) <= 1
  <2> DEFINE S == {p[1] : p \in Synonyms}
  <2>1. \A v \in S : v \in Stored /\ sets[v].status = "ACTIVE"
    BY DEF Synonyms
  <2>2. \A v, w \in S : v = w
    BY <2>1 DEF DictInv, OneOfEach
  <2> HIDE DEF S
  <2>3. Cardinality(S) <= 1
    BY <2>2, AtMostOne
  <2> QED BY <2>3 DEF S
<1>5. /\ \A v \in Stored : sets[v].status = "ACTIVE" => ActivePairs(v) # {}
      /\ \A v \in Stored : sets[v].deleted => sets[v].status = "DRAFT" /\ pairs[v] = NoPairs
  BY DEF DictInv, OneOfEach
<1> QED BY <1>1, <1>2, <1>3, <1>4, <1>5 DEF DictionaryStaysWhole

-----------------------------------------------------------------------------
(***************************************************************************)
(* The forms that several people edit                                      *)
(***************************************************************************)
HookSources == {"mount", "merge", "earlier merge"}
Hooks == [base : Revisions, source : HookSources,
          conflict : [pending : BOOLEAN, revision : Revisions, here : BOOLEAN]]
FormRows == [open : BOOLEAN, saving : BOOLEAN, shown : Revisions]
Letters == [by : Editors, base : Revisions, shown : Revisions, source : HookSources,
            for : {"form", "page", "nobody"}, answer : {"none", "saved", "conflict", "error"}]

EditTypes ==
  /\ screen \in {"group", "dialog", "card"}
  /\ row \in [Settings \cup {Record} -> [revision : 1..MaxRevision, alive : BOOLEAN]]
  /\ page \in [Editors -> Revisions]
  /\ hook \in [Editors -> Hooks]
  /\ form \in [Editors -> FormRows]
  /\ mail \subseteq Letters

\* The fields of an open form were read at the revision its hook would send.  On a
\* card the hook has the revision of the page, or of choices made in this opening of
\* its dialog, or of choices made in an earlier one; only the last breaks the rule.
FormAgrees(e) ==
  /\ form[e].open /\ hook[e].source # "earlier merge" => form[e].shown = hook[e].base
  /\ screen = "card" /\ hook[e].source = "mount" => hook[e].base = page[e]
  /\ screen = "card" /\ hook[e].source = "merge" => form[e].open
  /\ screen # "card" =>
       hook[e].source # "earlier merge" /\ (hook[e].conflict.pending => hook[e].conflict.here)
  /\ hook[e].conflict.here => form[e].open

SaveAgrees(m) ==
  /\ m.answer = "none" /\ m.source # "earlier merge" => m.shown = m.base
  /\ m.answer = "none" /\ screen # "card" => m.source # "earlier merge"
  /\ m.for = "form" => form[m.by].open

EditInv ==
  /\ EditTypes
  /\ \A e \in Editors : FormAgrees(e)
  /\ \A m \in mail : SaveAgrees(m)

-----------------------------------------------------------------------------
LEMMA RevisionsKnown ==
  ASSUME EditTypes
  PROVE  /\ Oldest \in Revisions /\ Current \in Revisions
         /\ NoHook \in Hooks /\ FirstHook \in Hooks /\ FirstForm \in FormRows
         /\ \A from \in Revisions : Mounted(from) \in Hooks
<1>1. Oldest \in Revisions
  BY RevisionAssumption DEF Oldest, Revisions
<1>2. Current \in Revisions
  BY DEF EditTypes, Current, Revisions
<1>3. ASSUME NEW from \in Revisions PROVE Mounted(from) \in Hooks
  BY <1>1 DEF Mounted, NoConflict, Hooks, HookSources
<1>4. NoHook \in Hooks /\ FirstHook \in Hooks
  BY <1>1, <1>2, <1>3 DEF NoHook, FirstHook
<1>5. FirstForm \in FormRows
  <2>1. PICK shown \in Revisions : shown = IF screen = "group" THEN Current ELSE Oldest
    BY <1>1, <1>2
  <2> QED BY <2>1 DEF FirstForm, FormRows
<1> QED BY <1>1, <1>2, <1>3, <1>4, <1>5

\* A letter that only changes its addressee, in a step that leaves the form of an
\* editor whose letter is to the form open.
LEMMA LetterKeeps ==
  ASSUME EditInv, NEW m \in mail, NEW q, NEW to \in {"form", "page", "nobody"},
         q = m \/ q = [m EXCEPT !.for = to], screen' = screen,
         q.for = "form" => form'[m.by].open
  PROVE  q \in Letters /\ SaveAgrees(q)'
<1>1. m \in Letters /\ SaveAgrees(m)
  BY DEF EditInv, EditTypes
<1>2. /\ q \in Letters /\ q.by = m.by /\ q.base = m.base /\ q.shown = m.shown
      /\ q.source = m.source /\ q.answer = m.answer
  <2>1. CASE q = m
    BY <1>1, <2>1
  <2>2. CASE q = [m EXCEPT !.for = to]
    BY <1>1, <2>2 DEF Letters
  <2> QED BY <2>1, <2>2
<1> QED BY <1>1, <1>2 DEF SaveAgrees

\* An editor whose hook, form and page stay agrees as before.
LEMMA OthersAgree ==
  ASSUME EditInv, NEW d \in Editors, screen' = screen,
         hook'[d] = hook[d], form'[d] = form[d], page'[d] = page[d]
  PROVE  FormAgrees(d)'
BY DEF EditInv, FormAgrees

LEMMA LoadedKeeps ==
  ASSUME EditInv, NEW e \in Editors, NEW letters \in SUBSET mail, Loaded(e, letters)
  PROVE  EditInv'
<1>1. /\ screen' = screen /\ row' = row
      /\ page' = [page EXCEPT ![e] = Current]
      /\ hook' = [hook EXCEPT ![e] = FirstHook]
      /\ form' = [form EXCEPT ![e] = FirstForm]
      /\ mail' = {IF m.by = e THEN [m EXCEPT !.for = "nobody"] ELSE m : m \in letters}
  BY Zenon DEF Loaded
<1>2. EditTypes /\ Oldest \in Revisions /\ Current \in Revisions
      /\ FirstHook \in Hooks /\ FirstForm \in FormRows
  BY RevisionsKnown DEF EditInv
<1>3. ASSUME NEW q \in mail' PROVE q \in Letters /\ SaveAgrees(q)'
  <2>1. PICK m \in letters : q = IF m.by = e THEN [m EXCEPT !.for = "nobody"] ELSE m
    BY <1>1
  <2>2. m \in Letters /\ SaveAgrees(m)
    BY <1>2 DEF EditTypes, EditInv
  <2>3. CASE m.by = e
    <3>1. q = [m EXCEPT !.for = "nobody"] /\ q.for = "nobody"
      BY <2>1, <2>2, <2>3 DEF Letters
    <3> QED BY <1>1, <3>1, LetterKeeps
  <2>4. CASE m.by # e
    <3>1. q = m /\ m.by \in Editors /\ form'[m.by] = form[m.by]
      BY <1>1, <1>2, <2>1, <2>2, <2>4 DEF Letters, EditTypes
    <3> QED BY <1>1, <2>2, <3>1, LetterKeeps DEF SaveAgrees
  <2> QED BY <2>3, <2>4
<1>4. EditTypes'
  BY <1>1, <1>2, <1>3 DEF EditTypes
<1>5. ASSUME NEW d \in Editors PROVE FormAgrees(d)'
  <2>1. CASE d = e
    <3>1. hook'[e] = FirstHook /\ form'[e] = FirstForm /\ page'[e] = Current
      BY <1>1, <1>2 DEF EditTypes
    <3>2. CASE screen = "dialog"
      <4>1. /\ FirstHook.source = "mount" /\ ~FirstHook.conflict.pending
            /\ ~FirstHook.conflict.here /\ ~FirstForm.open
        BY <3>2 DEF FirstHook, NoHook, Mounted, NoConflict, FirstForm
      <4> QED BY <1>1, <2>1, <3>1, <3>2, <4>1 DEF FormAgrees
    <3>3. CASE screen # "dialog"
      <4>1. /\ FirstHook.source = "mount" /\ ~FirstHook.conflict.pending
            /\ ~FirstHook.conflict.here /\ FirstHook.base = Current
            /\ FirstForm.open => FirstForm.shown = Current
        BY <3>3 DEF FirstHook, Mounted, NoConflict, FirstForm
      <4> QED BY <1>1, <2>1, <3>1, <4>1 DEF FormAgrees
    <3> QED BY <3>2, <3>3
  <2>2. CASE d # e
    BY <1>1, <1>2, <2>2, OthersAgree DEF EditTypes
  <2> QED BY <2>1, <2>2
<1> QED BY <1>3, <1>4, <1>5 DEF EditInv

LEMMA OpenKeeps ==
  ASSUME EditInv, NEW e \in Editors, Open(e)
  PROVE  EditInv'
<1>1. /\ screen # "group" /\ ~form[e].open
      /\ form' = [form EXCEPT ![e].open = TRUE, ![e].shown = page[e]]
      /\ hook' = IF screen = "dialog" THEN [hook EXCEPT ![e] = Mounted(page[e])] ELSE hook
      /\ screen' = screen /\ row' = row /\ page' = page /\ mail' = mail
  BY DEF Open
<1>2. EditTypes /\ page[e] \in Revisions /\ Mounted(page[e]) \in Hooks /\ FormAgrees(e)
      /\ form[e] \in FormRows
  BY RevisionsKnown DEF EditInv, EditTypes
<1>3. /\ form' \in [Editors -> FormRows]
      /\ form'[e].open /\ form'[e].shown = page[e]
      /\ \A d \in Editors : d # e => form'[d] = form[d]
  BY <1>1, <1>2 DEF EditTypes, FormRows
<1>4. /\ hook' \in [Editors -> Hooks]
      /\ \A d \in Editors : d # e => hook'[d] = hook[d]
      /\ hook'[e] = IF screen = "dialog" THEN Mounted(page[e]) ELSE hook[e]
  BY <1>1, <1>2 DEF EditTypes
<1>5. FormAgrees(e)'
  <2>1. CASE screen = "dialog"
    <3>1. /\ Mounted(page[e]).base = page[e] /\ Mounted(page[e]).source = "mount"
          /\ ~Mounted(page[e]).conflict.pending /\ ~Mounted(page[e]).conflict.here
      BY DEF Mounted, NoConflict
    <3> QED BY <1>1, <1>3, <1>4, <2>1, <3>1 DEF FormAgrees
  <2>2. CASE screen = "card"
    BY <1>1, <1>2, <1>3, <1>4, <2>2 DEF FormAgrees, EditTypes, Hooks, HookSources
  <2> QED BY <1>1, <1>2, <2>1, <2>2 DEF EditTypes
<1>6. \A d \in Editors : FormAgrees(d)'
  BY <1>1, <1>3, <1>4, <1>5, OthersAgree
<1>7. \A m \in mail' : SaveAgrees(m)'
  <2> SUFFICES ASSUME NEW m \in mail PROVE SaveAgrees(m)'
    BY <1>1
  <2>1. m \in Letters /\ SaveAgrees(m) /\ m.by \in Editors
    BY <1>2 DEF EditTypes, EditInv, Letters
  <2>2. form[m.by].open => form'[m.by].open
    BY <1>3, <2>1
  <2> QED BY <1>1, <2>1, <2>2 DEF SaveAgrees
<1>8. EditTypes'
  BY <1>1, <1>2, <1>3, <1>4 DEF EditTypes
<1> QED BY <1>6, <1>7, <1>8 DEF EditInv

LEMMA ClosedHook ==
  ASSUME NEW h \in Hooks
  PROVE  /\ Closed(h) \in Hooks /\ Closed(h).base = h.base /\ ~Closed(h).conflict.here
         /\ Closed(h).source # "merge"
         /\ Closed(h).source = "mount" => h.source = "mount"
<1>1. PICK k : k = [h.conflict EXCEPT !.here = FALSE]
  OBVIOUS
<1>2. k \in [pending : BOOLEAN, revision : Revisions, here : BOOLEAN] /\ ~k.here
  BY <1>1 DEF Hooks
<1>3. PICK s \in HookSources : s = IF h.source = "merge" THEN "earlier merge" ELSE h.source
  BY DEF Hooks, HookSources
<1>4. Closed(h) = [base |-> h.base, conflict |-> k, source |-> s]
  BY <1>1, <1>3, Zenon DEF Closed
<1>5. Closed(h) \in Hooks /\ Closed(h).base = h.base /\ ~Closed(h).conflict.here
  BY <1>2, <1>4 DEF Hooks
<1>6. Closed(h).source = s
  BY <1>4
<1> QED BY <1>3, <1>5, <1>6 DEF HookSources

LEMMA CancelKeeps ==
  ASSUME EditInv, NEW e \in Editors, Cancel(e)
  PROVE  EditInv'
<1>1. /\ screen # "group" /\ screen' = screen /\ row' = row /\ page' = page
      /\ form' = [form EXCEPT ![e] = [open |-> FALSE, shown |-> Oldest,
                                      saving |-> @.saving /\ screen = "card"]]
      /\ hook' = [hook EXCEPT ![e] =
                    IF screen = "dialog" THEN NoHook ELSE Closed(@)]
      /\ mail' = Redirected(e, {"form"}, "page")
  BY Zenon DEF Cancel
<1>2. EditTypes /\ Oldest \in Revisions /\ NoHook \in Hooks /\ FormAgrees(e)
      /\ form[e] \in FormRows /\ hook[e] \in Hooks
  BY RevisionsKnown DEF EditInv, EditTypes
<1>3. /\ form' \in [Editors -> FormRows] /\ ~form'[e].open
      /\ \A d \in Editors : d # e => form'[d] = form[d]
  BY <1>1, <1>2 DEF EditTypes, FormRows
<1>4. PICK h : /\ h = Closed(hook[e])
               /\ h \in Hooks /\ h.base = hook[e].base /\ ~h.conflict.here
               /\ h.source # "merge" /\ (h.source = "mount" => hook[e].source = "mount")
  BY <1>2, ClosedHook
<1>5. /\ hook' \in [Editors -> Hooks]
      /\ \A d \in Editors : d # e => hook'[d] = hook[d]
      /\ hook'[e] = IF screen = "dialog" THEN NoHook ELSE h
  BY <1>1, <1>2, <1>4 DEF EditTypes
<1>6. FormAgrees(e)'
  <2>1. CASE screen = "dialog"
    <3>1. NoHook.source = "mount" /\ ~NoHook.conflict.pending /\ ~NoHook.conflict.here
      BY DEF NoHook, Mounted, NoConflict
    <3> QED BY <1>1, <1>3, <1>5, <2>1, <3>1 DEF FormAgrees
  <2>2. CASE screen = "card"
    BY <1>1, <1>2, <1>3, <1>4, <1>5, <2>2 DEF FormAgrees
  <2> QED BY <1>1, <1>2, <2>1, <2>2 DEF EditTypes
<1>7. \A d \in Editors : FormAgrees(d)'
  BY <1>1, <1>3, <1>5, <1>6, OthersAgree
<1>8. ASSUME NEW q \in mail' PROVE q \in Letters /\ SaveAgrees(q)'
  <2>1. PICK m \in mail :
          q = IF m.by = e /\ m.for \in {"form"} THEN [m EXCEPT !.for = "page"] ELSE m
    BY <1>1 DEF Redirected
  <2>2. m \in Letters /\ SaveAgrees(m) /\ m.by \in Editors
    BY <1>2 DEF EditTypes, EditInv, Letters
  <2>3. CASE m.by = e /\ m.for \in {"form"}
    <3>1. q = [m EXCEPT !.for = "page"] /\ q.for = "page"
      BY <2>1, <2>2, <2>3 DEF Letters
    <3> QED BY <1>1, <3>1, LetterKeeps
  <2>4. CASE ~(m.by = e /\ m.for \in {"form"})
    <3>1. q = m
      BY <2>1, <2>4
    <3>2. q.for = "form" => form'[m.by].open
      BY <1>3, <2>2, <2>4, <3>1 DEF SaveAgrees
    <3> QED BY <1>1, <3>1, <3>2, LetterKeeps
  <2> QED BY <2>3, <2>4
<1>9. EditTypes'
  BY <1>1, <1>2, <1>3, <1>5, <1>8 DEF EditTypes
<1> QED BY <1>7, <1>8, <1>9 DEF EditInv

LEMMA SubmitKeeps ==
  ASSUME EditInv, NEW e \in Editors, Submit(e)
  PROVE  EditInv'
<1>1. PICK q : /\ q = [by |-> e, base |-> hook[e].base, shown |-> form[e].shown,
                       source |-> hook[e].source, for |-> "form", answer |-> "none"]
               /\ mail' = mail \cup {q}
  BY Zenon DEF Submit
<1>2. /\ form[e].open /\ form' = [form EXCEPT ![e].saving = TRUE]
      /\ screen' = screen /\ row' = row /\ page' = page /\ hook' = hook
  BY DEF Submit
<1>3. EditTypes /\ FormAgrees(e) /\ form[e] \in FormRows /\ hook[e] \in Hooks
  BY DEF EditInv, EditTypes
<1>4. /\ form' \in [Editors -> FormRows]
      /\ \A d \in Editors : form'[d].open = form[d].open /\ form'[d].shown = form[d].shown
  BY <1>2, <1>3 DEF EditTypes, FormRows
<1>5. /\ q \in Letters /\ q.by = e /\ q.base = hook[e].base /\ q.shown = form[e].shown
      /\ q.source = hook[e].source
  BY <1>1, <1>3 DEF Letters, FormRows, Hooks
<1>6. SaveAgrees(q)'
  BY <1>2, <1>3, <1>4, <1>5 DEF SaveAgrees, FormAgrees
<1>7. \A m \in mail : SaveAgrees(m)'
  <2> TAKE m \in mail
  <2>1. m \in Letters /\ SaveAgrees(m) /\ m.by \in Editors
    BY <1>3 DEF EditTypes, EditInv, Letters
  <2> QED BY <1>2, <1>4, <2>1 DEF SaveAgrees
<1>8. \A d \in Editors : FormAgrees(d)'
  BY <1>2, <1>4 DEF EditInv, FormAgrees
<1>9. EditTypes'
  BY <1>1, <1>2, <1>3, <1>4, <1>5 DEF EditTypes
<1> QED BY <1>1, <1>6, <1>7, <1>8, <1>9 DEF EditInv

LEMMA MergeKeeps ==
  ASSUME EditInv, NEW e \in Editors, Merge(e)
  PROVE  EditInv'
<1>1. /\ form[e].open /\ hook[e].conflict.pending
      /\ form' = [form EXCEPT ![e].shown =
                    IF hook[e].conflict.here THEN hook[e].conflict.revision ELSE @]
      /\ hook' = [hook EXCEPT ![e] =
                    [base |-> @.conflict.revision, conflict |-> NoConflict,
                     source |-> IF @.conflict.here THEN "merge" ELSE "earlier merge"]]
      /\ screen' = screen /\ row' = row /\ page' = page /\ mail' = mail
  BY DEF Merge
<1>2. EditTypes /\ FormAgrees(e) /\ form[e] \in FormRows /\ hook[e] \in Hooks
      /\ Oldest \in Revisions
  BY RevisionsKnown DEF EditInv, EditTypes
<1>3. /\ form' \in [Editors -> FormRows] /\ form'[e].open
      /\ hook[e].conflict.here => form'[e].shown = hook[e].conflict.revision
      /\ \A d \in Editors : d # e => form'[d] = form[d]
  BY <1>1, <1>2 DEF EditTypes, FormRows, Hooks
<1>4. PICK s \in {"merge", "earlier merge"} :
        s = IF hook[e].conflict.here THEN "merge" ELSE "earlier merge"
  OBVIOUS
<1>5. PICK h : h = [base |-> hook[e].conflict.revision, conflict |-> NoConflict, source |-> s]
  OBVIOUS
<1>6. /\ h \in Hooks /\ h.base = hook[e].conflict.revision /\ h.source = s
      /\ ~h.conflict.pending /\ ~h.conflict.here
  BY <1>2, <1>5 DEF Hooks, HookSources, NoConflict
<1>7. /\ hook' \in [Editors -> Hooks] /\ hook'[e] = h
      /\ \A d \in Editors : d # e => hook'[d] = hook[d]
  <2>1. hook' = [hook EXCEPT ![e] = h]
    BY <1>1, <1>4, <1>5, Zenon
  <2> QED BY <1>2, <1>6, <2>1 DEF EditTypes
<1>8. FormAgrees(e)'
  BY <1>1, <1>2, <1>3, <1>4, <1>6, <1>7 DEF FormAgrees
<1>9. \A d \in Editors : FormAgrees(d)'
  BY <1>1, <1>3, <1>7, <1>8, OthersAgree
<1>10. \A m \in mail : SaveAgrees(m)'
  <2> TAKE m \in mail
  <2>1. m \in Letters /\ SaveAgrees(m) /\ m.by \in Editors
    BY <1>2 DEF EditTypes, EditInv, Letters
  <2>2. form[m.by].open => form'[m.by].open
    BY <1>3, <2>1
  <2> QED BY <1>1, <2>1, <2>2 DEF SaveAgrees
<1>11. EditTypes'
  BY <1>1, <1>2, <1>3, <1>7 DEF EditTypes
<1> QED BY <1>1, <1>9, <1>10, <1>11 DEF EditInv

\* The server answers a save, or the way there and back loses it.
LEMMA AnsweredKeeps ==
  ASSUME EditInv, NEW m \in mail, NEW answer \in {"saved", "conflict", "error"},
         Answered(m, answer), UNCHANGED <<screen, page, hook, form>>,
         row' \in [Settings \cup {Record} -> [revision : 1..MaxRevision, alive : BOOLEAN]]
  PROVE  EditInv'
<1>1. PICK q : q = [m EXCEPT !.answer = answer, !.shown = Oldest, !.source = "mount",
                             !.base = IF answer = "conflict" THEN Current ELSE Oldest]
  OBVIOUS
<1>2. mail' = (mail \ {m}) \cup {q}
  BY <1>1, Zenon DEF Answered
<1>3. PICK to : to = IF answer = "conflict" THEN Current ELSE Oldest
  OBVIOUS
<1>4. q = [m EXCEPT !.answer = answer, !.shown = Oldest, !.source = "mount", !.base = to]
  BY <1>1, <1>3, Zenon
<1>5. EditTypes /\ to \in Revisions /\ Oldest \in Revisions /\ m \in Letters /\ SaveAgrees(m)
  BY <1>3, RevisionsKnown DEF EditInv, EditTypes
<1>6. q \in Letters /\ q.answer = answer /\ q.for = m.for /\ q.by = m.by
  BY <1>4, <1>5 DEF Letters, HookSources
<1>7. SaveAgrees(q)'
  BY <1>5, <1>6 DEF SaveAgrees
<1>8. \A n \in mail : SaveAgrees(n)'
  BY DEF EditInv, SaveAgrees
<1>9. \A d \in Editors : FormAgrees(d)'
  BY DEF EditInv, FormAgrees
<1>10. EditTypes'
  BY <1>2, <1>5, <1>6 DEF EditTypes
<1> QED BY <1>2, <1>7, <1>8, <1>9, <1>10 DEF EditInv

LEMMA ServerKeeps ==
  ASSUME EditInv, NEW m \in mail, Accept(m) \/ Conflict(m) \/ NotFound(m) \/ LoseMail(m)
  PROVE  EditInv'
<1>1. row \in [Settings \cup {Record} -> [revision : 1..MaxRevision, alive : BOOLEAN]]
  BY DEF EditInv, EditTypes
<1>2. CASE Accept(m)
  <2>1. /\ row' = [r \in DOMAIN row |->
                     IF r \in Editable THEN [row[r] EXCEPT !.revision = @ + 1] ELSE row[r]]
        /\ \A r \in Editable : row[r].revision < MaxRevision
        /\ Answered(m, "saved") /\ UNCHANGED <<screen, page, hook, form>>
    BY <1>2 DEF Accept
  <2>2. row' \in [Settings \cup {Record} -> [revision : 1..MaxRevision, alive : BOOLEAN]]
    <3>1. ASSUME NEW r \in Settings \cup {Record}
          PROVE  (IF r \in Editable THEN [row[r] EXCEPT !.revision = @ + 1] ELSE row[r])
                    \in [revision : 1..MaxRevision, alive : BOOLEAN]
      BY <1>1, <2>1, RevisionAssumption
    <3>2. DOMAIN row = Settings \cup {Record}
      BY <1>1
    <3> QED BY <2>1, <3>1, <3>2
  <2> QED BY <2>1, <2>2, AnsweredKeeps
<1>3. CASE Conflict(m)
  BY <1>1, <1>3, AnsweredKeeps DEF Conflict
<1>4. CASE NotFound(m)
  BY <1>1, <1>4, AnsweredKeeps DEF NotFound
<1>5. CASE LoseMail(m)
  BY <1>1, <1>5, AnsweredKeeps DEF LoseMail
<1> QED BY <1>2, <1>3, <1>4, <1>5

\* An answer is taken from the mail; at most it raises a conflict in the hook of the
\* form it was sent from, and ends the saving of that form.
LEMMA HeardKeeps ==
  ASSUME EditInv, NEW m \in mail, Capture(m) \/ Failed(m) \/ Unheard(m)
  PROVE  EditInv'
<1>1. /\ screen' = screen /\ row' = row /\ page' = page /\ mail' = mail \ {m}
      /\ form' = form \/ form' = [form EXCEPT ![m.by].saving = FALSE]
      /\ \/ hook' = hook
         \/ /\ hook' = [hook EXCEPT ![m.by].conflict =
                          [pending |-> TRUE, revision |-> m.base, here |-> m.for = "form"]]
            /\ Heard(m)
  BY DEF Capture, Failed, Unheard
<1>2. EditTypes /\ m \in Letters /\ m.by \in Editors /\ SaveAgrees(m) /\ FormAgrees(m.by)
      /\ form[m.by] \in FormRows /\ hook[m.by] \in Hooks
  BY DEF EditInv, EditTypes, Letters
<1>3. /\ form' \in [Editors -> FormRows]
      /\ \A d \in Editors : form'[d].open = form[d].open /\ form'[d].shown = form[d].shown
  <2>1. CASE form' = form
    BY <1>2, <2>1 DEF EditTypes
  <2>2. CASE form' = [form EXCEPT ![m.by].saving = FALSE]
    BY <1>2, <2>2 DEF EditTypes, FormRows
  <2> QED BY <1>1, <2>1, <2>2
<1>4. /\ hook' \in [Editors -> Hooks]
      /\ \A d \in Editors :
           /\ hook'[d].base = hook[d].base /\ hook'[d].source = hook[d].source
           /\ \/ hook'[d].conflict = hook[d].conflict
              \/ /\ d = m.by /\ Heard(m)
                 /\ hook'[d].conflict.pending /\ (hook'[d].conflict.here <=> m.for = "form")
  <2>1. CASE hook' = hook
    BY <1>2, <2>1 DEF EditTypes
  <2>2. CASE /\ hook' = [hook EXCEPT ![m.by].conflict =
                          [pending |-> TRUE, revision |-> m.base, here |-> m.for = "form"]]
             /\ Heard(m)
    <3>1. PICK here \in BOOLEAN : here <=> m.for = "form"
      OBVIOUS
    <3>2. PICK k : k = [pending |-> TRUE, revision |-> m.base, here |-> here]
      OBVIOUS
    <3>3. /\ k \in [pending : BOOLEAN, revision : Revisions, here : BOOLEAN]
          /\ k.pending /\ (k.here <=> m.for = "form")
      BY <1>2, <3>1, <3>2 DEF Letters
    <3>4. k = [pending |-> TRUE, revision |-> m.base, here |-> m.for = "form"]
      BY <3>1, <3>2, Zenon
    <3>5. hook' = [hook EXCEPT ![m.by].conflict = k]
      BY <2>2, <3>4, Zenon
    <3> QED BY <1>2, <2>2, <3>3, <3>5 DEF EditTypes, Hooks
  <2> QED BY <1>1, <2>1, <2>2
<1>5. ASSUME NEW d \in Editors PROVE FormAgrees(d)'
  <2>1. FormAgrees(d)
    BY DEF EditInv
  <2>2. CASE hook'[d].conflict = hook[d].conflict
    BY <1>1, <1>3, <1>4, <2>1, <2>2 DEF FormAgrees
  <2>3. CASE /\ d = m.by /\ Heard(m)
             /\ hook'[d].conflict.pending /\ (hook'[d].conflict.here <=> m.for = "form")
    BY <1>1, <1>2, <1>3, <1>4, <2>1, <2>3 DEF FormAgrees, SaveAgrees, Heard
  <2> QED BY <1>4, <2>2, <2>3
<1>6. \A n \in mail : SaveAgrees(n)'
  <2> TAKE n \in mail
  <2>1. n \in Letters /\ SaveAgrees(n) /\ n.by \in Editors
    BY <1>2 DEF EditTypes, EditInv, Letters
  <2> QED BY <1>1, <1>3, <2>1 DEF SaveAgrees
<1>7. EditTypes'
  BY <1>1, <1>2, <1>3, <1>4 DEF EditTypes
<1> QED BY <1>1, <1>5, <1>6, <1>7 DEF EditInv

LEMMA RowsKeep ==
  ASSUME EditInv, DeleteRecord \/ \E r \in Editable : UpdateElsewhere(r)
  PROVE  EditInv'
<1>1. /\ UNCHANGED <<screen, page, hook, form, mail>>
      /\ row \in [Settings \cup {Record} -> [revision : 1..MaxRevision, alive : BOOLEAN]]
  BY DEF DeleteRecord, UpdateElsewhere, EditInv, EditTypes
<1>2. row' \in [Settings \cup {Record} -> [revision : 1..MaxRevision, alive : BOOLEAN]]
  <2>1. CASE DeleteRecord
    BY <1>1, <2>1, RevisionAssumption DEF DeleteRecord
  <2>2. ASSUME NEW r \in Editable, UpdateElsewhere(r)
        PROVE  row' \in [Settings \cup {Record} -> [revision : 1..MaxRevision, alive : BOOLEAN]]
    BY <1>1, <2>2, RevisionAssumption DEF UpdateElsewhere, Editable
  <2> QED BY <2>1, <2>2
<1> QED BY <1>1, <1>2 DEF EditInv, EditTypes, FormAgrees, SaveAgrees

LEMMA EditInitially == EditInit => EditInv
<1> SUFFICES ASSUME EditInit PROVE EditInv
  OBVIOUS
<1>1. /\ screen \in {"group", "dialog", "card"} /\ mail = {}
      /\ row = [r \in Settings \cup {Record} |-> [revision |-> 1, alive |-> TRUE]]
      /\ page = [e \in Editors |-> Current] /\ hook = [e \in Editors |-> FirstHook]
      /\ form = [e \in Editors |-> FirstForm]
  BY DEF EditInit
<1>2. row \in [Settings \cup {Record} -> [revision : 1..MaxRevision, alive : BOOLEAN]]
  BY <1>1, RevisionAssumption
<1>3. Oldest \in Revisions /\ Current \in Revisions
  BY <1>2, RevisionAssumption DEF Oldest, Current, Revisions
<1>4. FirstHook \in Hooks /\ FirstForm \in FormRows
  <2>1. \A from \in Revisions : Mounted(from) \in Hooks
    BY <1>3 DEF Mounted, NoConflict, Hooks, HookSources
  <2>2. PICK shown \in Revisions : shown = IF screen = "group" THEN Current ELSE Oldest
    BY <1>3
  <2> QED BY <1>3, <2>1, <2>2 DEF FirstHook, NoHook, FirstForm, FormRows
<1>5. EditTypes
  BY <1>1, <1>2, <1>3, <1>4 DEF EditTypes
<1>6. /\ FirstHook.source = "mount" /\ ~FirstHook.conflict.pending /\ ~FirstHook.conflict.here
      /\ FirstForm.open => FirstForm.shown = FirstHook.base
      /\ screen = "card" => FirstHook.base = Current
  BY DEF FirstHook, NoHook, Mounted, NoConflict, FirstForm
<1>7. ASSUME NEW e \in Editors PROVE FormAgrees(e)
  BY <1>1, <1>6 DEF FormAgrees
<1> QED BY <1>1, <1>5, <1>7 DEF EditInv

LEMMA EditSteps ==
  ASSUME EditInv, [EditNext]_editVars
  PROVE  EditInv'
<1>1. ASSUME NEW e \in Editors, Visit(e) PROVE EditInv'
  BY <1>1, LoadedKeeps DEF Visit
<1>2. ASSUME NEW m \in mail, Saved(m) PROVE EditInv'
  <2>1. m.by \in Editors
    BY DEF EditInv, EditTypes, Letters
  <2> QED BY <1>2, <2>1, LoadedKeeps DEF Saved
<1>3. CASE UNCHANGED editVars
  BY <1>3 DEF editVars, EditInv, EditTypes, FormAgrees, SaveAgrees
<1> QED BY <1>1, <1>2, <1>3, OpenKeeps, CancelKeeps, SubmitKeeps, MergeKeeps, ServerKeeps,
           HeardKeeps, RowsKeep DEF EditNext

\* What the server accepts was composed from the values in the rows.
LEMMA AcceptedIsCurrent ==
  ASSUME EditInv, NEW m \in mail, Accept(m)
  PROVE  Stands(m) \/ (screen = "card" /\ m.source = "earlier merge")
<1>1. SaveAgrees(m) /\ m.answer = "none" /\ \A r \in Editable : m.base[r] = row[r].revision
  BY DEF EditInv, Accept, Stale
<1> QED BY <1>1 DEF SaveAgrees, Stands

LEMMA EditHolds == EditInv => EditTypeOK
BY DEF EditInv, EditTypes, EditTypeOK, Hooks, FormRows, Letters, HookSources

-----------------------------------------------------------------------------
(***************************************************************************)
(* The page of one law                                                     *)
(***************************************************************************)
\* The statuses the workflow reaches; AMENDED, REPEALED and SUSPENDED it does not.
Reachable == {"INBOX", "DRAFT", "IN_REVIEW", "APPROVED_FOR_PUBLISHING", "PUBLISHED", "ARCHIVED"}

LawRows == [status : Reachable, active : BOOLEAN]
TabRows == [state : RowStates(tab), text : Texts, active : BOOLEAN]
SourceRows == [state : SourceStates, active : BOOLEAN, linked : BOOLEAN]
Snapshots == [open : {TRUE}, law : LawRows, row : TabRows, source : SourceRows]

PageInv ==
  /\ tab \in Tabs /\ held \in Assignments
  /\ lawRow \in LawRows /\ record \in TabRows /\ source \in SourceRows
  /\ loaded \in [Clerks -> {ClosedPage} \cup Snapshots]
  /\ edits \in 0..MaxEdits

\* What the request r of the page g carries, and on which tab its form is.
FitsTheForm(r, p, g) ==
  /\ r.form = "metadata" => tab = "general" /\ r.text \in Texts \cup {"unsent"}
  /\ r.form = "transition" =>
       \E m \in Transitions :
         m.from = g.law.status /\ m.to = r.target /\ Permission(m.from, m.to) \in p
  /\ r.form \in {"article", "new article"} => tab = "articles" /\ r.text \in Texts
  /\ r.form \in {"structure", "new structure"} => tab = "structure" /\ r.text \in Texts
  /\ r.form \in {"annex", "new annex"} =>
       tab = "annexes" /\ r.text \in Texts /\ r.state \in RowStates("annexes") \ {"ABSENT"}
  /\ r.form \in {"relation", "new relation"} =>
       tab = "relations" /\ r.text \in Texts /\ r.state \in RelationStates
  /\ r.form = "source" => r.state \in SourceStates
  /\ r.form = "row" => tab \in {"annexes", "relations"}

LEMMA FormOffered ==
  ASSUME NEW p, NEW g, tab \in Tabs, NEW r \in Offered(p, g)
  PROVE  FitsTheForm(r, p, g)
<1> USE DEF FitsTheForm
<1>1. CASE r \in LifecycleButtons(p, g)
  <2>1. PICK a \in {"disable", "enable", "delete"} :
          \/ r = [form |-> "law", action |-> a]
          \/ r = [form |-> "row", action |-> a] /\ tab \in {"annexes", "relations"}
    BY <1>1 DEF LifecycleButtons
  <2>2. r.form = "law" \/ (r.form = "row" /\ tab \in {"annexes", "relations"})
    BY <2>1
  <2> QED BY <2>2
<1>2. CASE r \in MetadataForm(p, g) /\ tab = "general"
  <2>1. PICK t \in Texts \cup {"unsent"} : r = [form |-> "metadata", text |-> t]
    BY <1>2 DEF MetadataForm
  <2>2. r.form = "metadata" /\ r.text = t
    BY <2>1
  <2> QED BY <1>2, <2>2
<1>3. CASE r \in WorkflowActions(p, g)
  <2>1. PICK m \in Transitions :
          /\ m.from = g.law.status /\ Permission(m.from, m.to) \in p
          /\ r = [form |-> "transition", target |-> m.to]
    BY <1>3 DEF WorkflowActions
  <2>2. r.form = "transition" /\ r.target = m.to
    BY <2>1
  <2> QED BY <2>1, <2>2
<1>4. CASE r \in NewArticle(p, g) \cup ArticleEditor(p, g) /\ tab = "articles"
  <2>1. PICK t \in Texts, f \in {"article", "new article"} : r = [form |-> f, text |-> t]
    BY <1>4 DEF NewArticle, ArticleEditor
  <2>2. r.form \in {"article", "new article"} /\ r.text \in Texts
    BY <2>1
  <2> QED BY <1>4, <2>2
<1>5. CASE r \in NewStructureEditor(p) \cup StructureEditor(p, g) /\ tab = "structure"
  <2>1. PICK t \in Texts, f \in {"structure", "new structure"} : r = [form |-> f, text |-> t]
    BY <1>5 DEF NewStructureEditor, StructureEditor
  <2>2. r.form \in {"structure", "new structure"} /\ r.text \in Texts
    BY <2>1
  <2> QED BY <1>5, <2>2
<1>6. CASE r \in AnnexEditor(p, g) \cup NewAnnexEditor(p, g) /\ tab = "annexes"
  <2>1. PICK t \in Texts, s \in RowStates("annexes") \ {"ABSENT"}, f \in {"annex", "new annex"} :
          r = [form |-> f, text |-> t, state |-> s]
    <3> DEFINE Old(t, s) == [form |-> "annex", text |-> t, state |-> s]
               New(t, s) == [form |-> "new annex", text |-> t, state |-> s]
               Q == {x \in RowStates("annexes") \ {"ABSENT"} :
                       /\ g.row.state # "ABSENT" /\ "annex.update" \in p
                       /\ g.row.state = "DRAFT" \/ AnnexPermission(g.row.state) \in p
                       /\ x = g.row.state \/ (x # "DRAFT" /\ AnnexPermission(x) \in p)}
               N == {x \in {"DRAFT", "PUBLISHED"} :
                       /\ g.source.linked /\ "annex.create" \in p
                       /\ x = "DRAFT" \/ "annex.publish" \in p}
               OldOnes == {Old(t, s) : t \in Texts, s \in Q}
               NewOnes == {New(t, s) : t \in Texts, s \in N}
    <3>1. AnnexEditor(p, g) = OldOnes /\ NewAnnexEditor(p, g) = NewOnes
      BY DEF AnnexEditor, NewAnnexEditor
    <3>2. Q \cup N \subseteq RowStates("annexes") \ {"ABSENT"}
      BY DEF RowStates, AnnexDecisions
    <3> HIDE DEF Old, New, Q, N
    <3>3. ASSUME r \in OldOnes PROVE \E t \in Texts, s \in Q : r = Old(t, s)
      BY <3>3
    <3>4. ASSUME r \in NewOnes PROVE \E t \in Texts, s \in N : r = New(t, s)
      BY <3>4
    <3> HIDE DEF OldOnes, NewOnes
    <3>5. r \in OldOnes \/ r \in NewOnes
      BY <1>6, <3>1
    <3> QED BY <3>2, <3>3, <3>4, <3>5 DEF Old, New
  <2>2. r.form \in {"annex", "new annex"} /\ r.text = t /\ r.state = s
    BY <2>1
  <2> QED BY <1>6, <2>2
<1>7. CASE r \in RelationEditor(p, g) \cup NewRelationEditor(p, g) /\ tab = "relations"
  <2>1. PICK t \in Texts, y \in RelationTypes, s \in RelationStates, e \in BOOLEAN,
             f \in {"relation", "new relation"} :
          r = [form |-> f, text |-> t, type |-> y, state |-> s, evidence |-> e]
    <3> DEFINE Old(t, y, e, s) ==
                 [form |-> "relation", text |-> t, type |-> y, state |-> s, evidence |-> e]
               New(t, y, e, s) ==
                 [form |-> "new relation", text |-> t, type |-> y, state |-> s, evidence |-> e]
               E == {x \in BOOLEAN : x => g.source.linked}
               Q == {x \in RelationStates :
                       /\ g.row.state # "ABSENT" /\ "relation.update" \in p
                       /\ g.row.state = "UNREVIEWED" \/ "relation.review" \in p
                       /\ x = "UNREVIEWED" \/ "relation.review" \in p}
               N == {x \in RelationStates :
                       /\ "relation.create" \in p
                       /\ x = "UNREVIEWED" \/ "relation.review" \in p}
               OldOnes == {Old(t, y, e, s) : t \in Texts, y \in RelationTypes, e \in E, s \in Q}
               NewOnes == {New(t, y, e, s) : t \in Texts, y \in RelationTypes, e \in E, s \in N}
    <3>1. RelationEditor(p, g) = OldOnes /\ NewRelationEditor(p, g) = NewOnes
      BY DEF RelationEditor, NewRelationEditor
    <3>2. Q \cup N \subseteq RelationStates /\ E \subseteq BOOLEAN
      OBVIOUS
    <3> HIDE DEF Old, New, Q, N, E
    <3>3. ASSUME r \in OldOnes
          PROVE  \E t \in Texts, y \in RelationTypes, e \in E, s \in Q : r = Old(t, y, e, s)
      BY <3>3
    <3>4. ASSUME r \in NewOnes
          PROVE  \E t \in Texts, y \in RelationTypes, e \in E, s \in N : r = New(t, y, e, s)
      BY <3>4
    <3> HIDE DEF OldOnes, NewOnes
    <3>5. r \in OldOnes \/ r \in NewOnes
      BY <1>7, <3>1
    <3> QED BY <3>2, <3>3, <3>4, <3>5 DEF Old, New
  <2>2. r.form \in {"relation", "new relation"} /\ r.text = t /\ r.state = s
    BY <2>1
  <2> QED BY <1>7, <2>2
<1>8. CASE r \in SourceEditor(p, g)
  <2>1. PICK s \in SourceStates : r = [form |-> "source", state |-> s]
    BY <1>8 DEF SourceEditor
  <2>2. r.form = "source" /\ r.state = s
    BY <2>1
  <2> QED BY <2>2
<1>9. CASE r \in SourceLinks(p, g)
  <2>1. r = [form |-> "unlink source"] \/ r = [form |-> "link source"]
    BY <1>9 DEF SourceLinks
  <2>2. CASE r = [form |-> "unlink source"]
    BY <2>2
  <2>3. CASE r = [form |-> "link source"]
    BY <2>3
  <2> QED BY <2>1, <2>2, <2>3
<1> QED
  BY <1>1, <1>2, <1>3, <1>4, <1>5, <1>6, <1>7, <1>8, <1>9 DEF Offered, Tabs

\* What NoDecisionBeyondPermission asks of the step of clerk c.
DecisionStands(c) ==
  /\ tab = "annexes" => AnnexStands(held[c])
  /\ tab = "relations" => RelationStands(held[c])
  /\ SourceStands(held[c]) /\ TextStands(held[c])
  /\ lawRow'.status # lawRow.status /\ loaded[c].law.status # lawRow.status =>
       {"legislation.prepare", "legislation.return"} \subseteq held[c]

RowsTyped == lawRow \in LawRows /\ record \in TabRows /\ source \in SourceRows

\* A handler that only writes the row of the tab.
LEMMA RowKept ==
  ASSUME PageInv, NEW c \in Clerks,
         source' = source, lawRow' = lawRow, record' \in TabRows,
         tab = "annexes" => AnnexStands(held[c]),
         tab = "relations" => RelationStands(held[c]),
         TextStands(held[c])
  PROVE  RowsTyped /\ record' \in TabRows /\ lawRow' \in LawRows /\ source' \in SourceRows
         /\ DecisionStands(c)
BY DEF PageInv, RowsTyped, DecisionStands, SourceStands

LEMMA TransitionWrites ==
  ASSUME RowsTyped, NEW p, NEW r, Transitioned(p, r)
  PROVE  /\ lawRow' \in LawRows /\ record' \in TabRows /\ source' = source
         /\ record'.text = record.text /\ (tab # "articles" => record' = record)
<1>t. PICK RS : /\ RS = RowStates(tab) /\ record \in [state : RS, text : Texts, active : BOOLEAN]
                /\ TabRows = [state : RS, text : Texts, active : BOOLEAN]
  BY DEF RowsTyped, TabRows
<1>1. /\ source' = source
      /\ lawRow' = [lawRow EXCEPT !.status = r.target]
      /\ record' = IF r.target = "PUBLISHED" /\ tab = "articles" /\ record.state = "DRAFT"
                   THEN [record EXCEPT !.state = "PUBLISHED"] ELSE record
  BY DEF Transitioned, Wrote
<1>2. PICK m \in Transitions : m.from = lawRow.status /\ m.to = r.target
  BY DEF Transitioned
<1>3. r.target \in Reachable
  BY <1>2 DEF Transitions, Reachable
<1>4. lawRow' \in LawRows
  BY <1>1, <1>3 DEF RowsTyped, LawRows
<1>5. CASE record' = record
  BY <1>1, <1>t, <1>4, <1>5
<1>6. CASE tab = "articles" /\ record' = [record EXCEPT !.state = "PUBLISHED"]
  <2>1. "PUBLISHED" \in RS
    BY <1>t, <1>6 DEF RowStates
  <2> QED BY <1>1, <1>t, <1>4, <1>6, <2>1
<1> QED BY <1>1, <1>5, <1>6

LEMMA AcceptedStands ==
  ASSUME PageInv, NEW c \in Clerks, loaded[c] \in Snapshots,
         NEW r \in Offered(held[c], loaded[c]), Accepted(held[c], r)
  PROVE  record' \in TabRows /\ lawRow' \in LawRows /\ source' \in SourceRows
         /\ DecisionStands(c)
<1> PICK p, g : p = held[c] /\ g = loaded[c]
  OBVIOUS
<1>p. p = held[c] /\ g = loaded[c]
  OBVIOUS
<1>0. /\ tab \in Tabs /\ RowsTyped
      /\ lawRow.status \in Reachable /\ loaded[c].law.status \in Reachable
      /\ record.state \in RowStates(tab) /\ record.text \in Texts /\ record.active \in BOOLEAN
      /\ source.state \in SourceStates /\ source.active \in BOOLEAN /\ source.linked \in BOOLEAN
      /\ lawRow.active \in BOOLEAN
  BY DEF PageInv, RowsTyped, LawRows, TabRows, SourceRows, Snapshots
<1>f. FitsTheForm(r, p, g)
  <2>1. tab \in Tabs /\ r \in Offered(p, g)
    BY <1>0, <1>p
  <2> QED BY <2>1, FormOffered, Zenon
<1>a. Accepted(p, r)
  BY <1>p
<1>t. PICK RS : /\ RS = RowStates(tab) /\ record \in [state : RS, text : Texts, active : BOOLEAN]
                /\ TabRows = [state : RS, text : Texts, active : BOOLEAN]
  BY <1>0 DEF RowsTyped, TabRows
<1>1. CASE MetadataUpdated(p, r)
  <2>1. r.form = "metadata" /\ source' = source /\ lawRow' = lawRow
    BY <1>1 DEF MetadataUpdated, WroteRow, Wrote
  <2>2. /\ record' \in TabRows
        /\ lawRow.status \notin OpenForEdits => record'.text = record.text
    <3>1. CASE r.text = "unsent"
      <4>1. record' = [record EXCEPT !.text = @]
        BY <1>1, <3>1 DEF MetadataUpdated, WroteRow, Wrote
      <4>2. record'.text = record.text /\ record' \in [state : RS, text : Texts, active : BOOLEAN]
        BY <1>t, <4>1
      <4> QED BY <1>t, <4>2
    <3>2. CASE r.text # "unsent"
      <4>1. record' = [record EXCEPT !.text = r.text] /\ lawRow.status \in OpenForEdits
        BY <1>1, <3>2 DEF MetadataUpdated, WroteRow, Wrote
      <4>2. r.text \in Texts
        BY <1>f, <2>1, <3>2 DEF FitsTheForm
      <4>3. record' \in [state : RS, text : Texts, active : BOOLEAN]
        BY <1>t, <4>1, <4>2
      <4> QED BY <1>t, <4>1, <4>3
    <3> QED BY <3>1, <3>2
  <2> QED BY <1>f, <1>p, <2>1, <2>2, RowKept DEF TextStands, FitsTheForm
<1>2. CASE Transitioned(p, r)
  <2>1. /\ lawRow' \in LawRows /\ record' \in TabRows /\ source' = source
        /\ record'.text = record.text /\ (tab # "articles" => record' = record)
    BY <1>0, <1>2, TransitionWrites
  <2>2. r.form = "transition"
        /\ \E m \in Transitions :
             m.from = lawRow.status /\ m.to = r.target /\ Permission(m.from, m.to) \in p
    BY <1>2 DEF Transitioned
  <2>3. PICK m \in Transitions :
          m.from = lawRow.status /\ m.to = r.target /\ Permission(m.from, m.to) \in p
    BY <2>2
  <2>4. PICK n \in Transitions :
          n.from = g.law.status /\ n.to = r.target /\ Permission(n.from, n.to) \in p
    BY <1>f, <2>2 DEF FitsTheForm
  <2>7. g.law.status # lawRow.status => {"legislation.prepare", "legislation.return"} \subseteq p
    <3> SUFFICES ASSUME g.law.status # lawRow.status
                 PROVE  {"legislation.prepare", "legislation.return"} \subseteq p
      OBVIOUS
    <3>1. /\ m.from # n.from /\ m.to = n.to
          /\ m.from \in Reachable /\ n.from \in Reachable
      BY <1>0, <1>p, <2>3, <2>4
    <3>2. /\ m.to = "DRAFT" /\ m.from \in {"INBOX", "IN_REVIEW"}
          /\ n.from \in {"INBOX", "IN_REVIEW"}
      BY <3>1 DEF Transitions, PublicStatus, Reachable
    <3>3. /\ Permission("INBOX", "DRAFT") = "legislation.prepare"
          /\ Permission("IN_REVIEW", "DRAFT") = "legislation.return"
      BY DEF Permission
    <3> QED BY <2>3, <2>4, <3>1, <3>2, <3>3
  <2>8. tab = "annexes" => AnnexStands(p)
    BY <1>0, <2>1 DEF AnnexStands
  <2>9. (tab = "relations" => RelationStands(p)) /\ SourceStands(p) /\ TextStands(p)
    BY <1>0, <2>1 DEF RelationStands, SourceStands, TextStands
  <2> QED BY <1>0, <1>p, <2>1, <2>7, <2>8, <2>9 DEF DecisionStands, RowsTyped
<1>3. CASE ArticleCreated(p, r) \/ StructureCreated(p, r)
  <2>1. PICK s : /\ s = IF r.form = "new article" THEN "DRAFT" ELSE "PRESENT"
                 /\ r.form \in {"new article", "new structure"}
                 /\ source' = source /\ lawRow' = lawRow
                 /\ record' = [state |-> s, text |-> r.text, active |-> TRUE]
                 /\ r.form = "new article" => lawRow.status \in OpenForEdits
                 /\ r.form = "new structure" => MayRestructure(p)
    BY <1>3 DEF ArticleCreated, StructureCreated, Created, WroteRow, Wrote, InDraft, OpenForEdits
  <2>2. s \in RS /\ r.text \in Texts /\ tab \in {"articles", "structure"}
        /\ (r.form = "new structure" => tab = "structure")
    BY <1>f, <1>t, <2>1 DEF RowStates, FitsTheForm
  <2>3. record' \in TabRows /\ record'.text = r.text
    BY <1>t, <2>1, <2>2
  <2>4. TextStands(p)
    BY <2>1, <2>2, <2>3 DEF TextStands, MayRestructure
  <2> QED BY <1>p, <2>1, <2>2, <2>3, <2>4, RowKept
<1>4. CASE ArticleUpdated(p, r) \/ StructureUpdated(p, r)
  <2>1. /\ r.form \in {"article", "structure"}
        /\ source' = source /\ lawRow' = lawRow
        /\ record' = [record EXCEPT !.text = r.text]
        /\ r.form = "article" => lawRow.status \in OpenForEdits
        /\ r.form = "structure" => MayRestructure(p)
    BY <1>4 DEF ArticleUpdated, StructureUpdated, WroteRow, Wrote
  <2>2. r.text \in Texts /\ tab \in {"articles", "structure"}
        /\ (r.form = "structure" => tab = "structure")
    BY <1>f, <2>1 DEF FitsTheForm
  <2>3. record' \in TabRows
    BY <1>t, <2>1, <2>2
  <2>4. TextStands(p)
    BY <2>1, <2>2 DEF TextStands, MayRestructure
  <2> QED BY <1>p, <2>1, <2>2, <2>3, <2>4, RowKept
<1>5. CASE AnnexUpdated(p, r)
  <2>1. /\ r.form = "annex" /\ MayDecideAnnex(p, r.state) /\ AnnexKept(r)
        /\ source' = source /\ lawRow' = lawRow
        /\ record' = [record EXCEPT !.text = r.text, !.state = r.state]
    BY <1>5 DEF AnnexUpdated, WroteRow, Wrote
  <2>2. /\ tab = "annexes" /\ r.text \in Texts /\ r.state \in RS
        /\ r.state \in {"DRAFT"} \cup AnnexDecisions
    BY <1>f, <1>t, <2>1 DEF RowStates, FitsTheForm
  <2>3. /\ record' \in [state : RS, text : Texts, active : BOOLEAN]
        /\ record'.text = r.text /\ record'.state = r.state
    BY <1>t, <2>1, <2>2
  <2>4. AnnexStands(p)
    BY <2>1, <2>2, <2>3 DEF AnnexStands, AnnexKept, MayDecideAnnex, AnnexDecisions
  <2> QED BY <1>p, <1>t, <2>1, <2>2, <2>3, <2>4, RowKept DEF TextStands
<1>6. CASE AnnexCreated(p, r)
  <2>1. /\ r.form = "new annex" /\ record.state = "ABSENT"
        /\ source' = source /\ lawRow' = lawRow
        /\ record' = [state |-> r.state, text |-> r.text, active |-> TRUE]
    BY <1>6 DEF AnnexCreated, Created, WroteRow, Wrote
  <2>2. tab = "annexes" /\ r.text \in Texts /\ r.state \in RS
    BY <1>f, <1>t, <2>1 DEF FitsTheForm
  <2>3. record' \in TabRows
    BY <1>t, <2>1, <2>2
  <2>4. AnnexStands(p)
    BY <2>1 DEF AnnexStands, AnnexDecisions
  <2> QED BY <1>p, <2>1, <2>2, <2>3, <2>4, RowKept DEF TextStands
<1>7. CASE RelationUpdated(p, r)
  <2>1. /\ r.form = "relation" /\ MayDecideRelation(p, r)
        /\ source' = source /\ lawRow' = lawRow
        /\ record' = [record EXCEPT !.text = r.text, !.state = r.state]
    BY <1>7 DEF RelationUpdated, WroteRow, Wrote
  <2>2. tab = "relations" /\ r.text \in Texts /\ r.state \in RS
    BY <1>f, <1>t, <2>1 DEF RowStates, FitsTheForm
  <2>3. record' \in [state : RS, text : Texts, active : BOOLEAN] /\ record'.state = r.state
    BY <1>t, <2>1, <2>2
  <2>4. RelationStands(p)
    BY <2>1, <2>3 DEF RelationStands, MayDecideRelation
  <2> QED BY <1>p, <1>t, <2>1, <2>2, <2>3, <2>4, RowKept DEF TextStands
<1>8. CASE RelationCreated(p, r)
  <2>1. /\ r.form = "new relation" /\ MayDecideRelation(p, r)
        /\ source' = source /\ lawRow' = lawRow
        /\ record' = [state |-> r.state, text |-> r.text, active |-> TRUE]
    BY <1>8 DEF RelationCreated, Created, WroteRow, Wrote
  <2>2. tab = "relations" /\ r.text \in Texts /\ r.state \in RS
    BY <1>f, <1>t, <2>1 DEF RowStates, FitsTheForm
  <2>3. record' \in TabRows /\ record'.state = r.state
    BY <1>t, <2>1, <2>2
  <2>4. RelationStands(p)
    BY <2>1, <2>3 DEF RelationStands, MayDecideRelation
  <2> QED BY <1>p, <2>1, <2>2, <2>3, <2>4, RowKept DEF TextStands
<1>9. CASE SourceUpdated(p, r) \/ SourceLinked(p, r) \/ SourceUnlinked(p, r)
  <2>1. /\ record' = record /\ lawRow' = lawRow
        /\ \/ /\ r.form = "source" /\ MayReviewSource(p, r)
              /\ source' = [source EXCEPT !.state = r.state]
           \/ /\ lawRow.status \in InDraft
              /\ \E b \in BOOLEAN : source' = [source EXCEPT !.linked = b]
    BY <1>9 DEF SourceUpdated, SourceLinked, SourceUnlinked, Wrote
  <2>2. source' \in SourceRows /\ SourceStands(p)
    <3>1. CASE /\ r.form = "source" /\ MayReviewSource(p, r)
               /\ source' = [source EXCEPT !.state = r.state]
      <4>1. r.state \in SourceStates
        BY <1>f, <3>1 DEF FitsTheForm
      <4>2. /\ source' \in SourceRows /\ source'.state = r.state
            /\ source'.linked = source.linked
        BY <1>0, <3>1, <4>1 DEF RowsTyped, SourceRows
      <4> QED BY <3>1, <4>2 DEF SourceStands, MayReviewSource
    <3>2. ASSUME NEW b \in BOOLEAN, source' = [source EXCEPT !.linked = b],
                 lawRow.status \in InDraft
          PROVE  source' \in SourceRows /\ SourceStands(p)
      <4>1. source' \in SourceRows /\ source'.state = source.state
        BY <1>0, <3>2 DEF RowsTyped, SourceRows
      <4> QED BY <3>2, <4>1 DEF SourceStands
    <3> QED BY <2>1, <3>1, <3>2
  <2>3. AnnexStands(p) /\ RelationStands(p) /\ TextStands(p)
    BY <1>0, <2>1 DEF AnnexStands, RelationStands, TextStands
  <2> QED BY <1>0, <1>p, <1>t, <2>1, <2>2, <2>3 DEF DecisionStands, RowsTyped
<1>10. CASE LawChanged(p, r)
  <2>1. /\ record' = record /\ source' = source
        /\ lawRow' = [lawRow EXCEPT !.active = (r.action = "enable")]
    BY <1>10 DEF LawChanged, Wrote
  <2>2. lawRow' \in LawRows /\ lawRow'.status = lawRow.status
    BY <1>0, <2>1 DEF RowsTyped, LawRows
  <2>3. AnnexStands(p) /\ RelationStands(p) /\ TextStands(p) /\ SourceStands(p)
    BY <1>0, <2>1 DEF AnnexStands, RelationStands, TextStands, SourceStands
  <2> QED BY <1>0, <1>p, <1>t, <2>1, <2>2, <2>3 DEF DecisionStands, RowsTyped
<1>11. CASE RecordChanged(p, r)
  <2>1. /\ r.form = "row" /\ source' = source /\ lawRow' = lawRow
        /\ \/ /\ record' = [record EXCEPT !.state = "ABSENT", !.active = FALSE]
              /\ record.state \in {"DRAFT", "UNREVIEWED", "REJECTED"}
           \/ record' = [record EXCEPT !.active = (r.action = "enable")]
    BY <1>11 DEF RecordChanged, WroteRow, Wrote
  <2>2. tab \in {"annexes", "relations"} /\ "ABSENT" \in RS
    BY <1>f, <1>t, <2>1 DEF RowStates, FitsTheForm
  <2>3. CASE /\ record' = [record EXCEPT !.state = "ABSENT", !.active = FALSE]
             /\ record.state \in {"DRAFT", "UNREVIEWED", "REJECTED"}
    <3>1. record' \in [state : RS, text : Texts, active : BOOLEAN] /\ record'.state = "ABSENT"
      BY <1>t, <2>2, <2>3
    <3>2. AnnexStands(p) /\ RelationStands(p) /\ TextStands(p)
      BY <2>2, <2>3, <3>1 DEF AnnexStands, RelationStands, TextStands, AnnexDecisions
    <3> QED BY <1>p, <1>t, <2>1, <3>1, <3>2, RowKept
  <2>4. CASE record' = [record EXCEPT !.active = (r.action = "enable")]
    <3>1. /\ record' \in [state : RS, text : Texts, active : BOOLEAN]
          /\ record'.state = record.state /\ record'.text = record.text
      BY <1>t, <2>4
    <3>2. AnnexStands(p) /\ RelationStands(p) /\ TextStands(p)
      BY <3>1 DEF AnnexStands, RelationStands, TextStands
    <3> QED BY <1>p, <1>t, <2>1, <3>1, <3>2, RowKept
  <2> QED BY <2>1, <2>3, <2>4
<1> QED BY <1>a, <1>1, <1>2, <1>3, <1>4, <1>5, <1>6, <1>7, <1>8, <1>9, <1>10, <1>11 DEF Accepted

LEMMA PageInitially == PageInit => PageInv
<1> SUFFICES ASSUME PageInit PROVE PageInv
  OBVIOUS
<1>1. tab \in Tabs /\ held \in Assignments /\ edits \in 0..MaxEdits
  <2>1. tab \in Tabs /\ held \in Assignments /\ edits = 0
    BY Zenon DEF PageInit
  <2> QED BY <2>1, EditsAssumption
<1>4. loaded \in [Clerks -> {ClosedPage} \cup Snapshots]
  BY DEF PageInit
<1>2. lawRow \in LawRows /\ source \in SourceRows
  BY DEF PageInit, LawRows, SourceRows, Reachable
<1>3. record \in TabRows
  <2>1. PICK s : /\ s = IF tab \in {"general", "structure"} THEN "PRESENT"
                        ELSE IF tab = "articles" THEN "DRAFT" ELSE "ABSENT"
                 /\ record = [state |-> s, text |-> "as drawn up", active |-> TRUE]
    BY DEF PageInit
  <2>2. s \in RowStates(tab)
    BY <1>1, <2>1 DEF RowStates, Tabs
  <2> QED BY <2>1, <2>2 DEF TabRows, Texts
<1> QED BY <1>1, <1>2, <1>3, <1>4 DEF PageInv

LEMMA PageSteps ==
  ASSUME PageInv, [PageNext]_pageVars
  PROVE  PageInv' /\ (\A c \in Clerks : SendForm(c) => DecisionStands(c))
<1>0. /\ RowsTyped /\ loaded \in [Clerks -> {ClosedPage} \cup Snapshots]
      /\ tab \in Tabs /\ held \in Assignments /\ edits \in 0..MaxEdits
  BY DEF PageInv, RowsTyped
<1>a. ASSUME tab' = tab, held' = held, edits' \in 0..MaxEdits,
             record' \in TabRows, lawRow' \in LawRows, source' \in SourceRows,
             loaded' \in [Clerks -> {ClosedPage} \cup Snapshots]
      PROVE  PageInv'
  <2>1. TabRows' = TabRows /\ LawRows' = LawRows /\ SourceRows' = SourceRows
    BY <1>a DEF TabRows, LawRows, SourceRows
  <2>2. Snapshots' = Snapshots
    BY <2>1 DEF Snapshots
  <2> QED BY <1>0, <1>a, <2>1, <2>2 DEF PageInv
<1>b. ~ClosedPage.open /\ Snapshot \in Snapshots
  BY <1>0 DEF ClosedPage, Snapshot, Snapshots, RowsTyped
<1>c. ASSUME Counted PROVE edits' \in 0..MaxEdits
  BY <1>0, <1>c, EditsAssumption DEF Counted
<1>1. ASSUME NEW c \in Clerks, OpenPage(c) PROVE PageInv'
  <2>1. loaded' = [loaded EXCEPT ![c] = Snapshot]
    BY <1>1 DEF OpenPage
  <2>2. loaded' \in [Clerks -> {ClosedPage} \cup Snapshots]
    BY <1>0, <1>b, <2>1
  <2> QED BY <1>0, <1>1, <1>a, <2>2 DEF OpenPage, RowsTyped
<1>2. ASSUME NEW c \in Clerks, SendForm(c) PROVE PageInv' /\ DecisionStands(c)
  <2>1. PICK r \in Offered(held[c], loaded[c]) : Accepted(held[c], r)
    BY <1>2 DEF SendForm
  <2>2. /\ loaded[c].open /\ Counted /\ tab' = tab /\ held' = held
        /\ loaded' = [loaded EXCEPT ![c] = Snapshot']
    BY <1>2 DEF SendForm
  <2>3. loaded[c] \in Snapshots
    BY <1>0, <1>b, <2>2
  <2>4. /\ record' \in TabRows /\ lawRow' \in LawRows /\ source' \in SourceRows
        /\ DecisionStands(c)
    BY <2>1, <2>3, AcceptedStands
  <2>5. Snapshot' \in Snapshots
    BY <2>4 DEF Snapshot, Snapshots
  <2>6. loaded' \in [Clerks -> {ClosedPage} \cup Snapshots]
    BY <1>0, <2>2, <2>5
  <2> QED BY <1>a, <1>c, <2>2, <2>4, <2>6
<1>3. ASSUME MovedElsewhere \/ SourceElsewhere \/ DisabledElsewhere PROVE PageInv'
  <2>1. tab' = tab /\ held' = held /\ loaded' = loaded /\ edits' \in 0..MaxEdits
    BY <1>3, <1>c DEF MovedElsewhere, SourceElsewhere, DisabledElsewhere
  <2>2. CASE MovedElsewhere
    <3>1. PICK m \in Transitions : Transitioned({Permission(m.from, m.to)},
                                                [form |-> "transition", target |-> m.to])
      BY <2>2 DEF MovedElsewhere
    <3>2. lawRow' \in LawRows /\ record' \in TabRows /\ source' = source
      BY <1>0, <3>1, TransitionWrites
    <3> QED BY <1>0, <1>a, <2>1, <3>2 DEF RowsTyped
  <2>3. CASE SourceElsewhere
    <3>1. PICK s \in SourceStates : source' = [source EXCEPT !.state = s]
      BY <2>3 DEF SourceElsewhere, Wrote, SourceStates
    <3>2. source' \in SourceRows
      BY <1>0, <3>1 DEF RowsTyped, SourceRows
    <3>3. record' = record /\ lawRow' = lawRow
      BY <2>3 DEF SourceElsewhere, Wrote
    <3> QED BY <1>0, <1>a, <2>1, <3>2, <3>3 DEF RowsTyped
  <2>4. CASE DisabledElsewhere
    <3>1. source' = [source EXCEPT !.active = ~@] /\ record' = record /\ lawRow' = lawRow
      BY <2>4 DEF DisabledElsewhere, Wrote
    <3>2. source' \in SourceRows
      BY <1>0, <3>1 DEF RowsTyped, SourceRows
    <3> QED BY <1>0, <1>a, <2>1, <3>1, <3>2 DEF RowsTyped
  <2> QED BY <1>3, <2>2, <2>3, <2>4
<1>4. ASSUME UNCHANGED pageVars PROVE PageInv'
  <2>1. /\ tab' = tab /\ held' = held /\ edits' = edits /\ loaded' = loaded
        /\ record' = record /\ lawRow' = lawRow /\ source' = source
    BY <1>4 DEF pageVars
  <2>2. /\ edits' \in 0..MaxEdits /\ loaded' \in [Clerks -> {ClosedPage} \cup Snapshots]
        /\ record' \in TabRows /\ lawRow' \in LawRows /\ source' \in SourceRows
    BY <1>0, <2>1 DEF RowsTyped
  <2> QED BY <1>a, <2>1, <2>2
<1>5. PageInv'
  BY <1>1, <1>2, <1>3, <1>4 DEF PageNext
<1> QED BY <1>2, <1>5

LEMMA PageHolds == PageInv => PageTypeOK
<1> SUFFICES ASSUME PageInv PROVE PageTypeOK
  OBVIOUS
<1>1. Reachable \subseteq LawStatus
  BY DEF Reachable, LawStatus, PublicStatus
<1>2. ~ClosedPage.open
  BY DEF ClosedPage
<1>3. \A c \in Clerks : loaded[c].open => loaded[c].law.status \in LawStatus
  BY <1>1, <1>2 DEF PageInv, Snapshots, LawRows
<1>4. lawRow \in [status : LawStatus, active : BOOLEAN]
  BY <1>1 DEF PageInv, LawRows
<1> QED BY <1>3, <1>4 DEF PageInv, PageTypeOK, TabRows, SourceRows

-----------------------------------------------------------------------------
(***************************************************************************)
(* The amendment documents                                                 *)
(***************************************************************************)
ItemRow == [state : {"absent", "active", "disabled", "deleted"}, place : Nat]
DocumentRow == [status : {"DRAFT", "REVIEWED", "PUBLISHED"}, active : BOOLEAN,
                deleted : BOOLEAN, revision : 1..(MaxSteps + 3)]
ItemLists == UNION {[1..n -> Items] : n \in 0..Cardinality(Items)}
Later == [DRAFT |-> 1, REVIEWED |-> 2, PUBLISHED |-> 3]

DraftTypes ==
  /\ document \in DocumentRow
  /\ document.revision <= MaxSteps + Later[document.status]
  /\ item \in [Items -> ItemRow]
  /\ view \in [Writers -> [revision : 1..(MaxSteps + 3), list : ItemLists]]
  /\ collided \in BOOLEAN

\* The unique key of the places, for the rows that are not deleted.
PlacesApart == \A i, j \in Kept : item[i].place = item[j].place => i = j

\* Whoever has the newest revision has the list that goes with it.
NewestIsListed ==
  \A w \in Writers : /\ view[w].revision <= document.revision
                     /\ view[w].revision = document.revision => view[w].list = Listed

DraftInv == DraftTypes /\ PlacesApart /\ NewestIsListed

\* Numbers 1 to n that rise with their index are their index.
LEMMA RisingIsIdentity ==
  ASSUME NEW n \in Nat, NEW f \in [1..n -> 1..n],
         \A a, b \in 1..n : a < b => f[a] < f[b]
  PROVE  \A a \in 1..n : f[a] = a
<1>1. \A a \in 1..n : f[a] >= a
  <2> DEFINE low == {a \in 1..n : f[a] < a}
  <2>1. SUFFICES ASSUME low # {} PROVE FALSE
    OBVIOUS
  <2> HIDE DEF low
  <2>2. PICK m \in low : \A k \in low : m <= k
    <3>1. low \subseteq Nat
      BY DEF low
    <3> QED BY <2>1, <3>1, LeastIs
  <2> USE DEF low
  <2>3. m \in 1..n /\ f[m] \in 1..n /\ f[m] < m
    BY <2>2
  <2>4. m - 1 \in 1..n /\ f[m - 1] \in 1..n
    BY <2>3
  <2>5. m - 1 \notin low
    BY <2>2, <2>3
  <2>6. f[m - 1] >= m - 1
    BY <2>4, <2>5
  <2>7. f[m - 1] < f[m]
    BY <2>3, <2>4
  <2> QED BY <2>3, <2>4, <2>6, <2>7
<1>2. \A a \in 1..n : f[a] <= a
  <2> DEFINE high == {d \in 0..(n - 1) : f[n - d] > n - d}
  <2>1. SUFFICES ASSUME NEW a \in 1..n, f[a] > a PROVE FALSE
    OBVIOUS
  <2>2. n - a \in high
    <3>1. n - (n - a) = a /\ n - a \in 0..(n - 1)
      OBVIOUS
    <3> QED BY <2>1, <3>1
  <2>3. high \subseteq Nat
    OBVIOUS
  <2> HIDE DEF high
  <2>4. PICK m \in high : \A k \in high : m <= k
    BY <2>2, <2>3, LeastIs
  <2> USE DEF high
  <2>5. m \in 0..(n - 1) /\ n - m \in 1..n /\ f[n - m] \in 1..n /\ f[n - m] > n - m
    BY <2>4
  <2>6. m - 1 \in 0..(n - 1) /\ (n - m) + 1 = n - (m - 1) /\ n - (m - 1) \in 1..n
    BY <2>5
  <2>7. m - 1 \notin high
    <3> HIDE DEF high
    <3> QED BY <2>4, <2>5
  <2>8. f[n - (m - 1)] \in 1..n /\ f[n - (m - 1)] <= n - (m - 1)
    BY <2>6, <2>7
  <2>9. f[n - m] < f[n - (m - 1)]
    BY <2>5, <2>6
  <2> QED BY <2>5, <2>6, <2>8, <2>9
<1>3. \A a \in 1..n : f[a] \in 1..n
  OBVIOUS
<1> QED BY <1>1, <1>2, <1>3

\* Things with places of their own can be listed by place.
LEMMA ListExists ==
  ASSUME NEW K, IsFiniteSet(K), NEW p \in [K -> Nat],
         \A i, j \in K : p[i] = p[j] => i = j
  PROVE  \E s \in [1..Cardinality(K) -> K] :
           \A a, b \in DOMAIN s : a < b => p[s[a]] < p[s[b]]
<1> DEFINE n == Cardinality(K)
           below == [i \in K |-> {j \in K : p[j] <= p[i]}]
           rank == [i \in K |-> Cardinality(below[i])]
<1>1. n \in Nat
  BY FS_CardinalityType
<1>2. \A i \in K : below[i] \subseteq K /\ IsFiniteSet(below[i]) /\ i \in below[i]
  BY FS_Subset
<1>3. \A i \in K : rank[i] \in 1..n
  <2>1. TAKE i \in K
  <2>2. rank[i] \in Nat /\ rank[i] <= n
    BY <1>2, FS_Subset, FS_CardinalityType
  <2>3. rank[i] # 0
    BY <1>2, FS_EmptySet
  <2> QED BY <2>2, <2>3, <1>1
<1>4. \A i, j \in K : p[i] < p[j] => rank[i] < rank[j]
  <2>1. SUFFICES ASSUME NEW i \in K, NEW j \in K, p[i] < p[j] PROVE rank[i] < rank[j]
    OBVIOUS
  <2>2. below[i] \subseteq below[j] /\ j \in below[j] /\ j \notin below[i]
    BY <2>1
  <2>3. Cardinality(below[i]) <= Cardinality(below[j])
        /\ Cardinality(below[i]) # Cardinality(below[j])
    BY <2>2, <1>2, FS_Subset
  <2> QED BY <2>3, <1>3
<1>5. rank \in Injection(K, 1..n)
  <2>1. \A i, j \in K : rank[i] = rank[j] => i = j
    <3>1. SUFFICES ASSUME NEW i \in K, NEW j \in K, rank[i] = rank[j], i # j PROVE FALSE
      OBVIOUS
    <3>2. p[i] < p[j] \/ p[j] < p[i]
      BY <3>1
    <3> QED BY <3>1, <3>2, <1>3, <1>4
  <2>2. rank \in [K -> 1..n]
    BY <1>3
  <2> HIDE DEF rank
  <2> QED BY <2>1, <2>2 DEF Injection, IsInjective
<1>6. IsFiniteSet(1..n) /\ Cardinality(1..n) = n
  BY <1>1, FS_Interval
<1>7. rank \in Surjection(K, 1..n)
  <2> HIDE DEF rank
  <2> QED BY <1>5, <1>6, FS_Injection
<1>8. \A a \in 1..n : \E i \in K : rank[i] = a
  <2> HIDE DEF rank
  <2> QED BY <1>7 DEF Surjection
<1> DEFINE s == [a \in 1..n |-> CHOOSE i \in K : rank[i] = a]
<1>9. \A a \in 1..n : s[a] \in K /\ rank[s[a]] = a
  <2> HIDE DEF rank
  <2> QED BY <1>8
<1>10. \A a, b \in 1..n : a < b => p[s[a]] < p[s[b]]
  <2>1. SUFFICES ASSUME NEW a \in 1..n, NEW b \in 1..n, a < b, ~(p[s[a]] < p[s[b]])
                 PROVE FALSE
    OBVIOUS
  <2>2. s[a] \in K /\ s[b] \in K /\ rank[s[a]] = a /\ rank[s[b]] = b
    BY <1>9
  <2> HIDE DEF s, rank
  <2>3. p[s[a]] \in Nat /\ p[s[b]] \in Nat
    BY <2>2
  <2>4. s[a] # s[b]
    BY <2>1, <2>2
  <2>5. p[s[b]] < p[s[a]]
    BY <2>1, <2>2, <2>3, <2>4
  <2>6. rank[s[b]] < rank[s[a]]
    BY <2>2, <2>5, <1>4
  <2> QED BY <2>1, <2>2, <2>6
<1>11. s \in [1..n -> K] /\ DOMAIN s = 1..n
  BY <1>9
<1> HIDE DEF s
<1> QED BY <1>10, <1>11

\* The list of a document names every item there is once, in the order of its places.
LEMMA ListIsThere ==
  ASSUME DraftTypes, PlacesApart
  PROVE  /\ Cardinality(Kept) \in 0..Cardinality(Items)
         /\ Listed \in [1..Cardinality(Kept) -> Kept]
         /\ \A a, b \in DOMAIN Listed : a < b => item[Listed[a]].place < item[Listed[b]].place
         /\ Listed \in ItemLists
<1>1. Kept \subseteq Items /\ IsFiniteSet(Kept) /\ Cardinality(Kept) <= Cardinality(Items)
  BY ItemsAssumption, FS_Subset DEF Kept
<1>2. Cardinality(Kept) \in 0..Cardinality(Items)
  BY <1>1, ItemsAssumption, FS_CardinalityType
<1> DEFINE p == [i \in Kept |-> item[i].place]
<1>3. p \in [Kept -> Nat] /\ \A i, j \in Kept : p[i] = p[j] => i = j
  BY <1>1 DEF DraftTypes, PlacesApart, ItemRow
<1>4. \A i \in Kept : p[i] = item[i].place
  OBVIOUS
<1> HIDE DEF p
<1>5. PICK s \in [1..Cardinality(Kept) -> Kept] :
        \A a, b \in DOMAIN s : a < b => p[s[a]] < p[s[b]]
  BY <1>1, <1>3, ListExists
<1>6. \A a, b \in DOMAIN s : a < b => item[s[a]].place < item[s[b]].place
  BY <1>4, <1>5
<1>7. /\ Listed \in [1..Cardinality(Kept) -> Kept]
      /\ \A a, b \in DOMAIN Listed : a < b => item[Listed[a]].place < item[Listed[b]].place
  BY <1>6 DEF Listed
<1>8. Listed \in [1..Cardinality(Kept) -> Items]
  BY <1>7, <1>1
<1>9. Listed \in ItemLists
  BY <1>8, <1>2 DEF ItemLists
<1> QED BY <1>2, <1>7, <1>9

\* The list depends on the rows of the items alone.
LEMMA SameList == item' = item => Kept' = Kept /\ Listed' = Listed
BY Zenon DEF Listed, Kept

LEMMA DraftStarts == DraftInit => DraftInv
<1> SUFFICES ASSUME DraftInit PROVE DraftInv
  OBVIOUS
<1> DEFINE n == Len(FirstItems)
           first == {FirstItems[k] : k \in 1..n}
<1>1. n \in Nat /\ FirstItems \in [1..n -> Items] /\ DOMAIN FirstItems = 1..n
  BY ItemsAssumption
<1>2. \A k, l \in 1..n : FirstItems[k] = FirstItems[l] => k = l
  BY <1>1, ItemsAssumption
<1> HIDE DEF n
<1>3. \A k \in 1..n : item[FirstItems[k]] = [state |-> "active", place |-> k]
  <2>1. TAKE k \in 1..n
  <2>2. FirstItems[k] \in Items
    BY <1>1
  <2>3. (CHOOSE l \in DOMAIN FirstItems : FirstItems[l] = FirstItems[k]) = k
    BY <1>1, <1>2
  <2> QED BY <1>1, <2>2, <2>3 DEF DraftInit
<1>4. \A i \in Items : i \notin first => item[i] = NoItem
  BY <1>1 DEF DraftInit
<1>placed. \A i \in first : /\ i \in Items /\ item[i].state = "active"
                         /\ item[i].place \in 1..n /\ FirstItems[item[i].place] = i
                         /\ item[i] = [state |-> "active", place |-> item[i].place]
  <2>1. TAKE i \in first
  <2>2. PICK k \in 1..n : i = FirstItems[k]
    OBVIOUS
  <2>3. item[i] = [state |-> "active", place |-> k]
    BY <1>3, <2>2
  <2>4. item[i].place = k /\ item[i].state = "active"
    BY <2>3
  <2> QED BY <1>1, <2>2, <2>3, <2>4
<1>5. Kept = first
  <2>1. \A i \in first : i \in Items /\ item[i].state = "active"
    <3> HIDE DEF first
    <3> QED BY <1>placed, Zenon
  <2>2. \A i \in Items : i \notin first => item[i].state = "absent"
    BY <1>4 DEF NoItem
  <2> HIDE DEF first
  <2> QED BY <2>1, <2>2 DEF Kept
<1>6. item \in [Items -> ItemRow]
  <2>1. item = [i \in Items |-> item[i]]
    BY DEF DraftInit
  <2>2. \A i \in Items : item[i] \in ItemRow
    <3>1. TAKE i \in Items
    <3>2. CASE i \in first
      <4> HIDE DEF first
      <4>1. item[i].place \in Nat /\ item[i] = [state |-> "active", place |-> item[i].place]
        BY <3>2, <1>placed, <1>1
      <4> QED BY <4>1 DEF ItemRow
    <3>3. CASE i \notin first
      BY <3>3, <1>4 DEF ItemRow, NoItem
    <3> QED BY <3>2, <3>3
  <2> QED BY <2>1, <2>2
<1>7. n \in 0..Cardinality(Items)
  <2>1. FirstItems \in Injection(1..n, Items)
    BY <1>1, <1>2 DEF Injection, IsInjective
  <2>2. Cardinality(1..n) <= Cardinality(Items)
    BY <2>1, ItemsAssumption, FS_Injection
  <2>3. Cardinality(1..n) = n
    BY <1>1, FS_Interval
  <2> QED BY <2>2, <2>3, <1>1, ItemsAssumption, FS_CardinalityType
<1>8. FirstItems \in ItemLists
  BY <1>1, <1>7 DEF ItemLists
<1>9. DraftTypes
  <2>1. document \in DocumentRow /\ document.revision <= MaxSteps + Later[document.status]
    BY StepsAssumption DEF DraftInit, DocumentRow, Later
  <2>2. [revision |-> 1, list |-> FirstItems] \in [revision : 1..(MaxSteps + 3), list : ItemLists]
    BY <1>8, StepsAssumption
  <2>3. view \in [Writers -> [revision : 1..(MaxSteps + 3), list : ItemLists]]
    BY <2>2 DEF DraftInit
  <2> QED BY <1>6, <2>1, <2>3 DEF DraftTypes, DraftInit
<1>10. PlacesApart
  <2>1. SUFFICES ASSUME NEW i \in first, NEW j \in first, item[i].place = item[j].place
                 PROVE  i = j
    BY <1>5 DEF PlacesApart
  <2> HIDE DEF first
  <2>2. FirstItems[item[i].place] = i /\ FirstItems[item[j].place] = j
    BY <1>placed, Zenon
  <2> QED BY <2>1, <2>2
<1>11. Cardinality(Kept) = n
  <2>1. FirstItems \in Bijection(1..n, first)
    BY <1>1, <1>2 DEF Bijection, Injection, IsInjective, Surjection
  <2>2. ExistsBijection(1..n, first)
    BY <2>1 DEF ExistsBijection
  <2> QED BY <2>2, <1>1, <1>5, FS_CountingElements
<1>12. Listed = FirstItems
  <2> DEFINE f == [a \in 1..n |-> item[Listed[a]].place]
  <2>1. /\ Listed \in [1..n -> first]
        /\ \A a, b \in 1..n : a < b => item[Listed[a]].place < item[Listed[b]].place
    BY <1>5, <1>9, <1>10, <1>11, ListIsThere
  <2> HIDE DEF first
  <2>2. \A i \in first : item[i].place \in 1..n /\ FirstItems[item[i].place] = i
    BY <1>placed
  <2>3. f \in [1..n -> 1..n] /\ \A a \in 1..n : f[a] = item[Listed[a]].place
    BY <2>1, <2>2
  <2> HIDE DEF f
  <2>4. \A a, b \in 1..n : a < b => f[a] < f[b]
    BY <2>1, <2>3
  <2>5. \A a \in 1..n : f[a] = a
    BY <1>1, <2>3, <2>4, RisingIsIdentity
  <2>6. \A a \in 1..n : Listed[a] = FirstItems[a]
    BY <2>1, <2>2, <2>3, <2>5
  <2> QED BY <1>1, <2>1, <2>6
<1>13. NewestIsListed
  BY <1>12 DEF NewestIsListed, DraftInit
<1> QED BY <1>9, <1>10, <1>13 DEF DraftInv

\* A step that raises the revision leaves every writer behind.
LEMMA RaisedLeavesBehind ==
  ASSUME DraftInv, document'.revision = document.revision + 1, view' = view
  PROVE  NewestIsListed'
<1>1. \A w \in Writers : view[w].revision \in Nat /\ view[w].revision <= document.revision
  BY DEF DraftInv, DraftTypes, NewestIsListed
<1>2. document.revision \in Nat
  BY DEF DraftInv, DraftTypes, DocumentRow
<1>3. \A w \in Writers : view'[w].revision < document'.revision
  BY <1>1, <1>2
<1>4. document'.revision \in Nat /\ \A w \in Writers : view'[w].revision \in Nat
  BY <1>1, <1>2
<1>5. \A w \in Writers : /\ view'[w].revision <= document'.revision
                         /\ view'[w].revision # document'.revision
  BY <1>3, <1>4
<1> QED BY <1>5 DEF NewestIsListed

\* The document takes a step further, within the bound of its status.
LEMMA RevisionRises ==
  ASSUME DraftTypes, NEW to \in {"DRAFT", "REVIEWED", "PUBLISHED"},
         document' = [document EXCEPT !.status = to, !.revision = @ + 1],
         document.revision + 1 <= MaxSteps + Later[to]
  PROVE  /\ document' \in DocumentRow /\ document'.revision <= MaxSteps + Later[document'.status]
         /\ document'.revision = document.revision + 1
<1>1. Later[to] \in 1..3
  BY DEF Later
<1>2. document.revision \in Nat /\ document.revision + 1 \in 1..(MaxSteps + 3)
  BY <1>1, StepsAssumption DEF DraftTypes, DocumentRow
<1>3. /\ document' \in DocumentRow /\ document'.status = to
      /\ document'.revision = document.revision + 1
  BY <1>2 DEF DraftTypes, DocumentRow
<1> QED BY <1>3

LEMMA LoadKeeps ==
  ASSUME DraftInv, NEW w \in Writers, LoadDocument(w)
  PROVE  DraftInv'
<1>1. Kept' = Kept /\ Listed' = Listed
  BY SameList DEF LoadDocument
<1>2. Listed \in ItemLists
  BY ListIsThere DEF DraftInv
<1>3. [revision |-> document.revision, list |-> Listed]
        \in [revision : 1..(MaxSteps + 3), list : ItemLists]
  BY <1>2 DEF DraftInv, DraftTypes, DocumentRow
<1>4. view' \in [Writers -> [revision : 1..(MaxSteps + 3), list : ItemLists]]
  BY <1>3 DEF DraftInv, DraftTypes, LoadDocument
<1>5. DraftTypes'
  BY <1>4 DEF DraftInv, DraftTypes, LoadDocument
<1>6. PlacesApart'
  BY <1>1 DEF DraftInv, PlacesApart, LoadDocument
<1>7. NewestIsListed'
  <2>1. SUFFICES ASSUME NEW v \in Writers
                 PROVE  /\ view'[v].revision <= document'.revision
                        /\ view'[v].revision = document'.revision => view'[v].list = Listed'
    BY DEF NewestIsListed
  <2>2. document' = document
    BY DEF LoadDocument
  <2>3. CASE v = w
    <3>1. view'[v] = [revision |-> document.revision, list |-> Listed]
      BY <2>3 DEF DraftInv, DraftTypes, LoadDocument
    <3>2. document.revision \in Nat
      BY DEF DraftInv, DraftTypes, DocumentRow
    <3> QED BY <3>1, <3>2, <2>2, <1>1
  <2>4. CASE v # w
    <3>1. view'[v] = view[v]
      BY <2>4 DEF DraftInv, DraftTypes, LoadDocument
    <3> QED BY <3>1, <2>2, <1>1 DEF DraftInv, NewestIsListed
  <2> QED BY <2>3, <2>4
<1> QED BY <1>5, <1>6, <1>7 DEF DraftInv

\* After a save the items of its list are there, at their index, and no others.
LEMMA SaveKeeps ==
  ASSUME DraftInv, NEW w \in Writers, NEW list \in Lists(w), SaveDocument(w, list)
  PROVE  DraftInv'
<1> DEFINE sent == {i \in Items : \E k \in DOMAIN list : list[k] = i}
           at(i) == CHOOSE k \in DOMAIN list : list[k] = i
<1>1. DOMAIN list \subseteq Nat
  <2> DEFINE known == {view[w].list[k] : k \in DOMAIN view[w].list} \cup (Items \ StoredItems)
  <2>1. PICK n \in 1..Cardinality(known) : list \in [1..n -> known]
    BY DEF Lists
  <2> HIDE DEF known
  <2> QED BY <2>1
<1>2. \A i \in sent : at(i) \in DOMAIN list /\ list[at(i)] = i
  OBVIOUS
<1>3. \A i \in sent : item'[i] = [state |-> IF i \in Kept THEN item[i].state ELSE "active",
                                  place |-> at(i)]
  BY DEF SaveDocument
<1>4. \A i \in Items \ sent :
        item'[i] = IF i \in Kept THEN [Raised[i] EXCEPT !.state = "deleted"] ELSE Raised[i]
  BY DEF SaveDocument
<1>5. item' = [i \in Items |-> item'[i]]
  BY DEF SaveDocument
<1> HIDE DEF at
<1>6. \A i \in Items : item[i] \in ItemRow
  BY DEF DraftInv, DraftTypes
<1>7. \A i \in sent : item'[i] \in ItemRow /\ item'[i].place = at(i)
  <2>1. TAKE i \in sent
  <2> DEFINE state == IF i \in Kept THEN item[i].state ELSE "active"
  <2>2. state \in {"absent", "active", "disabled", "deleted"}
    BY <1>6 DEF ItemRow
  <2>3. item'[i] = [state |-> state, place |-> at(i)] /\ at(i) \in Nat
    BY <1>1, <1>2, <1>3
  <2> HIDE DEF state
  <2> QED BY <2>2, <2>3 DEF ItemRow
<1>8. \A i \in Items \ sent : item'[i] \in ItemRow
                              /\ item'[i].state \notin {"active", "disabled"}
  <2>1. TAKE i \in Items \ sent
  <2>2. Raised[i] = IF i \in StoredItems THEN [item[i] EXCEPT !.place = @ + Shift] ELSE NoItem
    BY DEF Raised
  <2>3. CASE i \in Kept
    <3>1. i \in StoredItems
      BY <2>3 DEF Kept, StoredItems
    <3>2. item'[i] = [[item[i] EXCEPT !.place = @ + Shift] EXCEPT !.state = "deleted"]
      BY <1>4, <2>2, <2>3, <3>1
    <3>3. item[i].place + Shift \in Nat
      BY <1>6, ShiftAssumption DEF ItemRow
    <3> QED BY <3>2, <3>3, <1>6 DEF ItemRow
  <2>4. CASE i \notin Kept /\ i \in StoredItems
    <3>1. item'[i] = [item[i] EXCEPT !.place = @ + Shift]
      BY <1>4, <2>2, <2>4
    <3>2. item[i].place + Shift \in Nat
      BY <1>6, ShiftAssumption DEF ItemRow
    <3>3. item[i].state \notin {"active", "disabled"}
      BY <2>4 DEF Kept
    <3> QED BY <3>1, <3>2, <3>3, <1>6 DEF ItemRow
  <2>5. CASE i \notin Kept /\ i \notin StoredItems
    <3>1. item'[i] = NoItem
      BY <1>4, <2>2, <2>5
    <3> QED BY <3>1 DEF ItemRow, NoItem
  <2> QED BY <2>3, <2>4, <2>5
<1> HIDE DEF sent
<1>9. item' \in [Items -> ItemRow]
  BY <1>5, <1>7, <1>8
<1>10. Kept' \subseteq sent
  BY <1>8 DEF Kept
<1>11. PlacesApart'
  BY <1>2, <1>7, <1>10 DEF PlacesApart
<1>12. document.status = "DRAFT" /\ document.revision <= MaxSteps
       /\ document' = [document EXCEPT !.revision = @ + 1]
  BY DEF SaveDocument, Editing, Steps
<1>13. document' = [document EXCEPT !.status = "DRAFT", !.revision = @ + 1]
  BY <1>12 DEF DraftInv, DraftTypes, DocumentRow
<1>14. document.revision + 1 <= MaxSteps + Later["DRAFT"]
  BY <1>12, StepsAssumption DEF Later, DraftInv, DraftTypes, DocumentRow
<1>15. /\ document' \in DocumentRow /\ document'.revision <= MaxSteps + Later[document'.status]
       /\ document'.revision = document.revision + 1
  BY <1>13, <1>14, RevisionRises DEF DraftInv
<1>16. view' = view /\ collided' = collided
  BY DEF SaveDocument
<1>17. DraftTypes'
  BY <1>9, <1>15, <1>16 DEF DraftInv, DraftTypes
<1>18. NewestIsListed'
  BY <1>15, <1>16, RaisedLeavesBehind
<1> QED BY <1>11, <1>17, <1>18 DEF DraftInv

LEMMA ItemKeeps ==
  ASSUME DraftInv, NEW i \in Items, ChangeItem(i)
  PROVE  DraftInv'
<1>1. PICK state \in {"active", "disabled", "deleted"} : item' = [item EXCEPT ![i].state = state]
  BY DEF ChangeItem
<1>2. i \in Kept /\ document.status = "DRAFT" /\ document.revision <= MaxSteps
      /\ document' = [document EXCEPT !.revision = @ + 1] /\ view' = view /\ collided' = collided
  BY DEF ChangeItem, Editing, Steps
<1>3. item \in [Items -> ItemRow]
  BY DEF DraftInv, DraftTypes
<1>4. item' \in [Items -> ItemRow] /\ \A j \in Items : item'[j].place = item[j].place
  BY <1>1, <1>3 DEF ItemRow
<1>5. Kept' \subseteq Kept
  <2>1. \A j \in Items : j # i => item'[j] = item[j]
    BY <1>1, <1>3
  <2> QED BY <2>1, <1>2 DEF Kept
<1>6. PlacesApart'
  <2>1. Kept \subseteq Items
    BY DEF Kept
  <2> QED BY <2>1, <1>4, <1>5 DEF PlacesApart, DraftInv
<1>7. document' = [document EXCEPT !.status = "DRAFT", !.revision = @ + 1]
  BY <1>2 DEF DraftInv, DraftTypes, DocumentRow
<1>8. document.revision + 1 <= MaxSteps + Later["DRAFT"]
  BY <1>2, StepsAssumption DEF Later, DraftInv, DraftTypes, DocumentRow
<1>9. /\ document' \in DocumentRow /\ document'.revision <= MaxSteps + Later[document'.status]
      /\ document'.revision = document.revision + 1
  BY <1>7, <1>8, RevisionRises DEF DraftInv
<1>10. DraftTypes'
  BY <1>2, <1>4, <1>9 DEF DraftInv, DraftTypes
<1>11. NewestIsListed'
  BY <1>2, <1>9, RaisedLeavesBehind
<1> QED BY <1>6, <1>10, <1>11 DEF DraftInv

\* Review and publication.
LEMMA AdvanceKeeps ==
  ASSUME DraftInv, NEW from \in {"DRAFT", "REVIEWED"}, NEW to \in {"REVIEWED", "PUBLISHED"},
         Later[to] = Later[from] + 1, Advance(from, to)
  PROVE  DraftInv'
<1>1. document.status = from /\ item' = item /\ view' = view /\ collided' = collided
      /\ document' = [document EXCEPT !.status = to, !.revision = @ + 1]
  BY DEF Advance
<1>2. document.revision + 1 <= MaxSteps + Later[to]
  <2>1. document.revision \in Nat /\ document.revision <= MaxSteps + Later[from]
    BY <1>1 DEF DraftInv, DraftTypes, DocumentRow
  <2>2. Later[from] \in Nat
    BY DEF Later
  <2> QED BY <2>1, <2>2, StepsAssumption
<1>3. /\ document' \in DocumentRow /\ document'.revision <= MaxSteps + Later[document'.status]
      /\ document'.revision = document.revision + 1
  BY <1>1, <1>2, RevisionRises DEF DraftInv
<1>4. DraftTypes'
  BY <1>1, <1>3 DEF DraftInv, DraftTypes
<1>5. PlacesApart'
  BY <1>1, SameList DEF PlacesApart, DraftInv
<1>6. NewestIsListed'
  BY <1>1, <1>3, RaisedLeavesBehind
<1> QED BY <1>4, <1>5, <1>6 DEF DraftInv

LEMMA DocumentKeeps ==
  ASSUME DraftInv, item' = item, view' = view, document'.revision = document.revision,
         document'.status = document.status, document' \in DocumentRow, collided' \in BOOLEAN
  PROVE  DraftInv'
<1>1. Kept' = Kept /\ Listed' = Listed
  BY SameList
<1>2. DraftTypes'
  BY DEF DraftInv, DraftTypes
<1>3. PlacesApart'
  BY <1>1 DEF DraftInv, PlacesApart
<1>4. NewestIsListed'
  BY <1>1 DEF DraftInv, NewestIsListed
<1> QED BY <1>2, <1>3, <1>4 DEF DraftInv

LEMMA DraftSteps == DraftInv /\ [DraftNext]_draftVars => DraftInv'
<1> SUFFICES ASSUME DraftInv, [DraftNext]_draftVars PROVE DraftInv'
  OBVIOUS
<1>1. document \in DocumentRow /\ collided \in BOOLEAN
  BY DEF DraftInv, DraftTypes
<1>2. CASE UNCHANGED draftVars
  BY <1>1, <1>2, DocumentKeeps DEF draftVars
<1>3. CASE \E w \in Writers : LoadDocument(w)
  BY <1>3, LoadKeeps
<1>4. CASE \E w \in Writers : SaveRefusedByKey(w)
  BY <1>1, <1>4, DocumentKeeps DEF SaveRefusedByKey
<1>5. CASE \E w \in Writers : \E list \in Lists(w) : SaveDocument(w, list)
  BY <1>5, SaveKeeps
<1>6. CASE \E i \in Items : ChangeItem(i)
  BY <1>6, ItemKeeps
<1>7. CASE ChangeDocument
  <2>1. document' \in DocumentRow /\ document'.revision = document.revision
        /\ document'.status = document.status
    BY <1>1, <1>7 DEF ChangeDocument, DocumentRow
  <2> QED BY <2>1, <1>1, <1>7, DocumentKeeps DEF ChangeDocument
<1>8. CASE ReviewDocument
  <2>1. Later["REVIEWED"] = Later["DRAFT"] + 1
    BY DEF Later
  <2> QED BY <2>1, <1>8, AdvanceKeeps DEF ReviewDocument
<1>9. CASE PublishDocument
  <2>1. Later["PUBLISHED"] = Later["REVIEWED"] + 1
    BY DEF Later
  <2> QED BY <2>1, <1>9, AdvanceKeeps DEF PublishDocument
<1> QED BY <1>2, <1>3, <1>4, <1>5, <1>6, <1>7, <1>8, <1>9 DEF DraftNext

\* What the invariant says of the types and of a save that is accepted.
LEMMA DraftHolds ==
  ASSUME DraftInv
  PROVE  /\ DraftTypeOK
         /\ \A w \in Writers : \/ view[w].list = Listed
                               \/ \A list \in Lists(w) : ~SaveDocument(w, list)
<1>1. DraftTypeOK
  <2>1. \A w \in Writers : view[w].revision \in 1..document.revision /\ view[w].list \in ItemLists
    BY DEF DraftInv, DraftTypes, NewestIsListed, DocumentRow
  <2>2. \A i \in Items : item[i] \in ItemRow
    BY DEF DraftInv, DraftTypes
  <2> QED BY <2>1, <2>2 DEF DraftTypeOK, DraftInv, DraftTypes, DocumentRow, ItemRow, ItemLists
<1>2. ASSUME NEW w \in Writers, NEW list \in Lists(w), SaveDocument(w, list)
      PROVE  view[w].list = Listed
  BY <1>2 DEF SaveDocument, DraftInv, NewestIsListed
<1> QED BY <1>1, <1>2

-----------------------------------------------------------------------------
(***************************************************************************)
(* The desks together                                                      *)
(***************************************************************************)
LEMMA Beginnings ==
  Init => /\ desk \in Desks /\ TreeInit /\ EditInit /\ DraftInit /\ DictionaryInit
          /\ ParseInit /\ PageInit /\ MigrationInit
BY DEF Init, TreeAtRest, EditAtRest, ParseAtRest, PageAtRest

\* A step of one desk is a step of that desk's own module and leaves the others alone.
LEMMA DesksApart ==
  [Next]_vars =>
    /\ [TreeNext]_treeVars /\ [EditNext]_editVars /\ [DraftNext]_draftVars
    /\ [DictionaryNext]_dictionaryVars /\ [ParseNext]_parseVars
    /\ [PageNext]_pageVars /\ [MigrationNext]_migrationVars
    /\ desk' = desk
<1> SUFFICES ASSUME [Next]_vars
             PROVE  /\ [TreeNext]_treeVars /\ [EditNext]_editVars /\ [DraftNext]_draftVars
                    /\ [DictionaryNext]_dictionaryVars /\ [ParseNext]_parseVars
                    /\ [PageNext]_pageVars /\ [MigrationNext]_migrationVars
                    /\ desk' = desk
  OBVIOUS
<1>1. CASE UNCHANGED vars
  BY <1>1, Zenon DEF vars, deskVars
<1>2. CASE Trees
  BY <1>2, Zenon DEF Trees
<1>3. CASE Forms
  BY <1>3, Zenon DEF Forms
<1>4. CASE Amendments
  BY <1>4, Zenon DEF Amendments
<1>5. CASE Words
  BY <1>5, Zenon DEF Words
<1>6. CASE Parser
  BY <1>6, Zenon DEF Parser
<1>7. CASE Page
  BY <1>7, Zenon DEF Page
<1>8. CASE Schema
  BY <1>8, Zenon DEF Schema
<1> QED BY <1>1, <1>2, <1>3, <1>4, <1>5, <1>6, <1>7, <1>8 DEF Next

LEMMA TreeInvariance == Spec => []TreeInv
<1>1. Init => TreeInv
  BY Beginnings, TreeInitially
<1>2. TreeInv /\ [Next]_vars => TreeInv'
  BY DesksApart, TreeSteps
<1> QED BY <1>1, <1>2, PTL DEF Spec

LEMMA DictionaryInvariance == Spec => []DictInv
<1>1. Init => DictInv
  BY Beginnings, DictionaryInitially
<1>2. DictInv /\ [Next]_vars => DictInv'
  BY DesksApart, DictionarySteps
<1> QED BY <1>1, <1>2, PTL DEF Spec

LEMMA EditInvariance == Spec => []EditInv
<1>1. Init => EditInv
  BY Beginnings, EditInitially
<1>2. EditInv /\ [Next]_vars => EditInv'
  BY DesksApart, EditSteps
<1> QED BY <1>1, <1>2, PTL DEF Spec

LEMMA PageInvariance == Spec => []PageInv
<1>1. Init => PageInv
  BY Beginnings, PageInitially
<1>2. PageInv /\ [Next]_vars => PageInv'
  BY DesksApart, PageSteps
<1> QED BY <1>1, <1>2, PTL DEF Spec

LEMMA ParseInvariance == Spec => []ParseInv
<1>1. Init => ParseInv
  BY Beginnings, ParseStarts
<1>2. ParseInv /\ [Next]_vars => ParseInv'
  BY DesksApart, ParseSteps
<1> QED BY <1>1, <1>2, PTL DEF Spec

LEMMA DraftInvariance == Spec => []DraftInv
<1>1. Init => DraftInv
  BY Beginnings, DraftStarts
<1>2. DraftInv /\ [Next]_vars => DraftInv'
  BY DesksApart, DraftSteps
<1> QED BY <1>1, <1>2, PTL DEF Spec

LEMMA MigrationInvariance == Spec => []StartInv
<1>1. Init => StartInv
  BY Beginnings, StartsBegin
<1>2. StartInv /\ [Next]_vars => StartInv'
  BY DesksApart, StartsKeep
<1> QED BY <1>1, <1>2, PTL DEF Spec

\* Moves in the tree of a law, or of the subjects, that two administrators make at
\* the same time never close a cycle: each walks up from the parent it was given,
\* locking one row after the other, and holds what it walked over until it has
\* written (record-validation.ts:38-41).
THEOREM TreesHaveNoCycle == Spec => []NoCycle
<1>1. TreeInv => NoCycle
  BY TreeHolds
<1> QED BY <1>1, TreeInvariance, PTL

\* However deletions, disablings and enablings of rows, articles and laws overlap,
\* no living row hangs from a deleted one and no active node of a law from a disabled
\* one (lifecycle.service.ts:221, 294-389).
THEOREM NothingInForceHangsLoose == Spec => []NothingHangsFromTheGone
<1>1. TreeInv => NothingHangsFromTheGone
  BY TreeHolds
<1> QED BY <1>1, TreeInvariance, PTL

\* Whoever works on the synonym dictionary, and whichever of the requests under way
\* holds which row: at most one set is being written and at most one answers, and the
\* one that answers is never left without a pair (admin.service.ts:284-317, 2330-2445).
THEOREM OneDictionaryIsInForce == Spec => []DictionaryStaysWhole
<1>1. DictInv => DictionaryStaysWhole
  BY WholeDictionary
<1> QED BY <1>1, DictionaryInvariance, PTL

\* A save that the server accepts was composed from the values that are in the rows,
\* however the answers of earlier saves were lost, overtaken or heard by a form that
\* was opened again; a card that took its revision from an earlier opening of its
\* dialog is the exception (edit-revision.ts:3-16, useEditConflict.tsx:38-148).
THEOREM NoSaveOverwritesUnseen == Spec => NoLostUpdate
<1>1. EditInv => [\A m \in mail : Accept(m) =>
                    Stands(m) \/ (screen = "card" /\ m.source = "earlier merge")]_editVars
  BY AcceptedIsCurrent
<1> QED BY <1>1, EditInvariance, PTL DEF NoLostUpdate

\* What a page sends, however long it has been open and whatever it still shows, decides
\* nothing that its user may not decide: it makes nothing REVIEWED, REJECTED, PUBLISHED,
\* REPLACED or REPEALED without the permission of that status, changes no words of a
\* decided annex, no words of articles past IN_REVIEW, no link of a source past DRAFT, and
\* makes another move of the workflow than the one shown only for somebody who may make
\* both moves that ask for that status.  Not everything decided stands:
\* relation.update alone takes a reviewed relation back, annex.publish alone a repealed
\* annex, and words change until the law has left IN_REVIEW (AdminContentDetailPage.tsx:2342,
\* admin.service.ts:107, :1205-1209, :1395-1406, :1549-1550, :1857).
THEOREM PagesDecideWithinPermission == Spec => NoDecisionBeyondPermission
<1>1. PageInv /\ [Next]_vars =>
        [\A c \in Clerks : SendForm(c) =>
           /\ tab = "annexes" => AnnexStands(held[c])
           /\ tab = "relations" => RelationStands(held[c])
           /\ SourceStands(held[c]) /\ TextStands(held[c])
           /\ lawRow'.status # lawRow.status /\ loaded[c].law.status # lawRow.status =>
                {"legislation.prepare", "legislation.return"} \subseteq held[c]]_pageVars
  BY DesksApart, PageSteps DEF DecisionStands
<1> QED BY <1>1, PageInvariance, PTL DEF Spec, NoDecisionBeyondPermission

\* In a document of any length and any lines, each node hangs from the nearest heading
\* of a higher rank that still governs it and each article from the innermost; each line
\* of text read so far is in the preamble, a title or an article exactly when it stands
\* where they take it from; and of what is left over, which no row keeps, each passage has
\* a notice that points at its first line and nothing else has one
\* (legal-structure-parser.ts:250-417).
THEOREM TheParserReadsWhatIsWritten == Spec => []ReadsWhatIsWritten
<1>1. ParseInv => ReadsWhatIsWritten
  BY ParseHolds
<1> QED BY <1>1, ParseInvariance, PTL

\* The parser's result always makes a draft: no node has a parent that createDraft
\* refuses, there is an article even where no marker was found, and the sort keys of the
\* rows give the order of the document back (legal-structure-parser.ts:309, :422-451;
\* imports.service.ts:601-700).
THEOREM DraftsAreWhatWasParsed == Spec => []DraftsWhatItParsed
<1>1. ParseInv => DraftsWhatItParsed
  BY ParseHolds
<1> QED BY <1>1, ParseInvariance, PTL

\* Whoever saves a version of an amendment document and has it accepted had in front of
\* him every item there was, in its order: the revision is compared under the lock that
\* every change of the items takes too (amendments.service.ts:134-137,
\* lifecycle.service.ts:245-248).
THEOREM NoItemIsOverlooked == Spec => NoItemOverlooked
<1>1. DraftInv => [\A w \in Writers : \/ view[w].list = Listed
                                      \/ \A list \in Lists(w) : ~SaveDocument(w, list)]_draftVars
  BY DraftHolds
<1> QED BY <1>1, DraftInvariance, PTL DEF NoItemOverlooked

\* However the migrations were run, broken off, reverted and run again before: no revert of
\* 13, 15, 16, 17 or 18 loses what administrators have left in the rows, and one that is
\* refused, unless it is that of 18, leaves schema and rows as it found them.  The reverts
\* of 10, 12 and 14 ask nothing and lose attachments, links, levels of roles, disabled
\* roles, grants and overrides (1700000000015-administrative-lifecycle.ts:472,
\* 1700000000016-reference-lifecycle.ts, scripts/test/crud-migrations.mjs:188).
THEOREM RevertsLoseNothing == Spec => RevertLosesNothing
<1>1. StartInv /\ [Next]_vars =>
        [runner.way = "down" =>
           /\ runner.number \notin {10, 12, 14} => used \subseteq used'
           /\ Fail /\ runner.number # 18 /\ Statement.refusedBy \cap used # {} =>
                facts' = runner.found /\ access' = runner.saved]_migrationVars
  BY DesksApart, RevertsSafely DEF StartInv
<1> QED BY <1>1, MigrationInvariance, PTL DEF Spec, RevertLosesNothing

\* A database that the schema contract accepts, on which no revert broke off, has been
\* through every migration in full, whatever was broken off, run again and reverted before;
\* and a session on it holds exactly what the map of migration 12 makes of the account's
\* old grants (1700000000012-canonical-rbac-security.ts:59-166, auth.service.ts:166-215,
\* schema-contract.mjs:28-79).
THEOREM ProcessesStartOnWholeSchema == Spec => []StartsOnWholeSchema
<1>1. StartInv => StartsOnWholeSchema
  BY StartsWhole
<1> QED BY <1>1, MigrationInvariance, PTL

\* The rows of every desk stay of their kinds: what the tables' columns, keys and
\* foreign keys admit, and what the forms and pages hold of them.
THEOREM RecordsTypesHold == Spec => []TypeOK
<1>1. Init => desk \in Desks
  BY Beginnings
<1>2. desk \in Desks /\ [Next]_vars => (desk \in Desks)'
  BY DesksApart
<1>3. TreeInv /\ EditInv /\ DraftInv /\ DictInv /\ PageInv /\ StartInv =>
        /\ TreeTypeOK /\ EditTypeOK /\ DraftTypeOK /\ DictionaryTypeOK
        /\ PageTypeOK /\ MigrationTypeOK
  BY TreeHolds, EditHolds, DraftHolds, WholeDictionary, PageHolds, MigrationHolds
     DEF StartInv
<1>4. desk \in Desks /\ TreeInv /\ EditInv /\ DraftInv /\ DictInv /\ PageInv /\ StartInv =>
        TypeOK
  BY <1>3 DEF TypeOK
<1> QED BY <1>1, <1>2, <1>4, TreeInvariance, EditInvariance, DraftInvariance,
           DictionaryInvariance, PageInvariance, MigrationInvariance, PTL DEF Spec
=============================================================================
