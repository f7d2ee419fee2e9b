----------------------------- MODULE Dictionary -----------------------------
(***************************************************************************)
(* The synonym dictionary of the search: numbered sets of pairs, of which  *)
(* one is being written (DRAFT), one answers (ACTIVE) and the others are   *)
(* kept (ARCHIVED).  No constraint of the database says so: it follows     *)
(* from what each request locks before it decides.                         *)
(***************************************************************************)
EXTENDS Integers, FiniteSets

CONSTANTS
  Terms,       \* pairs of expressions
  Curators,    \* requests running at a time
  LastSet,     \* bound on the versions of the dictionary
  SeedSet      \* pairs of the first set (seed.ts), {} when there was no seed

ASSUME LastSetAssumption == LastSet \in Nat \ {0}
ASSUME TermsAssumption == Terms # {} /\ SeedSet \subseteq Terms

VARIABLES
  sets,      \* by version_no: [status, active, deleted]
  pairs,     \* by version_no: the state of each pair
  edit,      \* the request of each curator: [op, set, pair]
  locked     \* rows of search_synonym_sets each holds, and the gap after them

dictionaryVars == <<sets, pairs, edit, locked>>

Versions == 1..LastSet
Gap == LastSet + 1
PairStates == {"absent", "active", "disabled", "deleted"}
NoSet == [status |-> "none", active |-> FALSE, deleted |-> FALSE]
NoPairs == [t \in Terms |-> "absent"]
NoEdit == [op |-> "none", set |-> 0, pair |-> CHOOSE t \in Terms : TRUE]

Exists(v) == sets[v].status # "none"
Stored == {v \in Versions : Exists(v)}
Drafts == {v \in Stored : sets[v].status = "DRAFT" /\ ~sets[v].deleted}
NextVersion == Cardinality(Stored) + 1
Newest(S) == CHOOSE v \in S : \A w \in S : w <= v
ActivePairs(v) == {t \in Terms : pairs[v][t] = "active"}

DictionaryInit ==
  /\ sets = [v \in Versions |->
               IF v = 1 /\ SeedSet # {}
               THEN [status |-> "ACTIVE", active |-> TRUE, deleted |-> FALSE] ELSE NoSet]
  /\ pairs = [v \in Versions |->
                [t \in Terms |-> IF v = 1 /\ t \in SeedSet THEN "active" ELSE "absent"]]
  /\ edit = [c \in Curators |-> NoEdit]
  /\ locked = [c \in Curators |-> {}]

-----------------------------------------------------------------------------
(***************************************************************************)
(* A request locks, decides by what it sees, and writes before it lets go. *)
(* A scan of the whole table locks its rows and the gap after the last,    *)
(* where two may wait side by side; an insertion waits for every other     *)
(* holder of the gap, and of two that wait for each other the database     *)
(* rolls one back.                                                         *)
(***************************************************************************)
FreeRow(c, v) == \A d \in Curators \ {c} : v \notin locked[d]

Takes(c, op, v, t, rows) ==
  /\ edit[c] = NoEdit
  /\ \A w \in rows \ {Gap} : FreeRow(c, w)
  /\ edit' = [edit EXCEPT ![c] = [op |-> op, set |-> v, pair |-> t]]
  /\ locked' = [locked EXCEPT ![c] = rows]
  /\ UNCHANGED <<sets, pairs>>

\* Mutant: the drafts are looked for without a lock.
ScanUnlocked == {}

Scan == Stored \cup {Gap}

\* createSynonymSet: refused while there is a draft.
BeginSet(c) ==
  /\ Drafts = {}
  /\ Takes(c, "createSet", 0, NoEdit.pair, Scan)

\* addSynonym: into the newest draft, which is made when there is none.
BeginPair(c) ==
  \E t \in Terms :
    \/ /\ Drafts = {}
       /\ Takes(c, "addToNewSet", 0, t, Scan)
    \/ /\ Drafts # {} /\ sets[Newest(Drafts)].active
       /\ pairs[Newest(Drafts)][t] = "absent"
       /\ Takes(c, "add", Newest(Drafts), t, {Newest(Drafts)})

\* Requests about one set, or one pair of it, lock the row of the set.
BeginOnSet(c) ==
  \E v \in Stored :
    /\ ~sets[v].deleted
    /\ \E op \in {"activate", "enableSet", "disableSet", "deleteSet"} :
         Takes(c, op, v, NoEdit.pair, {v})

BeginOnPair(c) ==
  \E v \in Stored, t \in Terms :
    /\ pairs[v][t] \in {"active", "disabled"} /\ sets[v].status = "DRAFT"
    /\ \E op \in {"replace", "enable", "disable", "delete"} : Takes(c, op, v, t, {v})

Ends(c) ==
  /\ edit' = [edit EXCEPT ![c] = NoEdit]
  /\ locked' = [locked EXCEPT ![c] = {}]

GiveUp(c) ==
  /\ edit[c] # NoEdit
  /\ Ends(c) /\ UNCHANGED <<sets, pairs>>

MayInsert(c) ==
  /\ NextVersion \in Versions
  /\ \A d \in Curators \ {c} : Gap \notin locked[d]

NewDraft == [sets EXCEPT ![NextVersion] =
               [status |-> "DRAFT", active |-> TRUE, deleted |-> FALSE]]

CreateSynonymSet(c) ==
  /\ edit[c].op = "createSet" /\ MayInsert(c)
  /\ sets' = NewDraft
  /\ Ends(c) /\ UNCHANGED pairs

AddSynonym(c) ==
  \/ /\ edit[c].op = "addToNewSet" /\ MayInsert(c)
     /\ sets' = NewDraft
     /\ pairs' = [pairs EXCEPT ![NextVersion][edit[c].pair] = "active"]
     /\ Ends(c)
  \/ /\ edit[c].op = "add"
     /\ pairs' = [pairs EXCEPT ![edit[c].set][edit[c].pair] = "active"]
     /\ Ends(c) /\ UNCHANGED sets

\* The pair of a row is rewritten; another row of the set may not hold it.
UpdateSynonym(c) ==
  /\ edit[c].op = "replace"
  /\ \E t \in Terms :
       /\ pairs[edit[c].set][t] = "absent"
       /\ pairs' = [pairs EXCEPT ![edit[c].set][t] = pairs[edit[c].set][edit[c].pair],
                                 ![edit[c].set][edit[c].pair] = "absent"]
  /\ Ends(c) /\ UNCHANGED sets

ChangePair(c) ==
  /\ edit[c].op \in {"enable", "disable", "delete"}
  /\ pairs' = [pairs EXCEPT ![edit[c].set][edit[c].pair] =
                 CASE edit[c].op = "enable" -> "active"
                   [] edit[c].op = "disable" -> "disabled"
                   [] edit[c].op = "delete" -> "deleted"]
  /\ Ends(c) /\ UNCHANGED sets

\* Only a draft that holds no row of a pair, not even a deleted one, is deleted.
ChangeSet(c) ==
  /\ \/ edit[c].op \in {"enableSet", "disableSet"}
     \/ /\ edit[c].op = "deleteSet" /\ sets[edit[c].set].status = "DRAFT"
        /\ pairs[edit[c].set] = NoPairs
  /\ sets' = [sets EXCEPT ![edit[c].set].active = edit[c].op = "enableSet",
                          ![edit[c].set].deleted = edit[c].op = "deleteSet"]
  /\ Ends(c) /\ UNCHANGED pairs

\* The set that answered is archived, whether or not it was enabled.
ActivateSynonymSet(c) ==
  /\ edit[c].op = "activate"
  /\ sets[edit[c].set].active /\ sets[edit[c].set].status = "DRAFT"
  /\ ActivePairs(edit[c].set) # {}
  /\ \A v \in Stored : sets[v].status = "ACTIVE" => FreeRow(c, v)
  /\ sets' = [v \in Versions |->
                IF v = edit[c].set THEN [sets[v] EXCEPT !.status = "ACTIVE"]
                ELSE IF sets[v].status = "ACTIVE" THEN [sets[v] EXCEPT !.status = "ARCHIVED"]
                ELSE sets[v]]
  /\ Ends(c) /\ UNCHANGED pairs

DictionaryNext ==
  \E c \in Curators :
    \/ BeginSet(c) \/ BeginPair(c) \/ BeginOnSet(c) \/ BeginOnPair(c) \/ GiveUp(c)
    \/ CreateSynonymSet(c) \/ AddSynonym(c) \/ UpdateSynonym(c)
    \/ ChangePair(c) \/ ChangeSet(c) \/ ActivateSynonymSet(c)

\* What the search expands a word by (mariadb-search.provider.ts).
Synonyms ==
  {p \in Stored \X Terms :
     /\ sets[p[1]].status = "ACTIVE" /\ sets[p[1]].active /\ ~sets[p[1]].deleted
     /\ pairs[p[1]][p[2]] = "active"}

-----------------------------------------------------------------------------
DictionaryTypeOK ==
  /\ sets \in [Versions -> [status : {"none", "DRAFT", "ACTIVE", "ARCHIVED"},
                            active : BOOLEAN, deleted : BOOLEAN]]
  /\ pairs \in [Versions -> [Terms -> PairStates]]
  /\ edit \in [Curators -> [set : 0..LastSet, pair : Terms,
       op : {"none", "createSet", "addToNewSet", "add", "replace", "enable", "disable",
             "delete", "activate", "enableSet", "disableSet", "deleteSet"}]]
  /\ locked \in [Curators -> SUBSET (1..Gap)]

\* The dictionary stays whole: at most one set is being written and at most one
\* answers, and the one that answers is never left without a pair
\* (admin.service.ts:284-317, 2330-2445), though each request decides by what it
\* saw before others wrote.
DictionaryStaysWhole ==
  /\ Cardinality(Drafts) <= 1
  /\ Cardinality({v \in Stored : sets[v].status = "ACTIVE"}) <= 1
  /\ \A v \in Stored : sets[v].status = "ACTIVE" => ActivePairs(v) # {}
  /\ \A v \in Stored : sets[v].deleted => sets[v].status = "DRAFT" /\ pairs[v] = NoPairs
  /\ Cardinality({p[1] : p \in Synonyms}) <= 1
=============================================================================
