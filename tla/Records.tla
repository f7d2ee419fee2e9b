------------------------------ MODULE Records ------------------------------
(***************************************************************************)
(* The desks of the administration that share no table with each other:    *)
(* the trees of a law and of the subjects, the forms that several people   *)
(* edit, the amendment documents, the synonym dictionary, the parser that  *)
(* makes the rows of a draft law, the page of one law, and the schema that *)
(* all of them stand on.  A behaviour is about one of them; the others     *)
(* rest, so that each is explored in full and none is multiplied by the    *)
(* others.                                                                 *)
(***************************************************************************)
EXTENDS Hierarchy, SharedEditing, AmendmentDraft, Dictionary, StructureParser,
  ContentPage, Migrations

VARIABLE desk

deskVars == <<treeVars, editVars, draftVars, dictionaryVars, parseVars,
              pageVars, migrationVars>>
vars == <<desk, deskVars>>

Desks == {"trees", "forms", "amendments", "dictionary", "parser", "page", "schema"}

TreeAtRest == TreeInit /\ tree = "subjects" /\ node = CHOOSE forest \in InitNodes : TRUE
EditAtRest == EditInit /\ screen = "group"
OneLine == CHOOSE d \in Documents : Len(d) = 1
ParseAtRest == doc = OneLine /\ ParseInit
SomeAssignment == CHOOSE a \in Assignments : TRUE
PageAtRest ==
  /\ PageInit /\ tab = "general" /\ held = SomeAssignment
  /\ lawRow.status = "INBOX" /\ source.state = "PENDING"

Init ==
  /\ desk \in Desks
  /\ IF desk = "trees" THEN TreeInit ELSE TreeAtRest
  /\ IF desk = "forms" THEN EditInit ELSE EditAtRest
  /\ DraftInit
  /\ DictionaryInit
  /\ IF desk = "parser" THEN ParseInit ELSE ParseAtRest
  /\ IF desk = "page" THEN PageInit ELSE PageAtRest
  /\ MigrationInit /\ (desk # "schema" => EmptyBefore10)

Trees ==
  /\ desk = "trees" /\ TreeNext
  /\ UNCHANGED <<desk, editVars, draftVars, dictionaryVars, parseVars,
               pageVars, migrationVars>>
Forms ==
  /\ desk = "forms" /\ EditNext
  /\ UNCHANGED <<desk, treeVars, draftVars, dictionaryVars, parseVars,
               pageVars, migrationVars>>
Amendments ==
  /\ desk = "amendments" /\ DraftNext
  /\ UNCHANGED <<desk, treeVars, editVars, dictionaryVars, parseVars,
               pageVars, migrationVars>>
Words ==
  /\ desk = "dictionary" /\ DictionaryNext
  /\ UNCHANGED <<desk, treeVars, editVars, draftVars, parseVars,
               pageVars, migrationVars>>
Parser ==
  /\ desk = "parser" /\ ParseNext
  /\ UNCHANGED <<desk, treeVars, editVars, draftVars, dictionaryVars,
               pageVars, migrationVars>>
Page ==
  /\ desk = "page" /\ PageNext
  /\ UNCHANGED <<desk, treeVars, editVars, draftVars, dictionaryVars, parseVars,
               migrationVars>>
Schema ==
  /\ desk = "schema" /\ MigrationNext
  /\ UNCHANGED <<desk, treeVars, editVars, draftVars, dictionaryVars, parseVars,
               pageVars>>

Next == Trees \/ Forms \/ Amendments \/ Words \/ Parser \/ Page \/ Schema

Spec == Init /\ [][Next]_vars

TypeOK ==
  /\ desk \in Desks
  /\ TreeTypeOK /\ EditTypeOK /\ DraftTypeOK /\ DictionaryTypeOK
  /\ PageTypeOK /\ MigrationTypeOK
=============================================================================
