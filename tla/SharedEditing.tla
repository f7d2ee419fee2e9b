---------------------------- MODULE SharedEditing ----------------------------
(***************************************************************************)
(* Two people edit the same records: settings, reference lists and gazette *)
(* issues, navigation links and public pages.  A row carries an edit       *)
(* revision that a trigger raises on every update; a form sends the        *)
(* revision it started from, and a save from another one is answered with  *)
(* the current values, for the user to choose from.                        *)
(*                                                                         *)
(* The revision a form sends and the values it shows are kept in two       *)
(* places: the hook useEditConflict holds the one, the input fields the    *)
(* other.  Three kinds of screen place the hook differently: a settings    *)
(* group is always on the page with its hook, a dialog makes a hook each   *)
(* time it opens, a card keeps its hook while its dialog opens and closes. *)
(***************************************************************************)
EXTENDS Integers, FiniteSets

CONSTANTS
  Editors,       \* people with the screen open
  Settings,      \* rows of one settings group
  Record,        \* the one row of the other screens
  MaxRevision,   \* bound on the revisions of a row
  MaxMail        \* bound on the saves under way

ASSUME RecordAssumption == Record \notin Settings
ASSUME RevisionAssumption == MaxRevision \in Nat \ {0}

VARIABLES
  screen,    \* "group", "dialog" or "card"
  row,       \* the rows: [revision, alive]
  page,      \* revisions of the values each editor's page has loaded
  hook,      \* useEditConflict: [base, conflict, source]
  form,      \* [open, saving, shown]: shown is the revision of its values
  mail       \* saves under way and their answers

editVars == <<screen, row, page, hook, form, mail>>

Editable == IF screen = "group" THEN Settings ELSE {Record}
Revisions == [Settings \cup {Record} -> 1..MaxRevision]
Current == [r \in Settings \cup {Record} |-> row[r].revision]
Alive == \A r \in Editable : row[r].alive

Oldest == [r \in Settings \cup {Record} |-> 1]
NoConflict == [pending |-> FALSE, revision |-> Oldest, here |-> FALSE]
Mounted(from) == [base |-> from, conflict |-> NoConflict, source |-> "mount"]
NoHook == Mounted(Oldest)

\* The screen as it comes up: a settings group with its form, the cards with
\* their hooks, a list with neither.
FirstHook == IF screen = "dialog" THEN NoHook ELSE Mounted(Current)
FirstForm == [open |-> screen = "group", saving |-> FALSE,
              shown |-> IF screen = "group" THEN Current ELSE Oldest]

EditInit ==
  /\ screen \in {"group", "dialog", "card"}
  /\ row = [r \in Settings \cup {Record} |-> [revision |-> 1, alive |-> TRUE]]
  /\ page = [e \in Editors |-> Current]
  /\ hook = [e \in Editors |-> FirstHook]
  /\ form = [e \in Editors |-> FirstForm]
  /\ mail = {}

(***************************************************************************)
(* A message: the save of e, from revision base, with values read at       *)
(* revision shown; `for` is who hears the answer: the form it was sent     *)
(* from, the page (the form has been closed), or nobody.                   *)
(***************************************************************************)
Redirected(e, from, to) ==
  {IF m.by = e /\ m.for \in from THEN [m EXCEPT !.for = to] ELSE m : m \in mail}

\* useApi: while the page loads, all it showed is taken down.
Loaded(e, letters) ==
  /\ page' = [page EXCEPT ![e] = Current]
  /\ hook' = [hook EXCEPT ![e] = FirstHook]
  /\ form' = [form EXCEPT ![e] = FirstForm]
  /\ mail' = {IF m.by = e THEN [m EXCEPT !.for = "nobody"] ELSE m : m \in letters}
  /\ UNCHANGED <<screen, row>>

Visit(e) ==
  /\ Alive
  /\ Loaded(e, mail)

Open(e) ==
  /\ screen # "group" /\ ~form[e].open
  /\ form' = [form EXCEPT ![e].open = TRUE, ![e].shown = page[e]]
  /\ hook' = IF screen = "dialog"
             THEN [hook EXCEPT ![e] = Mounted(page[e])] ELSE hook
  /\ UNCHANGED <<screen, row, page, mail>>

\* What a card's hook is when its dialog has been closed: a merge made in that
\* dialog is one of an earlier opening from now on.
Closed(h) ==
  [base |-> h.base, conflict |-> [h.conflict EXCEPT !.here = FALSE],
   source |-> IF h.source = "merge" THEN "earlier merge" ELSE h.source]

\* The close button of AdminDialog works while a save is under way.
Cancel(e) ==
  /\ screen # "group" /\ form[e].open
  /\ form' = [form EXCEPT ![e] = [open |-> FALSE, shown |-> Oldest,
                                  saving |-> @.saving /\ screen = "card"]]
  /\ hook' = [hook EXCEPT ![e] =
                IF screen = "dialog" THEN NoHook ELSE Closed(@)]
  /\ mail' = Redirected(e, {"form"}, "page")
  /\ UNCHANGED <<screen, row, page>>

Submit(e) ==
  /\ form[e].open /\ ~form[e].saving /\ ~hook[e].conflict.pending
  /\ Cardinality(mail) < MaxMail
  /\ mail' = mail \cup {[by |-> e, base |-> hook[e].base, shown |-> form[e].shown,
                         source |-> hook[e].source, for |-> "form",
                         answer |-> "none"]}
  /\ form' = [form EXCEPT ![e].saving = TRUE]
  /\ UNCHANGED <<screen, row, page, hook>>

(***************************************************************************)
(* The server                                                              *)
(***************************************************************************)
\* Mutant: a group of settings conflicts when all its revisions are stale.
StaleAltogether(m) == \A r \in Editable : m.base[r] # row[r].revision

\* assertEditRevision, and its like over the rows of a settings group.
Stale(m) == \E r \in Editable : m.base[r] # row[r].revision

Answered(m, answer) ==
  mail' = (mail \ {m}) \cup
            {[m EXCEPT !.answer = answer, !.shown = Oldest, !.source = "mount",
                       !.base = IF answer = "conflict" THEN Current ELSE Oldest]}

Accept(m) ==
  /\ m.answer = "none" /\ Alive /\ ~Stale(m)
  /\ \A r \in Editable : row[r].revision < MaxRevision
  /\ row' = [r \in DOMAIN row |->
               IF r \in Editable THEN [row[r] EXCEPT !.revision = @ + 1] ELSE row[r]]
  /\ Answered(m, "saved")
  /\ UNCHANGED <<screen, page, hook, form>>

Conflict(m) ==
  /\ m.answer = "none" /\ Alive /\ Stale(m)
  /\ Answered(m, "conflict")
  /\ UNCHANGED <<screen, row, page, hook, form>>

NotFound(m) ==
  /\ m.answer = "none" /\ ~Alive
  /\ Answered(m, "error")
  /\ UNCHANGED <<screen, row, page, hook, form>>

\* The request, or the answer, is lost on the way.
LoseMail(m) ==
  /\ \/ m.answer = "none"
     \/ m.answer \in {"saved", "conflict"}
  /\ Answered(m, "error")
  /\ UNCHANGED <<screen, row, page, hook, form>>

\* Another update of a row (the life cycle, or the law that rewrites the publisher
\* and notes of its gazette issue) raises its revision through the trigger alone.
UpdateElsewhere(r) ==
  /\ row[r].alive /\ row[r].revision < MaxRevision /\ r \in Editable
  /\ row' = [row EXCEPT ![r].revision = @ + 1]
  /\ UNCHANGED <<screen, page, hook, form, mail>>

\* Settings are never deleted.
DeleteRecord ==
  /\ screen # "group" /\ row[Record].alive /\ row[Record].revision < MaxRevision
  /\ row' = [row EXCEPT ![Record] = [revision |-> @.revision + 1, alive |-> FALSE]]
  /\ UNCHANGED <<screen, page, hook, form, mail>>

(***************************************************************************)
(* The answers                                                             *)
(***************************************************************************)
\* Whoever heard it, the page closes the form and loads again.
Saved(m) ==
  /\ m.answer = "saved" /\ m.for # "nobody"
  /\ Loaded(m.by, mail \ {m})

\* The hook of a dialog that was closed is gone; that of a card is not.
Heard(m) == m.for = "form" \/ (m.for = "page" /\ screen = "card")

Capture(m) ==
  /\ m.answer = "conflict" /\ Heard(m)
  /\ hook' = [hook EXCEPT ![m.by].conflict =
                [pending |-> TRUE, revision |-> m.base, here |-> m.for = "form"]]
  /\ form' = [form EXCEPT ![m.by].saving = FALSE]
  /\ mail' = mail \ {m}
  /\ UNCHANGED <<screen, row, page>>

Failed(m) ==
  /\ m.answer = "error" /\ Heard(m)
  /\ form' = [form EXCEPT ![m.by].saving = FALSE]
  /\ mail' = mail \ {m}
  /\ UNCHANGED <<screen, row, page, hook>>

Unheard(m) ==
  /\ m.answer # "none" /\ ~Heard(m) /\ ~(m.answer = "saved" /\ m.for = "page")
  /\ mail' = mail \ {m}
  /\ UNCHANGED <<screen, row, page, hook, form>>

\* The button of the notice: the choices go to the fields of the form the save
\* was sent from, which a card may have closed since; the hook takes the revision.
Merge(e) ==
  /\ form[e].open /\ hook[e].conflict.pending
  /\ form' = [form EXCEPT ![e].shown =
                IF hook[e].conflict.here THEN hook[e].conflict.revision ELSE @]
  /\ hook' = [hook EXCEPT ![e] =
                [base |-> @.conflict.revision, conflict |-> NoConflict,
                 source |-> IF @.conflict.here THEN "merge" ELSE "earlier merge"]]
  /\ UNCHANGED <<screen, row, page, mail>>

EditNext ==
  \/ \E e \in Editors : Visit(e) \/ Open(e) \/ Cancel(e) \/ Submit(e) \/ Merge(e)
  \/ \E m \in mail : \/ Accept(m) \/ Conflict(m) \/ NotFound(m) \/ LoseMail(m)
                     \/ Saved(m) \/ Capture(m) \/ Failed(m) \/ Unheard(m)
  \/ \E r \in Editable : UpdateElsewhere(r)
  \/ DeleteRecord

-----------------------------------------------------------------------------
EditTypeOK ==
  /\ screen \in {"group", "dialog", "card"}
  /\ row \in [Settings \cup {Record} -> [revision : 1..MaxRevision, alive : BOOLEAN]]
  /\ page \in [Editors -> Revisions]
  /\ hook \in [Editors ->
       [base : Revisions, source : {"mount", "merge", "earlier merge"},
        conflict : [pending : BOOLEAN, revision : Revisions, here : BOOLEAN]]]
  /\ form \in [Editors -> [open : BOOLEAN, saving : BOOLEAN, shown : Revisions]]
  /\ mail \subseteq [by : Editors, base : Revisions, shown : Revisions,
                     source : {"mount", "merge", "earlier merge"},
                     for : {"form", "page", "nobody"},
                     answer : {"none", "saved", "conflict", "error"}]

Stands(m) == \A r \in Editable : m.shown[r] = row[r].revision

\* "A conflict keeps a save from writing over a newer edit" (docs/crud-coverage.md:171):
\* a save that is accepted was composed from the values that are in the rows,
\* however answers are lost, repeated or overtaken (edit-revision.ts:3-16,
\* useEditConflict.tsx:38-148).  The one exception is a card whose hook has its
\* revision from choices made in an earlier opening of its dialog: the dialog
\* then shows the values of the page again and saves them with the newer revision
\* (AdminSettingsPage.tsx:467, :739).
NoLostUpdate ==
  [][\A m \in mail : Accept(m) => Stands(m) \/ (screen = "card" /\ m.source = "earlier merge")]_editVars
=============================================================================
