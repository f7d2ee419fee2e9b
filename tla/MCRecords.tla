----------------------------- MODULE MCRecords -----------------------------
(***************************************************************************)
(* Three rows of a tree, two of them the roots of trees that requests can  *)
(* hang from each other, or a disabled one below an active one; two        *)
(* requests, two editors and two curators at a time; an amendment document *)
(* of two items with a third to add; every document of up to four lines    *)
(* over ten kinds of line: the headings of the three levels with a title,  *)
(* a bare one, an unread one between them, and every other kind of line    *)
(* the loop tells apart; two clerks at the page of a law, who enter data   *)
(* or review it, or enter data and publish; and a database in which one of *)
(* the newer columns or tables is used, by rows of each kind that a        *)
(* migration treats in its own way, with a custom role and direct grants   *)
(* of each kind that migration 12 converts.                                *)
(***************************************************************************)
EXTENDS Records, TLC

CONSTANTS n1, n2, n3, a1, i1, i2, i3, d1, d2

MCNodes == {n1, n2, n3}
MCArticles == {a1}
Row(state, parent) == [state |-> state, parent |-> parent]
MCInitNodes ==
  {n1 :> Row("active", None) @@ n2 :> Row("active", n1) @@ n3 :> Row("active", None),
   n1 :> Row("active", None) @@ n2 :> Row("disabled", n1) @@ n3 :> Row("absent", None)}
MCInitArticles ==
  {a1 :> [state |-> "absent", node |-> None], a1 :> [state |-> "active", node |-> n1]}

MCItems == {i1, i2, i3}
MCFirstItems == <<i1, i2>>

MCLineKinds ==
  {Heading(l, "titled") : l \in Levels}
    \cup {Heading(3, "bare"), Heading(2, "unread")}
    \cup {Line("article", f) : f \in {"bodied", "glued"}}
    \cup {Line("text", "short"), Line("blank", "empty"), Line("page", "marker")}

MCDataEntry ==
  {"legislation.update", "legislation.prepare", "legislation.submit", "article.create",
   "article.update", "structure.create", "structure.update", "annex.create",
   "annex.update", "annex.delete", "relation.create", "relation.update",
   "source.update", "source.delete"}
MCReviewer ==
  {"legislation.approve", "legislation.return", "relation.create", "relation.update",
   "relation.review", "relation.disable", "relation.enable", "source.update", "source.review"}
MCManager ==
  {"legislation.update", "legislation.published_metadata.update", "legislation.publish",
   "legislation.archive", "legislation.disable", "legislation.enable", "structure.create",
   "structure.update", "annex.create", "annex.update", "annex.publish", "annex.replace",
   "annex.repeal", "relation.create", "relation.update", "relation.delete"}
MCClerks == {d1, d2}
MCAssignments ==
  {d1 :> MCDataEntry @@ d2 :> MCReviewer, d1 :> MCDataEntry @@ d2 :> MCManager}

MCUses ==
  {<<"legislations", "is_active">>, <<"users", "deleted_at">>,
   <<"amendment_operations", "replacement_from">>,
   <<"password_recovery_requests", "table">>, <<"articles", "repeated label">>,
   <<"source_documents", "second copy">>, <<"roles", "deleted">>,
   <<"roles", "is_active">>, <<"roles", "authority_level">>, <<"role_permissions", "table">>}
MCCustomGrants == {{"legislation.approve", "relation.manage", "user.disable"}}
Grant(code, effect, scope) == [code |-> code, effect |-> effect, scope |-> scope]
MCDirectGrants ==
  {{},
   {Grant("user.manage_roles", "ALLOW", "ALL"), Grant("role.assign", "DENY", "OWN")},
   {Grant("user.disable", "DENY", "ALL"), Grant("user.manage_roles", "ALLOW", "OWN")}}
=============================================================================
