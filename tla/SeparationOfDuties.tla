-------------------------- MODULE SeparationOfDuties --------------------------
(***************************************************************************)
(* Who may do what to one law: the duties the platform records for each    *)
(* user, the five separation policies an administrator can switch off, the *)
(* users excepted from a policy, and the decisions the policies take.      *)
(*                                                                         *)
(* A request is authenticated first, which reads the exceptions of its     *)
(* user, and handled later, in one transaction that locks the law, the     *)
(* import or the amendment it decides on and reads the policies there.     *)
(*                                                                         *)
(* Every user holds every permission, as the role SUPER does, so nothing   *)
(* but the separation of duties stands between a user and a move.          *)
(***************************************************************************)
EXTENDS Naturals, FiniteSets, WorkflowRules

CONSTANTS
  Users,
  Amendments,   \* identities of amendment documents of the law
  Edits,        \* bound: the kinds of draft edits users make, of DraftEdits
  Togglable,    \* bound: the policies administrators switch
  Excepted,     \* bound: the users who may be excepted from a policy
  MaxEvents,    \* bound: length of the audit log
  Nobody, NoRequest

Policies ==
  {"SOURCE_IMPORT_SELF_REVIEW", "LEGISLATION_SELF_APPROVAL",
   "LEGISLATION_SELF_PUBLICATION", "AMENDMENT_SELF_REVIEW",
   "AMENDMENT_SELF_PUBLICATION"}

Duties == {"IMPORT", "EDIT", "REVIEW", "APPROVE", "PUBLISH"}
Decision == {"POLICY_ENFORCED", "POLICY_DISABLED", "USER_PERMISSION_OVERRIDE"}

\* The handlers that change the content of a draft law: where they are allowed,
\* and whether they record the duty EDIT.
DraftEdits ==
  { [action |-> "CREATE_DRAFT_ARTICLE", in |-> {"INBOX", "DRAFT"}, recorded |-> TRUE],
    [action |-> "UPDATE_DRAFT_ARTICLE", in |-> {"DRAFT", "IN_REVIEW"}, recorded |-> TRUE],
    [action |-> "UPDATE_DRAFT_ARTICLE_METADATA", in |-> {"INBOX", "DRAFT", "IN_REVIEW"},
     recorded |-> FALSE] }

Actions ==
  {"CREATE_DRAFT_FROM_IMPORT", "UPDATE_DRAFT", "SAVE_AMENDMENT_DRAFT", "PUBLISH_AMENDMENT"}
    \cup {t.action : t \in Transitions} \cup {e.action : e \in DraftEdits}

ASSUME SeparationAssumption ==
  /\ Edits \subseteq DraftEdits /\ Togglable \subseteq Policies
  /\ Excepted \subseteq Users /\ MaxEvents \in Nat
  /\ Nobody \notin Users

VARIABLES
  law,        \* legislations.status, or NONE before it is created
  source,     \* the imported file: who uploaded it, is its text REVIEWED
  amendment,  \* amendments: status, created_by and reviewed_by
  duties,     \* content_responsibilities of the law, as pairs user and duty
  audit,      \* audit_logs of the law: what each user did, on which decision
  enforced,   \* the policies that platform_settings enable
  granted,    \* user_permissions: pairs user and policy
  request     \* the request being handled: its user and the user's exceptions

vars == <<law, source, amendment, duties, audit, enforced, granted, request>>

Event == [actor : Users, action : Actions, decision : Decision]

Document ==
  [status : {"ABSENT", "DRAFT", "REVIEWED", "PUBLISHED"},
   creator : Users \cup {Nobody}, reviewer : Users \cup {Nobody}]

TypeOK ==
  /\ law \in LawStatus \cup {"NONE"}
  /\ source \in [uploader : Users \cup {Nobody}, reviewed : BOOLEAN]
  /\ amendment \in [Amendments -> Document]
  /\ duties \subseteq Users \X Duties
  /\ audit \subseteq Event
  /\ enforced \subseteq Policies
  /\ granted \subseteq Users \X Policies
  /\ request \in [user : Users, excepted : SUBSET Policies] \cup {NoRequest}

Init ==
  /\ law = "NONE"
  /\ source = [uploader |-> Nobody, reviewed |-> FALSE]
  /\ amendment =
       [m \in Amendments |-> [status |-> "ABSENT", creator |-> Nobody, reviewer |-> Nobody]]
  /\ duties = {} /\ audit = {}
  /\ enforced = Policies /\ granted = {}
  /\ request = NoRequest

-----------------------------------------------------------------------------
\* The policies

\* assertWorkflowPolicy: how policy p lets a request with this conflict through;
\* empty when it refuses.
Decisions(p, conflict) ==
  IF p \notin enforced THEN {"POLICY_DISABLED"}
  ELSE IF ~conflict THEN {"POLICY_ENFORCED"}
  ELSE IF p \in request.excepted THEN {"USER_PERMISSION_OVERRIDE"}
  ELSE {}

HasDuty(u, wanted) == \E d \in wanted : <<u, d>> \in duties

\* Mutant: who approved the law may also publish it.
SeparationButApproval(u, duty) ==
  CASE duty = "APPROVE" ->
         Decisions("LEGISLATION_SELF_APPROVAL", HasDuty(u, {"IMPORT", "EDIT"}))
    [] duty = "PUBLISH" ->
         Decisions("LEGISLATION_SELF_PUBLICATION", HasDuty(u, {"IMPORT", "EDIT", "REVIEW"}))
    [] OTHER -> {"POLICY_ENFORCED"}

\* assertSeparation
Separation(u, duty) ==
  CASE duty = "APPROVE" ->
         Decisions("LEGISLATION_SELF_APPROVAL", HasDuty(u, {"IMPORT", "EDIT"}))
    [] duty = "PUBLISH" ->
         Decisions("LEGISLATION_SELF_PUBLICATION",
                   HasDuty(u, {"IMPORT", "EDIT", "REVIEW", "APPROVE"}))
    [] OTHER -> {"POLICY_ENFORCED"}

\* Guard and exceptions of a request (SessionGuard and userById).  A session that
\* was revoked is renewed by logging in again, so sessions are left out.
Authenticate(u) ==
  /\ request = NoRequest
  /\ request' = [user |-> u, excepted |-> {p \in Policies : <<u, p>> \in granted}]
  /\ UNCHANGED <<law, source, amendment, duties, audit, enforced, granted>>

\* The request is that of u and ends here.
Handled(u) == request # NoRequest /\ request.user = u /\ request' = NoRequest

\* A request that a handler refuses, or that is about something else.
Refused ==
  /\ request # NoRequest /\ request' = NoRequest
  /\ UNCHANGED <<law, source, amendment, duties, audit, enforced, granted>>

Responsible(u, recorded) == duties' = duties \cup ({u} \X recorded)

Audited(u, action, decision) ==
  /\ audit' = audit \cup {[actor |-> u, action |-> action, decision |-> decision]}
  /\ Cardinality(audit') <= MaxEvents

-----------------------------------------------------------------------------
\* The import of the law's text

Upload(u) ==
  /\ Handled(u)
  /\ source.uploader = Nobody
  /\ source' = [source EXCEPT !.uploader = u]
  /\ UNCHANGED <<law, amendment, duties, audit, enforced, granted>>

\* By the review of the import, or by an edit of the source's state.
ReviewSource(u) ==
  /\ Handled(u)
  /\ source.uploader # Nobody
  /\ Decisions("SOURCE_IMPORT_SELF_REVIEW", source.uploader = u) # {}
  /\ source' = [source EXCEPT !.reviewed = TRUE]
  /\ UNCHANGED <<law, amendment, duties, audit, enforced, granted>>

\* Mutant: the draft enters a status that the workflow does not know.
CreateNewDraft(u) ==
  /\ Handled(u)
  /\ source.uploader # Nobody /\ law = "NONE"
  /\ law' = "NEW"
  /\ Responsible(u, {"IMPORT", "EDIT"})
  /\ Audited(u, "CREATE_DRAFT_FROM_IMPORT", "POLICY_ENFORCED")
  /\ UNCHANGED <<source, amendment, enforced, granted>>

\* The importer on record is who makes the draft, not who uploaded the file.
CreateDraft(u) ==
  /\ Handled(u)
  /\ source.uploader # Nobody /\ law = "NONE"
  /\ law' = "DRAFT"
  /\ Responsible(u, {"IMPORT", "EDIT"})
  /\ Audited(u, "CREATE_DRAFT_FROM_IMPORT", "POLICY_ENFORCED")
  /\ UNCHANGED <<source, amendment, enforced, granted>>

-----------------------------------------------------------------------------
\* The law

EditDraft(u, edit) ==
  /\ Handled(u)
  /\ law \in edit.in
  /\ Responsible(u, IF edit.recorded THEN {"EDIT"} ELSE {})
  /\ Audited(u, edit.action, "POLICY_ENFORCED")
  /\ UNCHANGED <<law, source, amendment, enforced, granted>>

\* Correction of the law's own data, in every status.
Update(u) ==
  /\ Handled(u)
  /\ law # "NONE"
  /\ Responsible(u, {"EDIT"})
  /\ Audited(u, "UPDATE_DRAFT", "POLICY_ENFORCED")
  /\ UNCHANGED <<law, source, amendment, enforced, granted>>

\* Mutant: the move is not entered under the duties of its user.
TransitionUnrecorded(u, rule) ==
  /\ Handled(u)
  /\ law = rule.from
  /\ rule.to = "PUBLISHED" => source.reviewed
  /\ law' = rule.to
  /\ \E decision \in Separation(u, rule.duty) : Audited(u, rule.action, decision)
  /\ UNCHANGED <<source, amendment, duties, enforced, granted>>

Transition(u, rule) ==
  /\ Handled(u)
  /\ law = rule.from
  /\ rule.to = "PUBLISHED" => source.reviewed
  /\ law' = rule.to
  /\ \E decision \in Separation(u, rule.duty) : Audited(u, rule.action, decision)
  /\ Responsible(u, {rule.duty})
  /\ UNCHANGED <<source, amendment, enforced, granted>>

-----------------------------------------------------------------------------
\* Amendments of the law

\* Whoever saves later, the creator on record stays the first.
SaveAmendment(u, m) ==
  /\ Handled(u)
  /\ law \in PublicStatus
  /\ amendment[m].status \in {"ABSENT", "DRAFT"}
  /\ amendment' = [amendment EXCEPT ![m].status = "DRAFT",
                                    ![m].creator = IF @ = Nobody THEN u ELSE @]
  /\ Responsible(u, {"EDIT"})
  /\ Audited(u, "SAVE_AMENDMENT_DRAFT", "POLICY_ENFORCED")
  /\ UNCHANGED <<law, source, enforced, granted>>

ReviewAmendment(u, m) ==
  /\ Handled(u)
  /\ amendment[m].status = "DRAFT"
  /\ Decisions("AMENDMENT_SELF_REVIEW", amendment[m].creator = u) # {}
  /\ amendment' = [amendment EXCEPT ![m].status = "REVIEWED", ![m].reviewer = u]
  /\ UNCHANGED <<law, source, duties, audit, enforced, granted>>

PublishAmendment(u, m) ==
  /\ Handled(u)
  /\ amendment[m].status = "REVIEWED" /\ law \in PublicStatus
  /\ amendment' = [amendment EXCEPT ![m].status = "PUBLISHED"]
  /\ Responsible(u, {"PUBLISH"})
  /\ \E decision \in Decisions("AMENDMENT_SELF_PUBLICATION",
                               u \in {amendment[m].creator, amendment[m].reviewer}) :
       Audited(u, "PUBLISH_AMENDMENT", decision)
  /\ UNCHANGED <<law, source, enforced, granted>>

-----------------------------------------------------------------------------
\* Administration of the policies

UpdateWorkflowPolicy(p, on) ==
  /\ enforced' = IF on THEN enforced \cup {p} ELSE enforced \ {p}
  /\ UNCHANGED <<law, source, amendment, duties, audit, granted, request>>

\* The users named replace those excepted so far; the request under way keeps what
\* it was authenticated with.
UpdateWorkflowPolicyOverrides(p, chosen) ==
  /\ granted' = {g \in granted : g[2] # p} \cup (chosen \X {p})
  /\ UNCHANGED <<law, source, amendment, duties, audit, enforced, request>>

-----------------------------------------------------------------------------
LawSteps(u) ==
  \/ Upload(u) \/ ReviewSource(u) \/ CreateDraft(u) \/ Update(u)
  \/ \E edit \in Edits : EditDraft(u, edit)
  \/ \E rule \in Transitions : Transition(u, rule)

DocumentSteps(u, m) ==
  SaveAmendment(u, m) \/ ReviewAmendment(u, m) \/ PublishAmendment(u, m)

PolicySteps ==
  \E p \in Togglable :
    \/ \E on \in BOOLEAN : UpdateWorkflowPolicy(p, on)
    \/ \E chosen \in SUBSET Excepted : UpdateWorkflowPolicyOverrides(p, chosen)

Next ==
  \/ \E u \in Users : Authenticate(u) \/ LawSteps(u)
  \/ \E u \in Users, m \in Amendments : DocumentSteps(u, m)
  \/ Refused
  \/ PolicySteps

Spec == Init /\ [][Next]_vars

-----------------------------------------------------------------------------
\* Properties

Did(actions) == {e.actor : e \in {x \in audit : x.action \in actions}}

\* What counts as preparing a law, of the acts the platform keeps track of.
Preparing ==
  {"CREATE_DRAFT_FROM_IMPORT", "CREATE_DRAFT_ARTICLE", "UPDATE_DRAFT_ARTICLE",
   "UPDATE_DRAFT", "PREPARE_DRAFT", "SUBMIT_FOR_REVIEW", "SAVE_AMENDMENT_DRAFT"}

\* Acts that disqualify for a decision taken under an enforced policy.
Disqualifying ==
  [action \in {"APPROVE_FOR_PUBLISHING", "PUBLISH", "ARCHIVE"} |->
     IF action = "APPROVE_FOR_PUBLISHING" THEN Preparing
     ELSE Preparing \cup {"RETURN_TO_DRAFT", "APPROVE_FOR_PUBLISHING"}]

\* In whatever order drafts are edited, returned and resubmitted, policies switched
\* and exceptions given and withdrawn: a decision entered in the audit log as made
\* under the enforced policy was made by somebody who, by the same log, had done
\* none of the acts that policy separates it from.
IndependentDecisions ==
  [][\A e \in audit' \ audit :
       e.action \in DOMAIN Disqualifying /\ e.decision = "POLICY_ENFORCED" =>
         e.actor \notin Did(Disqualifying[e.action])]_vars

\* When a law was approved and published with both policies enforced, three
\* different people stand behind it: who submitted it, who approved it and who
\* published it, whatever the policies were before and afterwards.
ThreeHands ==
  law \in PublicStatus
  /\ (\A e \in audit : e.action \in {"APPROVE_FOR_PUBLISHING", "PUBLISH"} =>
        e.decision = "POLICY_ENFORCED")
  => /\ Did({"SUBMIT_FOR_REVIEW"}) \cap Did({"APPROVE_FOR_PUBLISHING"}) = {}
     /\ Did({"SUBMIT_FOR_REVIEW", "APPROVE_FOR_PUBLISHING"}) \cap Did({"PUBLISH"}) = {}

\* The policy as its label states it: who imported or edited the content of a law
\* does not approve it.
PreparersDoNotApprove ==
  [][\A e \in audit' \ audit :
       e.action = "APPROVE_FOR_PUBLISHING" /\ e.decision = "POLICY_ENFORCED" =>
         /\ e.actor # source.uploader
         /\ e.actor \notin Did({x.action : x \in DraftEdits})]_vars
=============================================================================
