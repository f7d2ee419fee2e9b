----------------------- MODULE SeparationOfDutiesProofs -----------------------
(***************************************************************************)
(* Proofs about SeparationOfDuties, for any number of users, documents and *)
(* exceptions and however the policies are switched.                       *)
(*                                                                         *)
(* The policies decide by content_responsibilities, the properties speak   *)
(* of the audit log.  Recorded ties the two: an act in the log that        *)
(* matters to a policy left its duty behind.  Stages then says which acts  *)
(* a status of the law excludes, so that nobody submits after an approval. *)
(***************************************************************************)
EXTENDS SeparationOfDuties, TLAPS

\* The duty an act leaves behind.
DutyOf(action) ==
  IF action \in Preparing THEN "EDIT"
  ELSE IF action = "RETURN_TO_DRAFT" THEN "REVIEW" ELSE "APPROVE"

Tracked == Preparing \cup {"RETURN_TO_DRAFT", "APPROVE_FOR_PUBLISHING"}

Recorded ==
  \A e \in audit : e.action \in Tracked => <<e.actor, DutyOf(e.action)>> \in duties

\* Some act with one of these actions is in the log.
Logged(actions) == \E e \in audit : e.action \in actions

\* A law that was approved never goes back to the drafts; enforced decisions were
\* taken by people without the acts they exclude, and so it stays.
Stages ==
  /\ Logged({"APPROVE_FOR_PUBLISHING"}) =>
       law \notin {"NONE", "INBOX", "DRAFT", "IN_REVIEW"}
  /\ Logged({"PUBLISH"}) => law \in PublicStatus \cup {"ARCHIVED"}
  /\ \A e \in audit :
       e.action = "APPROVE_FOR_PUBLISHING" /\ e.decision = "POLICY_ENFORCED" =>
         e.actor \notin Did({"SUBMIT_FOR_REVIEW"})
  /\ \A e \in audit :
       e.action = "PUBLISH" /\ e.decision = "POLICY_ENFORCED" =>
         e.actor \notin Did({"SUBMIT_FOR_REVIEW", "APPROVE_FOR_PUBLISHING"})

\* A move of the law by u along a rule of the workflow, on some decision.
Moved(u, action, decision) ==
  \E rule \in Transitions :
    /\ action = rule.action /\ law = rule.from /\ law' = rule.to
    /\ decision \in Separation(u, rule.duty)

\* An act that does not move a law the log already knows.
Stayed(action) ==
  /\ action \notin {"SUBMIT_FOR_REVIEW", "APPROVE_FOR_PUBLISHING", "PUBLISH", "ARCHIVE"}
  /\ law' = law \/ (law = "NONE" /\ law' = "DRAFT")

\* One act enters the log, its duty is recorded and it fits the workflow.
Entered(u, action, decision) ==
  /\ audit' = audit \cup {[actor |-> u, action |-> action, decision |-> decision]}
  /\ action \in Tracked => <<u, DutyOf(action)>> \in duties'
  /\ Stayed(action) \/ Moved(u, action, decision)

-----------------------------------------------------------------------------
\* Every variable keeps its type.
LEMMA TypeInit == ASSUME SeparationAssumption PROVE Init => TypeOK
BY DEF SeparationAssumption, Init, TypeOK, Document, Event, Policies

LEMMA TypeNext ==
  ASSUME SeparationAssumption, TypeOK, [Next]_vars PROVE TypeOK'
<1> USE SeparationAssumption DEF SeparationAssumption, TypeOK
<1>1. ASSUME NEW u \in Users, NEW action \in Actions, NEW decision \in Decision,
             Audited(u, action, decision)
      PROVE  audit' \subseteq Event
  BY <1>1 DEF Audited, Event
<1>2. ASSUME NEW u \in Users, NEW recorded \in SUBSET Duties, Responsible(u, recorded)
      PROVE  duties' \subseteq Users \X Duties
  BY <1>2 DEF Responsible
<1>3. \A p, conflict : Decisions(p, conflict) \subseteq Decision
  BY DEF Decisions, Decision
<1>4. ASSUME NEW u \in Users, Handled(u)
      PROVE  request' \in [user : Users, excepted : SUBSET Policies] \cup {NoRequest}
  BY <1>4 DEF Handled
<1>5. "POLICY_ENFORCED" \in Decision
  BY DEF Decision
<1>6. CASE UNCHANGED vars
  BY <1>6 DEF vars, Event, Document
<1>7. ASSUME NEW u \in Users, Authenticate(u) PROVE TypeOK'
  BY <1>7 DEF Authenticate, Event, Document
<1>8. ASSUME NEW u \in Users, Upload(u) \/ ReviewSource(u) PROVE TypeOK'
  BY <1>4, <1>8 DEF Upload, ReviewSource, Event, Document
<1>9. ASSUME NEW u \in Users, CreateDraft(u) PROVE TypeOK'
  <2>1. {"IMPORT", "EDIT"} \in SUBSET Duties /\ "CREATE_DRAFT_FROM_IMPORT" \in Actions
    BY DEF Duties, Actions
  <2>2. audit' \subseteq Event /\ duties' \subseteq Users \X Duties
    BY <1>1, <1>2, <1>5, <1>9, <2>1 DEF CreateDraft
  <2>3. QED
    BY <1>4, <1>9, <2>2 DEF CreateDraft, LawStatus, Document
<1>10. ASSUME NEW u \in Users, Update(u) PROVE TypeOK'
  <2>1. {"EDIT"} \in SUBSET Duties /\ "UPDATE_DRAFT" \in Actions
    BY DEF Duties, Actions
  <2>2. audit' \subseteq Event /\ duties' \subseteq Users \X Duties
    BY <1>1, <1>2, <1>5, <1>10, <2>1 DEF Update
  <2>3. QED
    BY <1>4, <1>10, <2>2 DEF Update, Document
<1>11. ASSUME NEW u \in Users, NEW edit \in Edits, EditDraft(u, edit) PROVE TypeOK'
  <2>1. edit.action \in Actions
    BY DEF Actions
  <2>2. (IF edit.recorded THEN {"EDIT"} ELSE {}) \in SUBSET Duties
    BY DEF Duties
  <2>3. audit' \subseteq Event /\ duties' \subseteq Users \X Duties
    BY <1>1, <1>2, <1>5, <1>11, <2>1, <2>2 DEF EditDraft
  <2>4. QED
    BY <1>4, <1>11, <2>3 DEF EditDraft, Document
<1>12. ASSUME NEW u \in Users, NEW rule \in Transitions, Transition(u, rule) PROVE TypeOK'
  <2>1. rule.action \in Actions
    BY DEF Actions
  <2>2. rule.to \in LawStatus /\ {rule.duty} \in SUBSET Duties
    BY DEF Transitions, LawStatus, Duties, PublicStatus
  <2>3. Separation(u, rule.duty) \subseteq Decision
    BY <1>3, <1>5 DEF Separation
  <2>4. audit' \subseteq Event /\ duties' \subseteq Users \X Duties
    BY <1>1, <1>2, <1>12, <2>1, <2>2, <2>3 DEF Transition
  <2>5. QED
    BY <1>4, <1>12, <2>2, <2>4 DEF Transition, Document
<1>13. ASSUME NEW u \in Users, NEW m \in Amendments, SaveAmendment(u, m) PROVE TypeOK'
  <2>1. {"EDIT"} \in SUBSET Duties /\ "SAVE_AMENDMENT_DRAFT" \in Actions
    BY DEF Duties, Actions
  <2>2. audit' \subseteq Event /\ duties' \subseteq Users \X Duties
    BY <1>1, <1>2, <1>5, <1>13, <2>1 DEF SaveAmendment
  <2>3. amendment' = [amendment EXCEPT ![m] =
          [amendment[m] EXCEPT !.status = "DRAFT",
                               !.creator = IF @ = Nobody THEN u ELSE @]]
    BY <1>13 DEF SaveAmendment, Document
  <2>4. amendment' \in [Amendments -> Document]
    <3>1. amendment[m] \in Document
      OBVIOUS
    <3>2. [amendment[m] EXCEPT !.status = "DRAFT",
             !.creator = IF @ = Nobody THEN u ELSE @] \in Document
      BY <3>1 DEF Document
    <3>3. QED
      BY <2>3, <3>2
  <2>5. request' \in [user : Users, excepted : SUBSET Policies] \cup {NoRequest}
    BY <1>4, <1>13 DEF SaveAmendment
  <2>6. UNCHANGED <<law, source, enforced, granted>>
    BY <1>13 DEF SaveAmendment
  <2>7. QED
    BY <2>2, <2>4, <2>5, <2>6
<1>14. ASSUME NEW u \in Users, NEW m \in Amendments, ReviewAmendment(u, m) PROVE TypeOK'
  BY <1>4, <1>14 DEF ReviewAmendment, Document, Event
<1>15. ASSUME NEW u \in Users, NEW m \in Amendments, PublishAmendment(u, m) PROVE TypeOK'
  <2>1. {"PUBLISH"} \in SUBSET Duties /\ "PUBLISH_AMENDMENT" \in Actions
    BY DEF Duties, Actions
  <2>2. audit' \subseteq Event /\ duties' \subseteq Users \X Duties
    BY <1>1, <1>2, <1>3, <1>15, <2>1 DEF PublishAmendment
  <2>3. /\ amendment' = [amendment EXCEPT ![m].status = "PUBLISHED"]
        /\ UNCHANGED <<law, source, enforced, granted>>
    BY <1>15 DEF PublishAmendment
  <2>4. request' \in [user : Users, excepted : SUBSET Policies] \cup {NoRequest}
    BY <1>4, <1>15 DEF PublishAmendment
  <2>5. amendment' \in [Amendments -> Document]
    BY <2>3 DEF Document
  <2>6. QED
    BY <2>2, <2>3, <2>4, <2>5
<1>16. ASSUME PolicySteps PROVE TypeOK'
  BY <1>16 DEF PolicySteps, UpdateWorkflowPolicy, UpdateWorkflowPolicyOverrides, Event, Document
<1>17. ASSUME Refused PROVE TypeOK'
  BY <1>17 DEF Refused, Event, Document
<1>18. QED
  BY <1>6, <1>7, <1>8, <1>9, <1>10, <1>11, <1>12, <1>13, <1>14, <1>15, <1>16, <1>17
     DEF Next, LawSteps, DocumentSteps

\* Types, for any number of users and any length of the log.
THEOREM DutiesTyped == ASSUME SeparationAssumption PROVE Spec => []TypeOK
<1>1. Init => TypeOK
  BY TypeInit
<1>2. TypeOK /\ [Next]_vars => TypeOK'
  BY TypeNext
<1>3. QED
  BY <1>1, <1>2, PTL DEF Spec

-----------------------------------------------------------------------------
\* A step either enters nothing in the log and moves no law, or enters one act.
LEMMA StepEnters ==
  ASSUME SeparationAssumption, [Next]_vars
  PROVE  /\ duties \subseteq duties'
         /\ \/ audit' = audit /\ law' = law
            \/ \E u, action, decision : Entered(u, action, decision)
<1> USE SeparationAssumption DEF SeparationAssumption
<1>1. CASE UNCHANGED vars
  BY <1>1 DEF vars
<1>2. CASE Refused \/ PolicySteps \/ \E u \in Users : Authenticate(u)
  BY <1>2 DEF Refused, PolicySteps, UpdateWorkflowPolicy, UpdateWorkflowPolicyOverrides,
              Authenticate
<1>3. CASE \/ \E u \in Users : Upload(u) \/ ReviewSource(u)
           \/ \E u \in Users, m \in Amendments : ReviewAmendment(u, m)
  BY <1>3 DEF Upload, ReviewSource, ReviewAmendment
<1>4. ASSUME NEW u \in Users, CreateDraft(u) \/ Update(u)
      PROVE  /\ duties \subseteq duties'
             /\ \/ Entered(u, "CREATE_DRAFT_FROM_IMPORT", "POLICY_ENFORCED")
                \/ Entered(u, "UPDATE_DRAFT", "POLICY_ENFORCED")
  BY <1>4 DEF CreateDraft, Update, Audited, Responsible, Entered, Stayed, Tracked, DutyOf,
              Preparing
<1>5. ASSUME NEW u \in Users, NEW edit \in Edits, EditDraft(u, edit)
      PROVE  duties \subseteq duties' /\ Entered(u, edit.action, "POLICY_ENFORCED")
  <2>1. /\ edit.action \in {"CREATE_DRAFT_ARTICLE", "UPDATE_DRAFT_ARTICLE",
                            "UPDATE_DRAFT_ARTICLE_METADATA"}
        /\ edit.action # "UPDATE_DRAFT_ARTICLE_METADATA" => edit.recorded
    BY DEF DraftEdits
  <2>2. QED
    BY <1>5, <2>1 DEF EditDraft, Audited, Responsible, Entered, Stayed, Tracked, DutyOf,
                      Preparing
<1>6. ASSUME NEW u \in Users, NEW rule \in Transitions, Transition(u, rule)
      PROVE  /\ duties \subseteq duties'
             /\ \E decision : Entered(u, rule.action, decision)
  <2>1. PICK decision \in Separation(u, rule.duty) : Audited(u, rule.action, decision)
    BY <1>6 DEF Transition
  <2>2. rule.action \in Tracked => rule.duty = DutyOf(rule.action)
    BY DEF Transitions, Tracked, DutyOf, Preparing
  <2>3. Moved(u, rule.action, decision)
    BY <1>6, <2>1 DEF Moved, Transition
  <2>4. duties' = duties \cup ({u} \X {rule.duty})
    BY <1>6 DEF Transition, Responsible
  <2>5. Entered(u, rule.action, decision)
    BY <2>1, <2>2, <2>3, <2>4 DEF Entered, Audited
  <2>6. QED
    BY <2>4, <2>5
<1>7. ASSUME NEW u \in Users, NEW m \in Amendments,
             SaveAmendment(u, m) \/ PublishAmendment(u, m)
      PROVE  /\ duties \subseteq duties'
             /\ \E action, decision : Entered(u, action, decision)
  <2>1. CASE SaveAmendment(u, m)
    <3>1. Entered(u, "SAVE_AMENDMENT_DRAFT", "POLICY_ENFORCED")
      BY <2>1 DEF SaveAmendment, Audited, Responsible, Entered, Stayed, Tracked, DutyOf,
                  Preparing
    <3>2. QED
      BY <2>1, <3>1 DEF SaveAmendment, Responsible
  <2>2. CASE PublishAmendment(u, m)
    <3>1. PICK decision : Audited(u, "PUBLISH_AMENDMENT", decision)
      BY <2>2 DEF PublishAmendment
    <3>2. Entered(u, "PUBLISH_AMENDMENT", decision)
      BY <2>2, <3>1 DEF PublishAmendment, Audited, Entered, Stayed, Tracked, Preparing
    <3>3. QED
      BY <2>2, <3>2 DEF PublishAmendment, Responsible
  <2>3. QED
    BY <1>7, <2>1, <2>2
<1>8. QED
  BY <1>1, <1>2, <1>3, <1>4, <1>5, <1>6, <1>7 DEF Next, LawSteps, DocumentSteps

LEMMA RecordedNext ==
  ASSUME SeparationAssumption, Recorded, [Next]_vars PROVE Recorded'
<1>1. duties \subseteq duties'
  BY StepEnters
<1>2. CASE audit' = audit
  BY <1>1, <1>2 DEF Recorded
<1>3. ASSUME NEW u, NEW action, NEW decision, Entered(u, action, decision)
      PROVE  Recorded'
  BY <1>1, <1>3 DEF Recorded, Entered
<1>4. QED
  BY <1>2, <1>3, StepEnters

-----------------------------------------------------------------------------
\* A decision under the enforced policy, while the log is recorded, is made by a
\* user who did none of the acts that exclude it.
LEMMA DecisionsIndependent ==
  ASSUME Recorded, NEW u, NEW action \in DOMAIN Disqualifying,
         Moved(u, action, "POLICY_ENFORCED")
  PROVE  u \notin Did(Disqualifying[action])
<1>1. PICK rule \in Transitions :
        /\ action = rule.action /\ law = rule.from /\ law' = rule.to
        /\ "POLICY_ENFORCED" \in Separation(u, rule.duty)
  BY DEF Moved
<1>2. /\ action = "APPROVE_FOR_PUBLISHING" => rule.duty = "APPROVE"
      /\ action \in {"PUBLISH", "ARCHIVE"} => rule.duty = "PUBLISH"
  BY <1>1 DEF Transitions
<1>3. /\ action = "APPROVE_FOR_PUBLISHING" => ~HasDuty(u, {"IMPORT", "EDIT"})
      /\ action \in {"PUBLISH", "ARCHIVE"} =>
           ~HasDuty(u, {"IMPORT", "EDIT", "REVIEW", "APPROVE"})
  <2>1. \A p : \A conflict \in BOOLEAN :
          "POLICY_ENFORCED" \in Decisions(p, conflict) => ~conflict
    BY DEF Decisions
  <2>2. ASSUME NEW wanted PROVE HasDuty(u, wanted) \in BOOLEAN
    BY DEF HasDuty
  <2>3. CASE action = "APPROVE_FOR_PUBLISHING"
    <3>1. "POLICY_ENFORCED" \in
            Decisions("LEGISLATION_SELF_APPROVAL", HasDuty(u, {"IMPORT", "EDIT"}))
      BY <1>1, <1>2, <2>3 DEF Separation
    <3>2. QED
      BY <2>1, <2>2, <2>3, <3>1
  <2>4. CASE action \in {"PUBLISH", "ARCHIVE"}
    <3>1. "POLICY_ENFORCED" \in
            Decisions("LEGISLATION_SELF_PUBLICATION",
                      HasDuty(u, {"IMPORT", "EDIT", "REVIEW", "APPROVE"}))
      BY <1>1, <1>2, <2>4 DEF Separation
    <3>2. QED
      BY <2>1, <2>2, <2>4, <3>1
  <2>5. QED
    BY <2>3, <2>4 DEF Disqualifying
<1>4. ASSUME NEW e \in audit, e.actor = u, e.action \in Disqualifying[action]
      PROVE  FALSE
  <2>1. action \in {"APPROVE_FOR_PUBLISHING", "PUBLISH", "ARCHIVE"}
    BY DEF Disqualifying
  <2>2. <<u, DutyOf(e.action)>> \in duties
    BY <1>4, <2>1 DEF Recorded, Disqualifying, Tracked
  <2>3. CASE action = "APPROVE_FOR_PUBLISHING"
    BY <1>3, <1>4, <2>2, <2>3 DEF Disqualifying, DutyOf, HasDuty
  <2>4. CASE action \in {"PUBLISH", "ARCHIVE"}
    BY <1>3, <2>2, <2>4 DEF DutyOf, HasDuty
  <2>5. QED
    BY <2>1, <2>3, <2>4
<1>5. QED
  BY <1>4 DEF Did

\* An entry of the log that decides about the law is a move along the workflow.
LEMMA NewDecision ==
  ASSUME NEW e, NEW u, NEW action, NEW decision,
         Entered(u, action, decision), e \in audit' \ audit,
         e.action \in {"SUBMIT_FOR_REVIEW", "APPROVE_FOR_PUBLISHING", "PUBLISH", "ARCHIVE"}
  PROVE  /\ e.actor = u /\ e.action = action /\ e.decision = decision
         /\ Moved(u, action, decision)
BY DEF Entered, Stayed

\* Independence: whoever decides under an enforced policy has, by the audit log,
\* done none of the acts the policy separates the decision from.
THEOREM DecidersIndependent ==
  ASSUME SeparationAssumption PROVE Spec => IndependentDecisions
<1>1. Init => Recorded
  BY DEF Init, Recorded
<1>2. Recorded /\ [Next]_vars => Recorded'
  BY RecordedNext
<1>3. ASSUME Recorded, [Next]_vars, NEW e \in audit' \ audit,
             e.action \in DOMAIN Disqualifying, e.decision = "POLICY_ENFORCED"
      PROVE  e.actor \notin Did(Disqualifying[e.action])
  <2>1. PICK u, action, decision : Entered(u, action, decision)
    BY <1>3, StepEnters
  <2>2. e.action \in {"APPROVE_FOR_PUBLISHING", "PUBLISH", "ARCHIVE"}
    BY <1>3 DEF Disqualifying
  <2>3. /\ e.actor = u /\ e.action = action /\ e.decision = decision
        /\ Moved(u, action, decision)
    BY <2>1, <2>2, NewDecision
  <2>4. QED
    BY <1>3, <2>3, DecisionsIndependent
<1>4. Recorded /\ [Next]_vars =>
        [\A e \in audit' \ audit :
           e.action \in DOMAIN Disqualifying /\ e.decision = "POLICY_ENFORCED" =>
             e.actor \notin Did(Disqualifying[e.action])]_vars
  BY <1>3
<1>5. QED
  BY <1>1, <1>2, <1>4, PTL DEF Spec, IndependentDecisions

-----------------------------------------------------------------------------
\* The stages of the workflow exclude a late submission or approval.
LEMMA StagesNext ==
  ASSUME SeparationAssumption, Recorded, Stages, [Next]_vars PROVE Stages'
<1>1. CASE audit' = audit /\ law' = law
  BY <1>1 DEF Stages, Logged, Did
<1>2. ASSUME NEW u, NEW action, NEW decision, Entered(u, action, decision)
      PROVE  Stages'
  <2> DEFINE entry == [actor |-> u, action |-> action, decision |-> decision]
  <2>0. /\ audit' = audit \cup {entry}
        /\ entry.actor = u /\ entry.action = action
    BY <1>2 DEF Entered
  <2>1. ASSUME NEW CONSTANT actions
        PROVE  Did(actions)' = Did(actions) \cup (IF action \in actions THEN {u} ELSE {})
    <3> HIDE DEF entry
    <3>1. ASSUME NEW x
          PROVE  x \in Did(actions)' <=> \E e \in audit' : e.action \in actions /\ e.actor = x
      BY DEF Did
    <3>2. ASSUME NEW x
          PROVE  x \in Did(actions) <=> \E e \in audit : e.action \in actions /\ e.actor = x
      BY DEF Did
    <3>3. QED
      BY <2>0, <3>1, <3>2
  <2>2. ASSUME NEW CONSTANT actions
        PROVE  Logged(actions)' <=> Logged(actions) \/ action \in actions
    <3> HIDE DEF entry
    <3>1. QED
      BY <2>0 DEF Logged
  <2>3. ASSUME NEW e \in audit'
        PROVE  e \in audit \/ e = [actor |-> u, action |-> action, decision |-> decision]
    BY <1>2 DEF Entered
  <2>4. CASE Stayed(action)
    <3>1. action \notin {"SUBMIT_FOR_REVIEW", "APPROVE_FOR_PUBLISHING", "PUBLISH"}
      BY <2>4 DEF Stayed
    <3>2. /\ law' = law \/ law = "NONE"
      BY <2>4 DEF Stayed
    <3>3. /\ Did({"SUBMIT_FOR_REVIEW"})' = Did({"SUBMIT_FOR_REVIEW"})
          /\ Did({"SUBMIT_FOR_REVIEW", "APPROVE_FOR_PUBLISHING"})' =
               Did({"SUBMIT_FOR_REVIEW", "APPROVE_FOR_PUBLISHING"})
      BY <2>1, <3>1
    <3>4. /\ Logged({"APPROVE_FOR_PUBLISHING"})' => Logged({"APPROVE_FOR_PUBLISHING"})
          /\ Logged({"PUBLISH"})' => Logged({"PUBLISH"})
      BY <2>2, <3>1
    <3>5. QED
      BY <2>3, <3>1, <3>2, <3>3, <3>4 DEF Stages, PublicStatus
  <2>5. CASE Moved(u, action, decision)
    <3>1. PICK rule \in Transitions : action = rule.action /\ law = rule.from /\ law' = rule.to
      BY <2>5 DEF Moved
    <3>2. /\ action = "SUBMIT_FOR_REVIEW" => law = "DRAFT" /\ law' = "IN_REVIEW"
          /\ action = "APPROVE_FOR_PUBLISHING" =>
               law = "IN_REVIEW" /\ law' = "APPROVED_FOR_PUBLISHING"
          /\ action = "PUBLISH" => law = "APPROVED_FOR_PUBLISHING" /\ law' = "PUBLISHED"
          /\ law \in {"INBOX", "DRAFT", "IN_REVIEW", "APPROVED_FOR_PUBLISHING"} \cup PublicStatus
          /\ law \in PublicStatus => law' = "ARCHIVED"
          /\ law = "APPROVED_FOR_PUBLISHING" => action = "PUBLISH"
      BY <3>1 DEF Transitions, PublicStatus
    <3>3. Logged({"APPROVE_FOR_PUBLISHING"})' =>
            law' \notin {"NONE", "INBOX", "DRAFT", "IN_REVIEW"}
      BY <2>2, <3>2 DEF Stages, PublicStatus
    <3>4. Logged({"PUBLISH"})' => law' \in PublicStatus \cup {"ARCHIVED"}
      BY <2>2, <3>2 DEF Stages, PublicStatus
    <3>5. ASSUME NEW e \in audit',
                 e.action = "APPROVE_FOR_PUBLISHING", e.decision = "POLICY_ENFORCED"
          PROVE  e.actor \notin Did({"SUBMIT_FOR_REVIEW"})'
      <4>1. CASE e \in audit
        <5>1. action # "SUBMIT_FOR_REVIEW"
          BY <3>2, <3>5, <4>1 DEF Stages, Logged
        <5>2. QED
          BY <2>1, <3>5, <4>1, <5>1 DEF Stages
      <4>2. CASE e = [actor |-> u, action |-> action, decision |-> decision]
        <5>1. u \notin Did(Disqualifying[action])
          BY <2>5, <3>5, <4>2, DecisionsIndependent DEF Disqualifying
        <5>2. u \notin Did({"SUBMIT_FOR_REVIEW"})
          BY <3>5, <4>2, <5>1 DEF Did, Disqualifying, Preparing
        <5>3. QED
          BY <2>1, <3>5, <4>2, <5>2
      <4>3. QED
        BY <2>3, <4>1, <4>2
    <3>6. ASSUME NEW e \in audit',
                 e.action = "PUBLISH", e.decision = "POLICY_ENFORCED"
          PROVE  e.actor \notin Did({"SUBMIT_FOR_REVIEW", "APPROVE_FOR_PUBLISHING"})'
      <4>1. CASE e \in audit
        <5>1. action \notin {"SUBMIT_FOR_REVIEW", "APPROVE_FOR_PUBLISHING"}
          BY <3>2, <3>6, <4>1 DEF Stages, Logged, PublicStatus
        <5>2. QED
          BY <2>1, <3>6, <4>1, <5>1 DEF Stages
      <4>2. CASE e = [actor |-> u, action |-> action, decision |-> decision]
        <5>1. u \notin Did(Disqualifying[action])
          BY <2>5, <3>6, <4>2, DecisionsIndependent DEF Disqualifying
        <5>2. u \notin Did({"SUBMIT_FOR_REVIEW", "APPROVE_FOR_PUBLISHING"})
          BY <3>6, <4>2, <5>1 DEF Did, Disqualifying, Preparing
        <5>3. QED
          BY <2>1, <3>6, <4>2, <5>2
      <4>3. QED
        BY <2>3, <4>1, <4>2
    <3>7. QED
      BY <3>3, <3>4, <3>5, <3>6 DEF Stages
  <2>6. QED
    BY <1>2, <2>4, <2>5 DEF Entered
<1>3. QED
  BY <1>1, <1>2, StepEnters

LEMMA StagesGiveThreeHands == ASSUME Stages PROVE ThreeHands
<1>1. SUFFICES
        ASSUME \A e \in audit : e.action \in {"APPROVE_FOR_PUBLISHING", "PUBLISH"} =>
                 e.decision = "POLICY_ENFORCED"
        PROVE  /\ Did({"SUBMIT_FOR_REVIEW"}) \cap Did({"APPROVE_FOR_PUBLISHING"}) = {}
               /\ Did({"SUBMIT_FOR_REVIEW", "APPROVE_FOR_PUBLISHING"})
                    \cap Did({"PUBLISH"}) = {}
  BY DEF ThreeHands
<1>2. \A actions : \A x \in Did(actions) : \E e \in audit : e.actor = x /\ e.action \in actions
  BY DEF Did
<1>3. QED
  BY <1>1, <1>2 DEF Stages

\* Three people: a law approved and published under enforced policies went through
\* the hands of one who submitted it, another who approved and a third who
\* published it.
THEOREM PublishedByThree == ASSUME SeparationAssumption PROVE Spec => []ThreeHands
<1>1. Init => Recorded /\ Stages
  BY DEF Init, Recorded, Stages, Logged
<1>2. Recorded /\ Stages /\ [Next]_vars => (Recorded /\ Stages)'
  BY RecordedNext, StagesNext
<1>3. Stages => ThreeHands
  BY StagesGiveThreeHands
<1>4. QED
  BY <1>1, <1>2, <1>3, PTL DEF Spec
=============================================================================
