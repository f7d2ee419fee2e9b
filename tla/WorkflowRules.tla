---------------------------- MODULE WorkflowRules ----------------------------
(***************************************************************************)
(* The publication workflow of a legislation as data: its statuses and the *)
(* moves the API allows between them, with the duty each move records.     *)
(* The state machines of this project share these tables.                  *)
(***************************************************************************)

\* The statuses whose content the public API serves and amendments may target.
\* Only PUBLISHED is ever written by the API; the other three come from seeds.
PublicStatus == {"PUBLISHED", "AMENDED", "REPEALED", "SUSPENDED"}

LawStatus ==
  {"INBOX", "DRAFT", "IN_REVIEW", "APPROVED_FOR_PUBLISHING", "ARCHIVED"}
    \cup PublicStatus

\* The transition table: source status, target status, the action the audit log
\* names and the duty the move records.
Transitions ==
  { [from |-> "INBOX", to |-> "DRAFT", action |-> "PREPARE_DRAFT", duty |-> "EDIT"],
    [from |-> "IN_REVIEW", to |-> "DRAFT", action |-> "RETURN_TO_DRAFT",
     duty |-> "REVIEW"],
    [from |-> "DRAFT", to |-> "IN_REVIEW", action |-> "SUBMIT_FOR_REVIEW",
     duty |-> "EDIT"],
    [from |-> "IN_REVIEW", to |-> "APPROVED_FOR_PUBLISHING",
     action |-> "APPROVE_FOR_PUBLISHING", duty |-> "APPROVE"],
    [from |-> "APPROVED_FOR_PUBLISHING", to |-> "PUBLISHED", action |-> "PUBLISH",
     duty |-> "PUBLISH"] }
  \cup
  { [from |-> s, to |-> "ARCHIVED", action |-> "ARCHIVE", duty |-> "PUBLISH"] :
      s \in PublicStatus }

\* Targets whose move needs the basic data and an active source (assertPublishable).
NeedsSource == {"IN_REVIEW", "APPROVED_FOR_PUBLISHING", "PUBLISHED"}
=============================================================================
