------------------------- MODULE MCSeparationOfDuties -------------------------
(***************************************************************************)
(* A small team for TLC: three users, one of whom may be excepted from the *)
(* approval or publication policy, and one amendment.                      *)
(***************************************************************************)
EXTENDS SeparationOfDuties, TLC

CONSTANTS ali, huda, nasr, decree

MCUsers == {ali, huda, nasr}
MCSymmetry == Permutations({huda, nasr})
TextEdit == {e \in DraftEdits : e.action = "UPDATE_DRAFT_ARTICLE"}
=============================================================================
