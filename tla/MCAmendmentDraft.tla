-------------------------- MODULE MCAmendmentDraft --------------------------
(***************************************************************************)
(* A document made with two items, and a third to add; one writer is       *)
(* enough for a save to meet the places an earlier one left behind.        *)
(***************************************************************************)
EXTENDS AmendmentDraft

CONSTANTS i1, i2, i3

MCItems == {i1, i2, i3}
MCFirstItems == <<i1, i2>>

Spec == DraftInit /\ [][DraftNext]_draftVars
=============================================================================
