------------------------------ MODULE MCWorker ------------------------------
(***************************************************************************)
(* The imports of MCImportPipeline; for the index a law with one article   *)
(* over two days, three changes and two overlapping runs of the loop.      *)
(***************************************************************************)
EXTENDS MCImportPipeline, Worker
=============================================================================
