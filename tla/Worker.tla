------------------------------- MODULE Worker -------------------------------
(***************************************************************************)
(* What goes on behind the requests: the imports, from the upload to the   *)
(* draft law, and the search index, which the worker keeps up with what    *)
(* the laws say.  The worker serves both from one queue of jobs, but a job *)
(* of one kind touches no row of the other; so a behaviour is about one of *)
(* them and the other rests.                                               *)
(***************************************************************************)
EXTENDS ImportPipeline, SearchIndex

VARIABLE part

workerVars == <<part, vars, searchVars>>

WorkerInit ==
  /\ part \in {"imports", "index"}
  /\ Init
  /\ SearchInit /\ (part = "imports" => stored = Prepared(0))

Importing == part = "imports" /\ Next /\ UNCHANGED <<part, searchVars>>
Indexing == part = "index" /\ SearchNext /\ UNCHANGED <<part, vars>>

WorkerNext == Importing \/ Indexing

\* The part that rests has no job and no process to start: its fairness asks for nothing.
WorkerSpec == WorkerInit /\ [][WorkerNext]_workerVars /\ Fairness /\ SearchFairness

WorkerTypeOK == TypeOK /\ SearchTypeOK
=============================================================================
