------------------------------ MODULE WorkerProofs ------------------------------
(***************************************************************************)
(* Proofs about the imports, the search index and the worker behind both,  *)
(* for every set of imports, sources, worker processes, ticks and rounds.  *)
(* About the imports they assume that no live tick holds a job longer than *)
(* the 15 minutes after which a starting process takes it back (~SlowJobs).*)
(*                                                                         *)
(* For the imports the inductive invariant follows the work under way: a   *)
(* job not finished, or one whose failure the import does not yet record.  *)
(* There is at most one such job per import, at most one tick has it, the  *)
(* import's status is of that job's stage, and no text is stored yet, so   *)
(* nothing can be reviewed under the worker's hands.                       *)
(*                                                                         *)
(* For the index it says how far snapshots and documents may be behind the *)
(* tables: only while a job waits that has yet to read them (SearchInv).   *)
(***************************************************************************)
EXTENDS Worker, FiniteSetTheorems, TLAPS

Stage(type) ==
  IF type = "IMPORT_SOURCE" THEN {"QUEUED", "EXTRACTING"} ELSE {"OCR_REQUIRED", "OCR_RUNNING"}

UnderWay(j) ==
  \/ Unfinished(j)
  \/ \E t \in Ticks : run[t].pc = "failing" /\ run[t].job = j

\* Rows that exist belong to stored or once stored files.
Fresh ==
  /\ \A i \in Imports : import[i].text => import[i].status # "ABSENT"
  /\ \A i \in Imports : import[i].status # "ABSENT" => source[i].life # "ABSENT"
  /\ \A j \in DOMAIN jobs : source[jobs[j].import].life # "ABSENT"

\* The job of a tick is as the tick left it, and is no other tick's job.
Holding ==
  /\ \A t \in Ticks : run[t].pc # "idle" => run[t].job \in DOMAIN jobs
  /\ \A t \in Ticks : run[t].pc \in {"claimed", "working"} =>
       jobs[run[t].job].status = "RUNNING" /\ ~jobs[run[t].job].stale
  /\ \A t \in Ticks : run[t].pc = "failing" => jobs[run[t].job].status = "FAILED"
  /\ \A t, u \in Ticks : run[t].pc # "idle" /\ run[u].pc # "idle" /\ run[t].job = run[u].job => t = u

Staged ==
  \A j \in DOMAIN jobs : UnderWay(j) =>
    import[jobs[j].import].status \in Stage(jobs[j].type) /\ ~import[jobs[j].import].text

OneUnderWay ==
  \A j, k \in DOMAIN jobs :
    UnderWay(j) /\ UnderWay(k) /\ jobs[j].import = jobs[k].import => j = k

WorkInv == Fresh /\ Holding /\ Staged /\ OneUnderWay

-----------------------------------------------------------------------------
\* Types

LEMMA ImportIsSource == Imports \subseteq Sources
  BY DEF Sources

LEMMA JobType ==
  ASSUME jobs \in Seq(Job), NEW j \in DOMAIN jobs
  PROVE  /\ jobs[j] \in Job /\ jobs[j].import \in Imports
         /\ j \in 1..Len(jobs) /\ j \in Nat
<1>1. jobs[j] \in Job /\ j \in 1..Len(jobs)
  OBVIOUS
<1>2. jobs[j].import \in Imports
  BY <1>1 DEF Job
<1> QED BY <1>1, <1>2

\* Writing one row of the queue keeps it a queue of the same length.
LEMMA JobWrite ==
  ASSUME jobs \in Seq(Job), NEW j \in DOMAIN jobs, NEW row \in Job
  PROVE  [jobs EXCEPT ![j] = row] \in Seq(Job)
  OBVIOUS

LEMMA NewJobType ==
  ASSUME NEW i \in Imports, NEW type \in {"IMPORT_SOURCE", "OCR_SOURCE"}
  PROVE  NewJob(type, i) \in Job
  BY DEF NewJob, Job

LEMMA TypeInit == Init => TypeOK
  BY PipelineAssumption
     DEF Init, TypeOK, Idle, Run, Import, SourceRow, ImportStatus, Extraction, Job

\* The job of a tick in flight exists.
LEMMA RunType ==
  ASSUME TypeOK, Holding, NEW t \in Ticks, run[t].pc # "idle"
  PROVE  /\ run[t].job \in DOMAIN jobs /\ run[t].job \in Nat
         /\ JobOf(t) \in Job /\ ImportOf(t) \in Imports /\ ImportOf(t) \in Sources
<1>1. run[t].job \in DOMAIN jobs
  BY DEF Holding
<1> QED BY <1>1, JobType, ImportIsSource DEF TypeOK, JobOf, ImportOf

\* The two ways in which a tick rewrites its job.
LEMMA RunJobWrite ==
  ASSUME TypeOK, Holding, NEW t \in Ticks, run[t].pc # "idle",
         NEW status \in {"SUCCEEDED", "FAILED"}
  PROVE  [jobs EXCEPT ![run[t].job].status = status] \in Seq(Job)
<1>1. [JobOf(t) EXCEPT !.status = status] \in Job
  BY RunType DEF Job
<1>2. [jobs EXCEPT ![run[t].job].status = status]
        = [jobs EXCEPT ![run[t].job] = [JobOf(t) EXCEPT !.status = status]]
  BY DEF JobOf
<1> QED BY <1>1, <1>2, RunType, JobWrite DEF TypeOK

\* The transaction that ends a job writes rows of the right types.
LEMMA CompleteType ==
  ASSUME TypeOK, Holding, NEW t \in Ticks, run[t].pc # "idle",
         NEW extraction \in Extraction, NEW status \in ImportStatus, NEW text \in BOOLEAN,
         Complete(t, extraction, status, text)
  PROVE  /\ source' \in [Sources -> SourceRow] /\ import' \in [Imports -> Import]
         /\ run' \in [Ticks -> Run]
<1>1. source' \in [Sources -> SourceRow]
  BY RunType DEF Complete, TypeOK, SourceRow
<1>2. import' \in [Imports -> Import]
  BY RunType DEF Complete, TypeOK, Import
<1>3. run' \in [Ticks -> Run]
  BY DEF Complete, TypeOK, Run, Idle
<1> QED BY <1>1, <1>2, <1>3

\* A handler writes rows of the right types.
LEMMA TypeStep == TypeOK /\ Holding /\ [Next]_vars => TypeOK'
<1> USE DEF TypeOK
<1> SUFFICES ASSUME TypeOK, Holding, [Next]_vars PROVE TypeOK'
  OBVIOUS
<1>1. ASSUME NEW i \in Imports, NEW refs \in SUBSET References, Upload(i, refs)
      PROVE  TypeOK'
  <2>1. jobs' \in Seq(Job)
    BY <1>1, NewJobType DEF Upload
  <2>2. source' \in [Sources -> SourceRow]
    BY <1>1 DEF Upload, SourceRow, Extraction
  <2>3. import' \in [Imports -> Import]
    BY <1>1 DEF Upload, Import, ImportStatus
  <2>4. attached' \in [Imports -> SUBSET Sources]
    BY <1>1 DEF Upload, Sources
  <2> QED BY <1>1, <2>1, <2>2, <2>3, <2>4 DEF Upload
<1>2. ASSUME NEW i \in Imports, Review(i)
      PROVE  TypeOK'
  <2>1. source' \in [Sources -> SourceRow]
    BY <1>2 DEF Review, SourceRow, Extraction
  <2>2. import' \in [Imports -> Import]
    BY <1>2 DEF Review, Import, ImportStatus
  <2> QED BY <1>2, <2>1, <2>2 DEF Review
<1>3. ASSUME NEW i \in Imports, CreateDraft(i)
      PROVE  TypeOK'
  <2>1. import' \in [Imports -> Import]
    BY <1>3 DEF CreateDraft, Import, LawStatus
  <2>2. linked' \in [Imports -> SUBSET Sources]
    BY <1>3, ImportIsSource DEF CreateDraft
  <2> QED BY <1>3, <2>1, <2>2 DEF CreateDraft
<1>4. ASSUME NEW i \in Imports, NEW target \in LawTargets, MoveLaw(i, target)
      PROVE  TypeOK'
  <2>1. target \in LawStatus
    BY PipelineAssumption
  <2>2. import' \in [Imports -> Import]
    BY <1>4, <2>1 DEF MoveLaw, Import
  <2> QED BY <1>4, <2>2 DEF MoveLaw
<1>5. ASSUME NEW i \in Imports, NEW s \in Sources,
             Attach(i, s) \/ Detach(i, s) \/ LinkSource(i, s) \/ UnlinkSource(i, s)
      PROVE  TypeOK'
  BY <1>5 DEF Attach, Detach, LinkSource, UnlinkSource
<1>6. ASSUME NEW s \in Sources, NEW state \in ManualStates, UpdateSource(s, state)
      PROVE  TypeOK'
  <2>1. state \in Extraction
    BY PipelineAssumption
  <2>2. source' \in [Sources -> SourceRow]
    BY <1>6, <2>1 DEF UpdateSource, SourceRow
  <2> QED BY <1>6, <2>2 DEF UpdateSource
<1>7. ASSUME NEW s \in Sources, EnableSource(s) \/ DisableSource(s) \/ DeleteSource(s)
      PROVE  TypeOK'
  <2>1. PICK life \in {"ACTIVE", "DISABLED", "DELETED"} : SetLife(s, life)
    BY <1>7 DEF EnableSource, DisableSource, DeleteSource
  <2>2. source' \in [Sources -> SourceRow]
    BY <2>1 DEF SetLife, SourceRow
  <2> QED BY <2>1, <2>2 DEF SetLife
<1>8. ASSUME NEW t \in Ticks, NEW j \in DOMAIN jobs, Claim(t, j)
      PROVE  TypeOK'
  <2>1. [jobs[j] EXCEPT !.status = "RUNNING", !.stale = FALSE] \in Job /\ j \in Nat
    BY JobType DEF Job
  <2>2. jobs' = [jobs EXCEPT ![j] = [jobs[j] EXCEPT !.status = "RUNNING", !.stale = FALSE]]
    BY <1>8 DEF Claim
  <2>3. jobs' \in Seq(Job)
    BY <2>1, <2>2, JobWrite
  <2>4. run' \in [Ticks -> Run]
    BY <1>8, <2>1 DEF Claim, Run
  <2> QED BY <1>8, <2>3, <2>4 DEF Claim
<1>9. ASSUME NEW t \in Ticks, Begin(t)
      PROVE  TypeOK'
  <2>1. run[t].pc # "idle"
    BY <1>9 DEF Begin
  <2>2. import' \in [Imports -> Import]
    BY <1>9, <2>1, RunType DEF Begin, Import, ImportStatus
  <2>3. run' \in [Ticks -> Run]
    BY <1>9 DEF Begin, Run
  <2> QED BY <1>9, <2>2, <2>3 DEF Begin
<1>10. ASSUME NEW t \in Ticks, FinishText(t) \/ FinishScan(t) \/ FinishOcr(t)
       PROVE  TypeOK'
  <2>1. run[t].pc # "idle"
    BY <1>10 DEF FinishText, FinishScan, FinishOcr, Working
  <2>2. PICK extraction \in Extraction, status \in ImportStatus, text \in BOOLEAN :
          Complete(t, extraction, status, text)
    BY <1>10 DEF FinishText, FinishScan, FinishOcr, Extraction, ImportStatus
  <2>3. Succeeded(t) \in Seq(Job)
    BY <2>1, RunJobWrite DEF Succeeded
  <2>4. jobs' \in Seq(Job)
    <3>1. CASE jobs' = Succeeded(t)
      BY <2>3, <3>1
    <3>2. CASE jobs' = Append(Succeeded(t), NewJob("OCR_SOURCE", ImportOf(t)))
      <4>1. NewJob("OCR_SOURCE", ImportOf(t)) \in Job
        BY <2>1, RunType, NewJobType
      <4> QED BY <2>3, <3>2, <4>1
    <3> QED BY <1>10, <3>1, <3>2 DEF FinishText, FinishScan, FinishOcr
  <2> QED BY <2>1, <2>2, <2>4, CompleteType DEF Complete
<1>11. ASSUME NEW t \in Ticks, FailJob(t)
       PROVE  TypeOK'
  <2>1. run[t].pc # "idle"
    BY <1>11 DEF FailJob
  <2>2. jobs' \in Seq(Job)
    BY <1>11, <2>1, RunJobWrite DEF FailJob
  <2>3. run' \in [Ticks -> Run]
    BY <1>11 DEF FailJob, Run
  <2> QED BY <1>11, <2>2, <2>3 DEF FailJob
<1>12. ASSUME NEW t \in Ticks, FailImport(t)
       PROVE  TypeOK'
  <2>1. run[t].pc # "idle"
    BY <1>12 DEF FailImport
  <2>2. import' \in [Imports -> Import]
    BY <1>12, <2>1, RunType DEF FailImport, Import, ImportStatus
  <2>3. run' \in [Ticks -> Run]
    BY <1>12 DEF FailImport, Run, Idle
  <2> QED BY <1>12, <2>2, <2>3 DEF FailImport
<1>13. ASSUME NEW w \in Workers, Stop(w)
       PROVE  TypeOK'
  <2>1. run' \in [Ticks -> Run]
    BY <1>13 DEF Stop, Run, Idle
  <2>2. stops' \in 0..MaxStops
    BY <1>13, PipelineAssumption DEF Stop
  <2> QED BY <1>13, <2>1, <2>2 DEF Stop
<1>14. ASSUME NEW w \in Workers, Start(w)
       PROVE  TypeOK'
  <2>1. \A j \in DOMAIN jobs : Reclaimed(jobs[j]) \in Job
    BY JobType DEF Reclaimed, Job
  <2>2. jobs' \in Seq(Job)
    BY <1>14, <2>1 DEF Start
  <2> QED BY <1>14, <2>2 DEF Start
<1>15. ASSUME NEW j \in DOMAIN jobs, Age(j)
       PROVE  TypeOK'
  <2>1. [jobs[j] EXCEPT !.stale = TRUE] \in Job
    BY JobType DEF Job
  <2>2. jobs' = [jobs EXCEPT ![j] = [jobs[j] EXCEPT !.stale = TRUE]]
    BY <1>15 DEF Age
  <2>3. jobs' \in Seq(Job)
    BY <2>1, <2>2, JobWrite
  <2> QED BY <1>15, <2>3 DEF Age
<1>16. ASSUME UNCHANGED vars
       PROVE  TypeOK'
  BY <1>16 DEF vars
<1> QED
  BY <1>1, <1>2, <1>3, <1>4, <1>5, <1>6, <1>7, <1>8, <1>9, <1>10, <1>11, <1>12,
     <1>13, <1>14, <1>15, <1>16
     DEF Next, ImportSteps, AttachmentSteps, SourceSteps, ProcessSteps, ClaimAny, Work

-----------------------------------------------------------------------------
\* The work under way on an import

LEMMA WorkInit == Init => WorkInv
  BY DEF Init, WorkInv, Fresh, Holding, Staged, OneUnderWay, Idle

\* Handlers that touch neither the queue nor statuses leave the work alone.
LEMMA QuietStep ==
  ASSUME TypeOK, WorkInv, UNCHANGED <<jobs, run>>,
         \A i \in Imports : /\ import'[i].status = import[i].status
                            /\ import'[i].text = import[i].text,
         \A s \in Sources : source'[s].life = "ABSENT" => source[s].life = "ABSENT"
  PROVE  WorkInv'
<1>1. \A j \in DOMAIN jobs : jobs[j].import \in Imports
  BY JobType DEF TypeOK
<1>2. Fresh'
  BY <1>1, ImportIsSource DEF WorkInv, Fresh
<1>3. Holding'
  BY DEF WorkInv, Holding
<1>4. Staged'
  BY <1>1 DEF WorkInv, Staged, UnderWay, Unfinished
<1>5. OneUnderWay'
  BY DEF WorkInv, OneUnderWay, UnderWay, Unfinished
<1> QED BY <1>2, <1>3, <1>4, <1>5 DEF WorkInv

\* A new file has no job yet, so the job uploaded with it is its only one.
LEMMA UploadWork ==
  ASSUME TypeOK, WorkInv, NEW i \in Imports, NEW refs \in SUBSET References, Upload(i, refs)
  PROVE  WorkInv'
<1> DEFINE new == Len(jobs) + 1
<1>1. /\ DOMAIN jobs' = DOMAIN jobs \cup {new} /\ new \notin DOMAIN jobs
      /\ jobs'[new] = NewJob("IMPORT_SOURCE", i)
      /\ \A j \in DOMAIN jobs : jobs'[j] = jobs[j]
  BY DEF Upload, TypeOK
<1>2. /\ source[i].life = "ABSENT" /\ import[i].status = "ABSENT" /\ ~import[i].text
      /\ \A j \in DOMAIN jobs : jobs[j].import # i
  BY ImportIsSource DEF Upload, WorkInv, Fresh
<1>3. /\ import' = [import EXCEPT ![i].status = "QUEUED"]
      /\ UNCHANGED run
      /\ \A s \in Sources : source'[s].life = "ABSENT" => source[s].life = "ABSENT"
      /\ source'[i].life # "ABSENT"
  BY ImportIsSource DEF Upload, TypeOK
<1>4. \A j \in DOMAIN jobs : jobs[j].import \in Imports
  BY JobType DEF TypeOK
<1>5. \A k \in Imports : k # i => import'[k] = import[k]
  BY <1>3 DEF TypeOK
<1>6. /\ import'[i].status = "QUEUED" /\ import'[i].text = import[i].text
  BY <1>3 DEF TypeOK, Import
<1>7. Fresh'
  BY <1>1, <1>2, <1>3, <1>4, <1>5, <1>6, ImportIsSource DEF WorkInv, Fresh, NewJob
<1>8. Holding'
  BY <1>1, <1>3 DEF WorkInv, Holding
<1>9. \A j \in DOMAIN jobs : UnderWay(j)' <=> UnderWay(j)
  BY <1>1, <1>3 DEF UnderWay, Unfinished
<1>10. Staged'
  BY <1>1, <1>2, <1>4, <1>5, <1>6, <1>9 DEF WorkInv, Staged, Stage, NewJob
<1>11. OneUnderWay'
  BY <1>1, <1>2, <1>9 DEF WorkInv, OneUnderWay, NewJob
<1> QED BY <1>7, <1>8, <1>10, <1>11 DEF WorkInv

\* A reviewable import has text, hence nothing under way.
LEMMA ReviewWork ==
  ASSUME TypeOK, WorkInv, NEW i \in Imports, Review(i)
  PROVE  WorkInv'
<1>1. /\ import[i].text /\ import[i].status # "ABSENT"
      /\ \A j \in DOMAIN jobs : jobs[j].import = i => ~UnderWay(j)
  BY DEF Review, WorkInv, Staged
<1>2. \A j \in DOMAIN jobs : jobs[j].import \in Imports
  BY JobType DEF TypeOK
<1>3. /\ \A k \in Imports : k # i => import'[k] = import[k]
      /\ import'[i].status # "ABSENT"
      /\ \A s \in Sources : source'[s].life = source[s].life
      /\ UNCHANGED <<jobs, run>>
  BY DEF Review, TypeOK, Import, SourceRow
<1>4. Fresh'
  BY <1>1, <1>2, <1>3, ImportIsSource DEF WorkInv, Fresh
<1>5. Holding'
  BY <1>3 DEF WorkInv, Holding
<1>6. \A j \in DOMAIN jobs : UnderWay(j)' <=> UnderWay(j)
  BY <1>3 DEF UnderWay, Unfinished
<1>7. Staged' /\ OneUnderWay'
  BY <1>1, <1>2, <1>3, <1>6 DEF WorkInv, Staged, OneUnderWay
<1> QED BY <1>4, <1>5, <1>7 DEF WorkInv

\* Only a job that no tick has is READY.
LEMMA ClaimWork ==
  ASSUME TypeOK, WorkInv, NEW t \in Ticks, NEW j \in DOMAIN jobs, Claim(t, j)
  PROVE  WorkInv'
<1>1. /\ jobs[j].status = "READY" /\ run[t].pc = "idle"
      /\ \A u \in Ticks : run[u].pc # "idle" => run[u].job # j
  <2>1. jobs[j].status = "READY" /\ run[t].pc = "idle"
    BY DEF Claim, Claimable, Idle
  <2>2. \A u \in Ticks : run[u].pc # "idle" => jobs[run[u].job].status \in {"RUNNING", "FAILED"}
    BY DEF TypeOK, Run, WorkInv, Holding
  <2> QED BY <2>1, <2>2
<1>2. /\ DOMAIN jobs' = DOMAIN jobs
      /\ \A k \in DOMAIN jobs : k # j => jobs'[k] = jobs[k]
      /\ jobs'[j].status = "RUNNING" /\ jobs'[j].stale = FALSE
      /\ jobs'[j].import = jobs[j].import /\ jobs'[j].type = jobs[j].type
  BY JobType DEF Claim, TypeOK, Job
<1>3. /\ run'[t].pc = "claimed" /\ run'[t].job = j
      /\ \A u \in Ticks : u # t => run'[u] = run[u]
      /\ UNCHANGED <<import, source>>
  BY DEF Claim, TypeOK
<1>4. Fresh'
  BY <1>2, <1>3 DEF WorkInv, Fresh
<1>5. Holding'
  BY <1>1, <1>2, <1>3 DEF WorkInv, Holding
<1>6. \A k \in DOMAIN jobs : UnderWay(k)' <=> UnderWay(k)
  BY <1>1, <1>2, <1>3 DEF UnderWay, Unfinished
<1>7. Staged' /\ OneUnderWay'
  BY <1>2, <1>3, <1>6 DEF WorkInv, Staged, OneUnderWay
<1> QED BY <1>4, <1>5, <1>7 DEF WorkInv

\* The import's new status is of the stage of the only job under way on it.
LEMMA BeginWork ==
  ASSUME TypeOK, WorkInv, NEW t \in Ticks, Begin(t)
  PROVE  WorkInv'
<1> DEFINE j == run[t].job
           i == jobs[j].import
<1>1. /\ j \in DOMAIN jobs /\ i \in Imports /\ jobs[j].status = "RUNNING"
      /\ UnderWay(j) /\ source[i].life # "ABSENT" /\ ~import[i].text
  BY RunType DEF Begin, WorkInv, Holding, UnderWay, Unfinished, Fresh, Staged, ImportOf, JobOf
<1>2. /\ import'[i].status \in Stage(jobs[j].type) /\ import'[i].status # "ABSENT"
      /\ import'[i].text = import[i].text
      /\ \A k \in Imports : k # i => import'[k] = import[k]
  BY <1>1 DEF Begin, TypeOK, Import, Stage, ImportOf, JobOf
<1>3. /\ run'[t].pc = "working" /\ run'[t].job = j
      /\ \A u \in Ticks : u # t => run'[u] = run[u]
      /\ run[t].pc = "claimed" /\ UNCHANGED <<jobs, source>>
  BY DEF Begin, TypeOK, Run
<1>4. \A k \in DOMAIN jobs : jobs[k].import \in Imports
  BY JobType DEF TypeOK
<1>5. Fresh'
  BY <1>1, <1>2, <1>3, <1>4 DEF WorkInv, Fresh
<1>6. Holding'
  BY <1>3 DEF WorkInv, Holding
<1>7. \A k \in DOMAIN jobs : UnderWay(k)' <=> UnderWay(k)
  BY <1>3 DEF UnderWay, Unfinished
<1>8. OneUnderWay'
  BY <1>3, <1>7 DEF WorkInv, OneUnderWay
<1>9. Staged'
  BY <1>1, <1>2, <1>3, <1>4, <1>7 DEF WorkInv, Staged, OneUnderWay
<1> QED BY <1>5, <1>6, <1>8, <1>9 DEF WorkInv

\* The job that ends was the only one under way on its import, and the tick the
\* only one that had it.
LEMMA CompleteWork ==
  ASSUME TypeOK, WorkInv, NEW t \in Ticks, run[t].pc = "working",
         NEW extraction \in Extraction, NEW status \in ImportStatus \ {"ABSENT"},
         NEW text \in BOOLEAN, Complete(t, extraction, status, text)
  PROVE  /\ run[t].job \in DOMAIN jobs /\ ImportOf(t) \in Imports
         /\ DOMAIN Succeeded(t) = DOMAIN jobs
         /\ \A k \in DOMAIN jobs : /\ k # run[t].job => Succeeded(t)[k] = jobs[k]
                                   /\ Succeeded(t)[k].import = jobs[k].import
                                   /\ Succeeded(t)[k].type = jobs[k].type
         /\ Succeeded(t)[run[t].job].status = "SUCCEEDED"
         /\ \A k \in DOMAIN jobs : k # run[t].job /\ UnderWay(k) => jobs[k].import # ImportOf(t)
         /\ \A u \in Ticks : u # t /\ run[u].pc # "idle" => run[u].job # run[t].job
         /\ run'[t] = Idle /\ \A u \in Ticks : u # t => run'[u] = run[u]
         /\ import'[ImportOf(t)].status = status
         /\ \A k \in Imports : k # ImportOf(t) => import'[k] = import[k]
         /\ \A s \in Sources : source'[s].life = source[s].life
         /\ source[ImportOf(t)].life # "ABSENT"
<1> DEFINE j == run[t].job
<1>1. /\ j \in DOMAIN jobs /\ ImportOf(t) = jobs[j].import /\ ImportOf(t) \in Imports
      /\ jobs[j].status = "RUNNING" /\ jobs[j] \in Job
  BY RunType DEF WorkInv, Holding, ImportOf, JobOf
<1>2. UnderWay(j)
  BY <1>1 DEF UnderWay, Unfinished
<1>3. /\ DOMAIN Succeeded(t) = DOMAIN jobs
      /\ \A k \in DOMAIN jobs : k # j => Succeeded(t)[k] = jobs[k]
      /\ Succeeded(t)[j] = [jobs[j] EXCEPT !.status = "SUCCEEDED"]
  BY <1>1 DEF Succeeded, TypeOK
<1>4. /\ Succeeded(t)[j].status = "SUCCEEDED" /\ Succeeded(t)[j].import = jobs[j].import
      /\ Succeeded(t)[j].type = jobs[j].type
  BY <1>1, <1>3 DEF Job
<1>5. \A k \in DOMAIN jobs : k # j /\ UnderWay(k) => jobs[k].import # ImportOf(t)
  BY <1>1, <1>2 DEF WorkInv, OneUnderWay
<1>6. \A u \in Ticks : u # t /\ run[u].pc # "idle" => run[u].job # j
  BY DEF WorkInv, Holding
<1>7. run'[t] = Idle /\ \A u \in Ticks : u # t => run'[u] = run[u]
  BY DEF Complete, TypeOK
<1>8. /\ import'[ImportOf(t)].status = status
      /\ \A k \in Imports : k # ImportOf(t) => import'[k] = import[k]
  BY <1>1 DEF Complete, TypeOK, Import
<1>9. source[ImportOf(t)].life # "ABSENT"
  BY <1>1 DEF WorkInv, Fresh
<1>10. \A s \in Sources : source'[s].life = source[s].life
  BY DEF Complete, TypeOK, SourceRow
<1> QED BY <1>1, <1>3, <1>4, <1>5, <1>6, <1>7, <1>8, <1>9, <1>10

LEMMA FinishWork ==
  ASSUME TypeOK, WorkInv, NEW t \in Ticks, FinishText(t) \/ FinishOcr(t)
  PROVE  WorkInv'
<1> DEFINE j == run[t].job
           i == ImportOf(t)
<1>1. PICK extraction \in Extraction : Complete(t, extraction, "READY_FOR_REVIEW", TRUE)
  BY DEF FinishText, FinishOcr, Extraction
<1>2. run[t].pc = "working" /\ jobs' = Succeeded(t)
  BY DEF FinishText, FinishOcr, Working
<1>3. "READY_FOR_REVIEW" \in ImportStatus \ {"ABSENT"} /\ TRUE \in BOOLEAN
  BY DEF ImportStatus
<1>4. /\ j \in DOMAIN jobs /\ i \in Imports
      /\ DOMAIN jobs' = DOMAIN jobs
      /\ \A k \in DOMAIN jobs : /\ k # j => jobs'[k] = jobs[k]
                                /\ jobs'[k].import = jobs[k].import
                                /\ jobs'[k].type = jobs[k].type
      /\ jobs'[j].status = "SUCCEEDED"
      /\ \A k \in DOMAIN jobs : k # j /\ UnderWay(k) => jobs[k].import # i
      /\ \A u \in Ticks : u # t /\ run[u].pc # "idle" => run[u].job # j
      /\ run'[t] = Idle /\ \A u \in Ticks : u # t => run'[u] = run[u]
      /\ import'[i].status = "READY_FOR_REVIEW"
      /\ \A k \in Imports : k # i => import'[k] = import[k]
      /\ \A s \in Sources : source'[s].life = source[s].life
      /\ source[i].life # "ABSENT"
  <2>1. /\ j \in DOMAIN jobs /\ i \in Imports
        /\ DOMAIN Succeeded(t) = DOMAIN jobs
        /\ \A k \in DOMAIN jobs : /\ k # j => Succeeded(t)[k] = jobs[k]
                                  /\ Succeeded(t)[k].import = jobs[k].import
                                  /\ Succeeded(t)[k].type = jobs[k].type
        /\ Succeeded(t)[j].status = "SUCCEEDED"
        /\ \A k \in DOMAIN jobs : k # j /\ UnderWay(k) => jobs[k].import # i
        /\ \A u \in Ticks : u # t /\ run[u].pc # "idle" => run[u].job # j
        /\ run'[t] = Idle /\ \A u \in Ticks : u # t => run'[u] = run[u]
        /\ import'[i].status = "READY_FOR_REVIEW"
        /\ \A k \in Imports : k # i => import'[k] = import[k]
        /\ \A s \in Sources : source'[s].life = source[s].life
        /\ source[i].life # "ABSENT"
    BY <1>1, <1>2, <1>3, CompleteWork
  <2> QED BY <1>2, <2>1
<1>5. \A k \in DOMAIN jobs : jobs[k].import \in Imports
  BY JobType DEF TypeOK
<1>6. Fresh'
  BY <1>4, <1>5, ImportIsSource DEF WorkInv, Fresh
<1>7. Holding'
  BY <1>4 DEF WorkInv, Holding, Idle
<1>8. \A k \in DOMAIN jobs : UnderWay(k)' => UnderWay(k) /\ k # j
  BY <1>4 DEF UnderWay, Unfinished, Idle
<1>9. Staged'
  BY <1>4, <1>5, <1>8 DEF WorkInv, Staged
<1>10. OneUnderWay'
  BY <1>4, <1>8 DEF WorkInv, OneUnderWay
<1> QED BY <1>6, <1>7, <1>9, <1>10 DEF WorkInv

\* The OCR job takes the place of the extraction job.
LEMMA FinishScanWork ==
  ASSUME TypeOK, WorkInv, NEW t \in Ticks, FinishScan(t)
  PROVE  WorkInv'
<1> DEFINE j == run[t].job
           i == ImportOf(t)
           new == Len(jobs) + 1
<1>1. /\ run[t].pc = "working" /\ "OCR_REQUIRED" \in ImportStatus \ {"ABSENT"}
      /\ "OCR_REQUIRED" \in Extraction
      /\ Complete(t, "OCR_REQUIRED", "OCR_REQUIRED", FALSE)
      /\ jobs' = Append(Succeeded(t), NewJob("OCR_SOURCE", i))
  BY DEF FinishScan, Working, ImportStatus, Extraction
<1>2. Succeeded(t) \in Seq(Job)
  BY <1>1, RunJobWrite DEF Succeeded, WorkInv
<1>3. /\ j \in DOMAIN jobs /\ i \in Imports
      /\ DOMAIN Succeeded(t) = DOMAIN jobs
      /\ \A k \in DOMAIN jobs : /\ k # j => Succeeded(t)[k] = jobs[k]
                                /\ Succeeded(t)[k].import = jobs[k].import
                                /\ Succeeded(t)[k].type = jobs[k].type
      /\ Succeeded(t)[j].status = "SUCCEEDED"
      /\ \A k \in DOMAIN jobs : k # j /\ UnderWay(k) => jobs[k].import # i
      /\ \A u \in Ticks : u # t /\ run[u].pc # "idle" => run[u].job # j
      /\ run'[t] = Idle /\ \A u \in Ticks : u # t => run'[u] = run[u]
      /\ import'[i].status = "OCR_REQUIRED"
      /\ \A k \in Imports : k # i => import'[k] = import[k]
      /\ \A s \in Sources : source'[s].life = source[s].life
      /\ source[i].life # "ABSENT"
  BY <1>1, CompleteWork
<1>4. /\ DOMAIN jobs' = DOMAIN jobs \cup {new} /\ new \notin DOMAIN jobs
      /\ jobs'[new] = NewJob("OCR_SOURCE", i)
      /\ \A k \in DOMAIN jobs : jobs'[k] = Succeeded(t)[k]
  <2>1. Len(Succeeded(t)) = Len(jobs)
    BY <1>2, <1>3 DEF TypeOK
  <2> QED BY <1>1, <1>2, <2>1 DEF TypeOK
<1>5. \A k \in DOMAIN jobs : jobs[k].import \in Imports
  BY JobType DEF TypeOK
<1>6. Fresh'
  BY <1>3, <1>4, <1>5, ImportIsSource DEF WorkInv, Fresh, NewJob
<1>7. Holding'
  BY <1>3, <1>4 DEF WorkInv, Holding, Idle
<1>8. \A k \in DOMAIN jobs : UnderWay(k)' => UnderWay(k) /\ k # j
  BY <1>3, <1>4 DEF UnderWay, Unfinished, Idle
<1>9. Staged'
  <2>1. ~import[i].text
    BY <1>1, <1>3, RunType
       DEF WorkInv, Holding, Staged, UnderWay, Unfinished, ImportOf, JobOf
  <2>2. ~import'[i].text
    BY <1>1, <1>3, <2>1 DEF Complete, TypeOK, Import
  <2> QED BY <1>3, <1>4, <1>5, <1>8, <2>2 DEF WorkInv, Staged, NewJob, Stage
<1>10. OneUnderWay'
  BY <1>3, <1>4, <1>8 DEF WorkInv, OneUnderWay, NewJob
<1> QED BY <1>6, <1>7, <1>9, <1>10 DEF WorkInv

\* A failed job stays under way until its tick has recorded the failure.
LEMMA FailJobWork ==
  ASSUME TypeOK, WorkInv, NEW t \in Ticks, FailJob(t)
  PROVE  WorkInv'
<1> DEFINE j == run[t].job
<1>1. /\ j \in DOMAIN jobs /\ jobs[j] \in Job /\ jobs[j].status = "RUNNING"
      /\ run[t].pc # "idle" /\ UnderWay(j)
  BY RunType DEF FailJob, WorkInv, Holding, JobOf, UnderWay, Unfinished
<1>2. /\ DOMAIN jobs' = DOMAIN jobs
      /\ \A k \in DOMAIN jobs : k # j => jobs'[k] = jobs[k]
      /\ jobs'[j] = [jobs[j] EXCEPT !.status = "FAILED"]
  BY <1>1 DEF FailJob, TypeOK
<1>3. /\ jobs'[j].status = "FAILED"
      /\ \A k \in DOMAIN jobs : jobs'[k].import = jobs[k].import /\ jobs'[k].type = jobs[k].type
  BY <1>1, <1>2 DEF Job
<1>4. /\ run'[t].pc = "failing" /\ run'[t].job = j
      /\ \A u \in Ticks : u # t => run'[u] = run[u]
      /\ UNCHANGED <<import, source>>
  BY DEF FailJob, TypeOK, Run
<1>5. Fresh'
  BY <1>2, <1>3, <1>4 DEF WorkInv, Fresh
<1>6. Holding'
  <2>1. \A u \in Ticks : u # t /\ run[u].pc # "idle" => run[u].job # j
    BY <1>1 DEF WorkInv, Holding
  <2>2. \A u \in Ticks : u # t /\ run[u].pc # "idle" =>
          jobs'[run'[u].job] = jobs[run[u].job] /\ run'[u].job \in DOMAIN jobs
    BY <1>2, <1>4, <2>1 DEF WorkInv, Holding
  <2>3. /\ \A u \in Ticks : run'[u].pc # "idle" => run'[u].job \in DOMAIN jobs'
        /\ \A u, v \in Ticks :
             run'[u].pc # "idle" /\ run'[v].pc # "idle" /\ run'[u].job = run'[v].job => u = v
    BY <1>1, <1>2, <1>4, <2>1 DEF WorkInv, Holding
  <2>4. /\ \A u \in Ticks : run'[u].pc \in {"claimed", "working"} =>
             jobs'[run'[u].job].status = "RUNNING" /\ ~jobs'[run'[u].job].stale
        /\ \A u \in Ticks : run'[u].pc = "failing" => jobs'[run'[u].job].status = "FAILED"
    BY <1>3, <1>4, <2>2 DEF WorkInv, Holding
  <2> QED BY <2>3, <2>4 DEF Holding
<1>7. \A k \in DOMAIN jobs : UnderWay(k)' => UnderWay(k)
  BY <1>1, <1>2, <1>3, <1>4 DEF UnderWay, Unfinished
<1>8. Staged' /\ OneUnderWay'
  BY <1>2, <1>3, <1>4, <1>7 DEF WorkInv, Staged, OneUnderWay
<1> QED BY <1>5, <1>6, <1>8 DEF WorkInv

LEMMA FailImportWork ==
  ASSUME TypeOK, WorkInv, NEW t \in Ticks, FailImport(t)
  PROVE  WorkInv'
<1> DEFINE j == run[t].job
           i == jobs[j].import
<1>1. /\ j \in DOMAIN jobs /\ i \in Imports /\ jobs[j].status = "FAILED"
      /\ UnderWay(j) /\ source[i].life # "ABSENT"
  BY RunType DEF FailImport, WorkInv, Holding, Fresh, UnderWay, ImportOf, JobOf
<1>2. /\ import'[i].text = import[i].text
      /\ import'[i].status # "ABSENT"
      /\ \A k \in Imports : k # i => import'[k] = import[k]
  BY <1>1 DEF FailImport, TypeOK, Import, ImportOf, JobOf
<1>3. /\ run'[t] = Idle /\ \A u \in Ticks : u # t => run'[u] = run[u]
      /\ UNCHANGED <<jobs, source>>
  BY DEF FailImport, TypeOK
<1>4. \A u \in Ticks : u # t /\ run[u].pc # "idle" => run[u].job # j
  BY DEF FailImport, WorkInv, Holding
<1>5. \A k \in DOMAIN jobs : jobs[k].import \in Imports
  BY JobType DEF TypeOK
<1>6. Fresh'
  BY <1>1, <1>2, <1>3, <1>5 DEF WorkInv, Fresh
<1>7. Holding'
  BY <1>3 DEF WorkInv, Holding, Idle
<1>8. \A k \in DOMAIN jobs : UnderWay(k)' => UnderWay(k) /\ jobs[k].import # i
  <2>1. \A k \in DOMAIN jobs : UnderWay(k)' => UnderWay(k) /\ k # j
    BY <1>1, <1>3, <1>4 DEF UnderWay, Unfinished, Idle
  <2> QED BY <1>1, <2>1 DEF WorkInv, OneUnderWay
<1>9. Staged' /\ OneUnderWay'
  BY <1>2, <1>3, <1>5, <1>8 DEF WorkInv, Staged, OneUnderWay
<1> QED BY <1>6, <1>7, <1>9 DEF WorkInv

\* A process that stops leaves its jobs RUNNING and its failures unrecorded.
LEMMA StopWork ==
  ASSUME TypeOK, WorkInv, NEW w \in Workers, Stop(w)
  PROVE  WorkInv'
<1>1. /\ \A t \in Ticks : run'[t] = run[t] \/ run'[t] = Idle
      /\ UNCHANGED <<jobs, import, source>>
  BY DEF Stop
<1>2. Fresh'
  BY <1>1 DEF WorkInv, Fresh
<1>3. Holding'
  BY <1>1 DEF WorkInv, Holding, Idle
<1>4. \A j \in DOMAIN jobs : UnderWay(j)' => UnderWay(j)
  BY <1>1 DEF UnderWay, Unfinished, Idle
<1>5. Staged' /\ OneUnderWay'
  BY <1>1, <1>4 DEF WorkInv, Staged, OneUnderWay
<1> QED BY <1>2, <1>3, <1>5 DEF WorkInv

\* A claim put back is stale, so no tick has it any more.
LEMMA StartWork ==
  ASSUME TypeOK, WorkInv, NEW w \in Workers, Start(w)
  PROVE  WorkInv'
<1>1. /\ DOMAIN jobs' = DOMAIN jobs
      /\ \A j \in DOMAIN jobs : jobs'[j] = Reclaimed(jobs[j])
      /\ UNCHANGED <<run, import, source>>
  BY DEF Start
<1>2. \A j \in DOMAIN jobs :
        /\ jobs'[j].import = jobs[j].import /\ jobs'[j].type = jobs[j].type
        /\ jobs'[j].status \in {"READY", "RUNNING"} <=> jobs[j].status \in {"READY", "RUNNING"}
        /\ jobs[j].status = "RUNNING" /\ ~jobs[j].stale => jobs'[j] = jobs[j]
        /\ jobs[j].status = "FAILED" => jobs'[j] = jobs[j]
  BY <1>1, JobType DEF Reclaimed, Job, TypeOK
<1>3. Fresh'
  BY <1>1, <1>2 DEF WorkInv, Fresh
<1>4. Holding'
  <2>1. /\ \A t \in Ticks : run'[t].pc # "idle" => run'[t].job \in DOMAIN jobs'
        /\ \A t, u \in Ticks :
             run'[t].pc # "idle" /\ run'[u].pc # "idle" /\ run'[t].job = run'[u].job => t = u
    BY <1>1 DEF WorkInv, Holding
  <2>2. \A t \in Ticks : run[t].pc # "idle" => jobs'[run[t].job] = jobs[run[t].job]
    BY <1>2 DEF WorkInv, Holding, TypeOK, Run
  <2> QED BY <1>1, <2>1, <2>2 DEF WorkInv, Holding
<1>5. \A j \in DOMAIN jobs : UnderWay(j)' <=> UnderWay(j)
  BY <1>1, <1>2 DEF UnderWay, Unfinished
<1>6. Staged' /\ OneUnderWay'
  BY <1>1, <1>2, <1>5 DEF WorkInv, Staged, OneUnderWay
<1> QED BY <1>3, <1>4, <1>6 DEF WorkInv

\* Only the claim of a dead tick grows stale.
LEMMA AgeWork ==
  ASSUME ~SlowJobs, TypeOK, WorkInv, NEW j \in DOMAIN jobs, Age(j)
  PROVE  WorkInv'
<1>1. /\ jobs[j].status = "RUNNING"
      /\ \A t \in Ticks : ~Holds(t, j)
      /\ DOMAIN jobs' = DOMAIN jobs
      /\ \A k \in DOMAIN jobs : k # j => jobs'[k] = jobs[k]
      /\ UNCHANGED <<run, import, source>>
  BY DEF Age, TypeOK
<1>2. jobs'[j] = [jobs[j] EXCEPT !.stale = TRUE]
  BY DEF Age, TypeOK
<1>3. \A k \in DOMAIN jobs : /\ jobs'[k].import = jobs[k].import
                             /\ jobs'[k].type = jobs[k].type
                             /\ jobs'[k].status = jobs[k].status
  BY <1>1, <1>2, JobType DEF Job, TypeOK
<1>4. Fresh'
  BY <1>1, <1>3 DEF WorkInv, Fresh
<1>5. Holding'
  <2>1. \A t \in Ticks : run[t].pc \in {"claimed", "working"} => run[t].job # j
    BY <1>1 DEF Holds
  <2> QED BY <1>1, <1>3, <2>1 DEF WorkInv, Holding
<1>6. \A k \in DOMAIN jobs : UnderWay(k)' <=> UnderWay(k)
  BY <1>1, <1>3 DEF UnderWay, Unfinished
<1>7. Staged' /\ OneUnderWay'
  BY <1>1, <1>3, <1>6 DEF WorkInv, Staged, OneUnderWay
<1> QED BY <1>4, <1>5, <1>7 DEF WorkInv

\* The other handlers of the API are quiet about the queue.
LEMMA ApiWork ==
  ASSUME TypeOK, WorkInv,
         \/ \E i \in Imports, s \in Sources :
              Attach(i, s) \/ Detach(i, s) \/ LinkSource(i, s) \/ UnlinkSource(i, s)
         \/ \E i \in Imports : CreateDraft(i) \/ \E target \in LawTargets : MoveLaw(i, target)
         \/ SourceSteps
  PROVE  WorkInv'
<1>1. CASE \E i \in Imports, s \in Sources :
             Attach(i, s) \/ Detach(i, s) \/ LinkSource(i, s) \/ UnlinkSource(i, s)
  <2>1. UNCHANGED <<jobs, run, import, source>>
    BY <1>1 DEF Attach, Detach, LinkSource, UnlinkSource
  <2> QED BY <2>1, QuietStep
<1>2. CASE \E i \in Imports : CreateDraft(i) \/ \E target \in LawTargets : MoveLaw(i, target)
  <2>1. PICK i \in Imports, law \in LawTargets \cup {"DRAFT"} :
          import' = [import EXCEPT ![i].law = law] /\ UNCHANGED <<jobs, run, source>>
    BY <1>2 DEF CreateDraft, MoveLaw
  <2>2. \A k \in Imports : /\ import'[k].status = import[k].status
                           /\ import'[k].text = import[k].text
    BY <2>1 DEF TypeOK, Import
  <2> QED BY <2>1, <2>2, QuietStep
<1>3. CASE SourceSteps
  <2>1. PICK s \in Sources :
          \/ \E state \in ManualStates : UpdateSource(s, state)
          \/ EnableSource(s) \/ DisableSource(s) \/ DeleteSource(s)
    BY <1>3 DEF SourceSteps
  <2>2. UNCHANGED <<jobs, run, import>>
    BY <2>1 DEF UpdateSource, EnableSource, DisableSource, DeleteSource, SetLife
  <2>3. \A o \in Sources : source'[o].life = "ABSENT" => source[o].life = "ABSENT"
    BY <2>1 DEF UpdateSource, EnableSource, DisableSource, DeleteSource, SetLife, TypeOK, SourceRow
  <2> QED BY <2>2, <2>3, QuietStep
<1> QED BY <1>1, <1>2, <1>3

LEMMA WorkStep ==
  ASSUME ~SlowJobs
  PROVE  TypeOK /\ WorkInv /\ [Next]_vars => WorkInv'
<1> SUFFICES ASSUME TypeOK, WorkInv, [Next]_vars PROVE WorkInv'
  OBVIOUS
<1>1. CASE ImportSteps \/ AttachmentSteps \/ SourceSteps
  BY <1>1, UploadWork, ReviewWork, ApiWork DEF ImportSteps, AttachmentSteps
<1>2. CASE \E t \in Ticks : ClaimAny(t) \/ Work(t)
  BY <1>2, ClaimWork, BeginWork, FinishWork, FinishScanWork, FailJobWork, FailImportWork
     DEF ClaimAny, Work
<1>3. CASE ProcessSteps
  BY <1>3, StopWork, StartWork, AgeWork DEF ProcessSteps
<1>4. CASE UNCHANGED vars
  BY <1>4, QuietStep DEF vars
<1> QED BY <1>1, <1>2, <1>3, <1>4 DEF Next

-----------------------------------------------------------------------------
\* References to sources

LEMMA CitedInit == Init => CitedSourcesKept
  BY DEF Init, CitedSourcesKept, Referenced, Cited

\* Nothing new is referenced and no source is withdrawn.
LEMMA NoNewReference ==
  ASSUME CitedSourcesKept,
         \A i \in Imports : import'[i].law # "NONE" => import[i].law # "NONE",
         \A i \in Imports : attached'[i] \subseteq attached[i] /\ linked'[i] \subseteq linked[i],
         \A s \in Sources : source[s].life \in {"ACTIVE", "DISABLED"} =>
                            source'[s].life \in {"ACTIVE", "DISABLED"}
  PROVE  CitedSourcesKept'
  BY DEF CitedSourcesKept, Referenced, Cited

\* The worker rewrites statuses and extraction states only.
LEMMA WorkerReferences ==
  ASSUME TypeOK, NEW t \in Ticks, ClaimAny(t) \/ Work(t)
  PROVE  /\ \A i \in Imports : import'[i].law = import[i].law
         /\ \A s \in Sources : source'[s].life = source[s].life
         /\ UNCHANGED <<attached, linked>>
<1>1. CASE ClaimAny(t) \/ FailJob(t)
  BY <1>1 DEF ClaimAny, Claim, FailJob
<1>2. CASE Begin(t) \/ FailImport(t)
  <2>1. PICK status : import' = [import EXCEPT ![ImportOf(t)].status = status]
    BY <1>2 DEF Begin, FailImport
  <2>2. \A i \in Imports : import'[i].law = import[i].law
    BY <2>1 DEF TypeOK, Import
  <2>3. UNCHANGED <<source, attached, linked>>
    BY <1>2 DEF Begin, FailImport
  <2> QED BY <2>2, <2>3
<1>3. CASE FinishText(t) \/ FinishScan(t) \/ FinishOcr(t)
  <2>1. PICK extraction, status, text : Complete(t, extraction, status, text)
    BY <1>3 DEF FinishText, FinishScan, FinishOcr
  <2>2. /\ \A i \in Imports : import'[i].law = import[i].law
        /\ UNCHANGED <<attached, linked>>
    BY <2>1 DEF Complete, TypeOK, Import
  <2>3. \A s \in Sources : source'[s].life = source[s].life
    BY <2>1 DEF Complete, TypeOK, SourceRow
  <2> QED BY <2>2, <2>3
<1> QED BY <1>1, <1>2, <1>3 DEF Work

LEMMA CitedStep == TypeOK /\ CitedSourcesKept /\ [Next]_vars => CitedSourcesKept'
<1> SUFFICES ASSUME TypeOK, CitedSourcesKept, [Next]_vars PROVE CitedSourcesKept'
  OBVIOUS
<1>1. ASSUME NEW i \in Imports, NEW refs \in SUBSET References, Upload(i, refs)
      PROVE  CitedSourcesKept'
  <2>1. /\ \A k \in Imports : import'[k].law = import[k].law
        /\ \A k \in Imports : attached'[k] \subseteq attached[k] \cup refs
        /\ UNCHANGED linked
    BY <1>1 DEF Upload, TypeOK, Import
  <2>2. \A s \in Sources :
          /\ s \in refs => source'[s].life = "ACTIVE"
          /\ source[s].life \in {"ACTIVE", "DISABLED"} => source'[s] = source[s]
    BY <1>1 DEF Upload, TypeOK
  <2> QED BY <2>1, <2>2 DEF CitedSourcesKept, Referenced, Cited
<1>2. ASSUME NEW i \in Imports, Review(i)
      PROVE  CitedSourcesKept'
  <2>1. /\ \A k \in Imports : import'[k].law = import[k].law
        /\ \A s \in Sources : source'[s].life = source[s].life
        /\ UNCHANGED <<attached, linked>>
    BY <1>2 DEF Review, TypeOK, Import, SourceRow
  <2> QED BY <2>1, NoNewReference
<1>3. ASSUME NEW i \in Imports, CreateDraft(i)
      PROVE  CitedSourcesKept'
  <2>1. /\ Active(i) /\ UNCHANGED <<source, attached>>
        /\ \A k \in Imports : k # i => import'[k] = import[k] /\ linked'[k] = linked[k]
        /\ linked'[i] = {i} \cup attached[i]
    BY <1>3 DEF CreateDraft, TypeOK
  <2> QED BY <2>1, ImportIsSource DEF CitedSourcesKept, Referenced, Cited, Active
<1>4. ASSUME NEW i \in Imports, NEW target \in LawTargets, MoveLaw(i, target)
      PROVE  CitedSourcesKept'
  <2>1. import[i].law # "NONE"
    BY <1>4 DEF MoveLaw, Transitions, PublicStatus
  <2>2. /\ \A k \in Imports : k # i => import'[k] = import[k]
        /\ UNCHANGED <<source, attached, linked>>
    BY <1>4 DEF MoveLaw, TypeOK
  <2> QED BY <2>1, <2>2, NoNewReference
<1>5. ASSUME NEW i \in Imports, NEW s \in Sources, Attach(i, s) \/ LinkSource(i, s)
      PROVE  CitedSourcesKept'
  <2>1. /\ Active(s) /\ UNCHANGED <<source, import>>
        /\ \A k \in Imports : /\ attached'[k] \subseteq attached[k] \cup {s}
                             /\ linked'[k] \subseteq linked[k] \cup {s}
    BY <1>5 DEF Attach, LinkSource, TypeOK
  <2> QED BY <2>1 DEF CitedSourcesKept, Referenced, Cited, Active
<1>6. ASSUME NEW i \in Imports, NEW s \in Sources, Detach(i, s) \/ UnlinkSource(i, s)
      PROVE  CitedSourcesKept'
  <2>1. /\ UNCHANGED <<source, import>>
        /\ \A k \in Imports : attached'[k] \subseteq attached[k] /\ linked'[k] \subseteq linked[k]
    BY <1>6 DEF Detach, UnlinkSource, TypeOK
  <2> QED BY <2>1, NoNewReference
<1>7. ASSUME NEW s \in Sources, NEW state \in ManualStates, UpdateSource(s, state)
      PROVE  CitedSourcesKept'
  <2>1. /\ \A o \in Sources : source'[o].life = source[o].life
        /\ UNCHANGED <<import, attached, linked>>
    BY <1>7 DEF UpdateSource, TypeOK, SourceRow
  <2> QED BY <2>1, NoNewReference
<1>8. ASSUME NEW s \in Sources, EnableSource(s) \/ DisableSource(s)
      PROVE  CitedSourcesKept'
  <2>1. /\ \A o \in Sources : source'[o].life = source[o].life \/ source'[o].life \in {"ACTIVE", "DISABLED"}
        /\ UNCHANGED <<import, attached, linked>>
    BY <1>8 DEF EnableSource, DisableSource, SetLife, TypeOK, SourceRow
  <2> QED BY <2>1, NoNewReference
<1>9. ASSUME NEW s \in Sources, DeleteSource(s)
      PROVE  CitedSourcesKept'
  <2>1. /\ ~Referenced(s)
        /\ \A o \in Sources : o # s => source'[o] = source[o]
        /\ UNCHANGED <<import, attached, linked>>
    BY <1>9 DEF DeleteSource, SetLife, TypeOK
  <2> QED BY <2>1 DEF CitedSourcesKept, Referenced, Cited
<1>10. ASSUME NEW t \in Ticks, ClaimAny(t) \/ Work(t)
       PROVE  CitedSourcesKept'
  BY <1>10, WorkerReferences, NoNewReference
<1>11. CASE ProcessSteps \/ UNCHANGED vars
  <2>1. UNCHANGED <<import, source, attached, linked>>
    BY <1>11 DEF ProcessSteps, Stop, Start, Age, vars
  <2> QED BY <2>1, NoNewReference
<1> QED
  BY <1>1, <1>2, <1>3, <1>4, <1>5, <1>6, <1>7, <1>8, <1>9, <1>10, <1>11
     DEF Next, ImportSteps, AttachmentSteps, SourceSteps

-----------------------------------------------------------------------------
\* The theorems

LEMMA Invariance == ASSUME ~SlowJobs PROVE Spec => [](TypeOK /\ WorkInv /\ CitedSourcesKept)
<1>1. Init => TypeOK /\ WorkInv /\ CitedSourcesKept
  BY TypeInit, WorkInit, CitedInit
<1>2. TypeOK /\ WorkInv /\ CitedSourcesKept /\ [Next]_vars
        => (TypeOK /\ WorkInv /\ CitedSourcesKept)'
  BY TypeStep, WorkStep, CitedStep DEF WorkInv
<1> QED BY <1>1, <1>2, PTL DEF Spec

\* Every row of the queue, the imports and the sources keeps its type, through
\* crashes of worker processes between any two of their writes, as long as no live tick
\* is at a job for fifteen minutes.
THEOREM TypesHold == ASSUME ~SlowJobs PROVE Spec => []TypeOK
  BY Invariance, PTL

\* Two ticks never work on one job, as long as no live tick is at one for fifteen
\* minutes: then the claim, and the return of stale claims at a start, exclude it.
\* Nothing in the code bounds the time a job takes (locked_at is not renewed), so the
\* condition is one on the texts and images that are uploaded.
THEOREM JobsRunOnce == ASSUME ~SlowJobs PROVE Spec => []OneRunPerJob
<1>1. TypeOK /\ WorkInv => OneRunPerJob
  BY DEF WorkInv, Holding, OneRunPerJob, Holds
<1> QED BY <1>1, Invariance, PTL

\* An import has at most one unfinished job and its status is of that job's stage, as
\* long as no live tick is at a job for fifteen minutes; an OCR that takes longer can be
\* run a second time and breaks it.
THEOREM StatusIsStage == ASSUME ~SlowJobs PROVE Spec => []StatusTellsStage
<1>1. WorkInv => StatusTellsStage
  BY DEF WorkInv, Staged, OneUnderWay, UnderWay, Stage, StatusTellsStage
<1> QED BY <1>1, Invariance, PTL

\* No attached, linked or cited source is ever deleted, as long as no live tick is at a
\* job for fifteen minutes; the condition comes with the invariant this follows from.
THEOREM ReferencedSourcesKept == ASSUME ~SlowJobs PROVE Spec => []CitedSourcesKept
  BY Invariance, PTL

\* The worker and a late upload leave a reviewed import reviewed, as long as no live
\* tick is at a job for fifteen minutes and the job is run by nobody else.
THEOREM ReviewIsFinal == ASSUME ~SlowJobs PROVE Spec => ReviewedStands
<1>1. ASSUME TypeOK, WorkInv, [Next]_vars, NEW i \in Imports, import[i].status = "REVIEWED"
      PROVE  import'[i].status = "REVIEWED"
  <2>1. /\ source[i].life # "ABSENT"
        /\ \A j \in DOMAIN jobs : UnderWay(j) => jobs[j].import # i
    BY <1>1 DEF WorkInv, Fresh, Staged, Stage
  <2>2. CASE ImportSteps
    <3>1. ASSUME NEW k \in Imports, NEW refs \in SUBSET References, Upload(k, refs)
          PROVE  import'[i].status = "REVIEWED"
      BY <1>1, <2>1, <3>1 DEF Upload, TypeOK
    <3>2. ASSUME NEW k \in Imports, Review(k)
          PROVE  import'[i].status = "REVIEWED"
      BY <1>1, <3>2 DEF Review, TypeOK, Import
    <3>3. ASSUME NEW k \in Imports, NEW law, import' = [import EXCEPT ![k].law = law]
          PROVE  import'[i].status = "REVIEWED"
      BY <1>1, <3>3 DEF TypeOK, Import
    <3> QED BY <2>2, <3>1, <3>2, <3>3 DEF ImportSteps, CreateDraft, MoveLaw
  <2>3. CASE \E t \in Ticks : ClaimAny(t) \/ Work(t)
    <3>1. PICK t \in Ticks : ClaimAny(t) \/ Work(t)
      BY <2>3
    <3>2. CASE ClaimAny(t) \/ FailJob(t)
      BY <1>1, <3>2 DEF ClaimAny, Claim, FailJob
    <3>3. CASE run[t].pc # "idle"
      <4>1. run[t].job \in DOMAIN jobs /\ UnderWay(run[t].job)
        BY <1>1, <3>3 DEF TypeOK, Run, WorkInv, Holding, UnderWay, Unfinished
      <4>2. ImportOf(t) # i
        BY <2>1, <4>1 DEF ImportOf, JobOf
      <4> QED BY <1>1, <3>1, <3>2, <4>2
              DEF Work, Begin, FinishText, FinishScan, FinishOcr, Complete, FailImport, TypeOK
    <3> QED BY <3>1, <3>2, <3>3
            DEF Work, Begin, FinishText, FinishScan, FinishOcr, Working, FailImport
  <2>4. CASE AttachmentSteps \/ SourceSteps \/ ProcessSteps \/ UNCHANGED vars
    <3>1. UNCHANGED import
      BY <2>4 DEF AttachmentSteps, Attach, Detach, LinkSource, UnlinkSource, SourceSteps,
                  UpdateSource, EnableSource, DisableSource, DeleteSource, SetLife,
                  ProcessSteps, Stop, Start, Age, vars
    <3> QED BY <1>1, <3>1
  <2> QED BY <1>1, <2>2, <2>3, <2>4 DEF Next
<1>2. TypeOK /\ WorkInv /\ [Next]_vars
        => [\A i \in Imports :
              import[i].status = "REVIEWED" => import'[i].status = "REVIEWED"]_vars
  BY <1>1
<1> QED BY <1>2, Invariance, PTL DEF Spec, ReviewedStands

\* The links and attachments of a law that left the drafts are never rewritten, as long
\* as no live tick is at a job for fifteen minutes (as for ReferencedSourcesKept).
THEOREM SettledSourcesFixed == ASSUME ~SlowJobs PROVE Spec => SettledLawKeepsSources
<1>1. ASSUME TypeOK, CitedSourcesKept, [Next]_vars, NEW i \in Imports,
             import[i].law \notin {"NONE", "INBOX", "DRAFT"}
      PROVE  linked'[i] = linked[i] /\ attached'[i] = attached[i]
  <2>1. source[i].life # "ABSENT"
    BY <1>1, ImportIsSource DEF CitedSourcesKept, Referenced, Cited
  <2>2. CASE ImportSteps
    <3>1. ASSUME NEW k \in Imports, NEW refs \in SUBSET References, Upload(k, refs)
          PROVE  linked'[i] = linked[i] /\ attached'[i] = attached[i]
      BY <1>1, <2>1, <3>1 DEF Upload, TypeOK
    <3>2. ASSUME NEW k \in Imports, CreateDraft(k)
          PROVE  linked'[i] = linked[i] /\ attached'[i] = attached[i]
      BY <1>1, <3>2 DEF CreateDraft, TypeOK
    <3> QED BY <2>2, <3>1, <3>2 DEF ImportSteps, Review, MoveLaw
  <2>3. CASE AttachmentSteps
    BY <1>1, <2>3 DEF AttachmentSteps, Attach, Detach, LinkSource, UnlinkSource,
                      AttachmentsOpen, LawOpen, TypeOK
  <2>4. CASE SourceSteps \/ ProcessSteps \/ UNCHANGED vars
    <3>1. UNCHANGED <<attached, linked>>
      BY <2>4 DEF SourceSteps, UpdateSource, EnableSource, DisableSource, DeleteSource,
                  SetLife, ProcessSteps, Stop, Start, Age, vars
    <3> QED BY <3>1
  <2>5. CASE \E t \in Ticks : ClaimAny(t) \/ Work(t)
    BY <1>1, <2>5, WorkerReferences
  <2> QED BY <1>1, <2>2, <2>3, <2>4, <2>5 DEF Next
<1>2. TypeOK /\ CitedSourcesKept /\ [Next]_vars
        => [\A i \in Imports :
              import[i].law \notin {"NONE", "INBOX", "DRAFT"} =>
                linked'[i] = linked[i] /\ attached'[i] = attached[i]]_vars
  BY <1>1
<1> QED BY <1>2, Invariance, PTL DEF Spec, SettledLawKeepsSources
-----------------------------------------------------------------------------
(***************************************************************************)
(* Proofs about SearchIndex for every calendar, every number of overlapping *)
(* runs of the worker's loop and every bound on the changes: that no hit of *)
(* the search leads nowhere, and that what the search misses has a job.     *)
(***************************************************************************)
Row == [status : {"DRAFT", "PUBLISHED", "REPEALED", "FUTURE"}, from : Calendar, to : 0..NoEnd]

RoundState == [phase : {"idle", "claimed", "indexing"}, view : Tables, on : Calendar]

Queue == [ready : Nat, stranded : 0..Cardinality(Rounds), failed : BOOLEAN]

\* A title is a count of the changes, so it stays within their bound.
SearchTypes ==
  /\ day \in Calendar /\ stored \in Tables /\ indexed \subseteq IndexDoc /\ queue \in Queue
  /\ round \in [Rounds -> RoundState] /\ rebuild \in RoundState
  /\ built \in [by : {"worker", "rebuild"}, on : Calendar]
  /\ changes \in 0..MaxChanges /\ stored.law.title <= changes

-----------------------------------------------------------------------------
\* The types of the tables and of the documents derived from them.

LEMMA CalendarNat == /\ Calendar \subseteq Nat /\ NoEnd \in Nat /\ 0 \in Calendar /\ 1 \in Calendar
                     /\ Calendar \subseteq 0..NoEnd /\ NoEnd \in 0..NoEnd
  BY DaysAssumption DEF Calendar, NoEnd

LEMMA RowFields ==
  ASSUME NEW v \in Row
  PROVE  /\ v.status \in {"DRAFT", "PUBLISHED", "REPEALED", "FUTURE"}
         /\ v.from \in Calendar /\ v.from \in Nat /\ v.to \in 0..NoEnd /\ v.to \in Nat
<1>1. v.status \in {"DRAFT", "PUBLISHED", "REPEALED", "FUTURE"} /\ v.from \in Calendar
      /\ v.to \in 0..NoEnd
  BY DEF Row
<1>2. v.from \in Nat
  BY <1>1, CalendarNat
<1>3. v.to \in Nat
  <2>1. NoEnd \in Nat
    BY CalendarNat
  <2> QED BY <1>1, <2>1
<1> QED BY <1>1, <1>2, <1>3

LEMMA TablesFields ==
  ASSUME NEW s \in Tables
  PROVE  /\ s.law.status \in {"APPROVED_FOR_PUBLISHING", "PUBLISHED", "ARCHIVED"}
         /\ s.law.active \in BOOLEAN /\ s.law.title \in 0..MaxChanges
         /\ s.article \in BOOLEAN /\ s.versions \in Seq(Row)
         /\ s.amendment \in [status : {"REVIEWED", "PUBLISHED"}, active : BOOLEAN]
         /\ s.annex \in [status : {"DRAFT", "PUBLISHED", "REPEALED"}, active : BOOLEAN]
         /\ s.relation \in [status : {"UNREVIEWED", "REVIEWED"}, active : BOOLEAN]
         /\ s.target \in BOOLEAN
  BY DEF Tables, Row

LEMMA PreparedType ==
  ASSUME NEW d \in {0, 1} PROVE Prepared(d) \in Tables
<1>1. [status |-> "DRAFT", from |-> d, to |-> NoEnd] \in Row
  BY CalendarNat DEF Row
<1>2. <<[status |-> "DRAFT", from |-> d, to |-> NoEnd]>> \in Seq(Row)
  BY <1>1
<1>3. 0 \in 0..MaxChanges
  BY ChangesAssumption
<1> QED BY <1>2, <1>3 DEF Prepared, Tables, Row

LEMMA IdleType == IdleRun \in RoundState
  BY PreparedType, CalendarNat DEF IdleRun, RoundState

LEMMA PublishedType ==
  ASSUME NEW s \in Tables PROVE Published(s) \in Tables
<1>1. s.versions \in Seq(Row)
  BY TablesFields
<1>2. PublishedVersions(s.versions) \in Seq(Row)
  <2>1. \A i \in DOMAIN s.versions :
          [s.versions[i] EXCEPT !.status = IF @ = "DRAFT" THEN "PUBLISHED" ELSE @] \in Row
    <3>1. TAKE i \in DOMAIN s.versions
    <3>2. s.versions[i] \in Row
      BY <1>1
    <3>3. \A v \in Row :
            [v EXCEPT !.status = IF v.status = "DRAFT" THEN "PUBLISHED" ELSE v.status] \in Row
      BY DEF Row
    <3> QED BY <3>2, <3>3
  <2>2. DOMAIN s.versions = 1..Len(s.versions) /\ Len(s.versions) \in Nat
    BY <1>1
  <2>3. PublishedVersions(s.versions) \in [1..Len(s.versions) -> Row]
    BY <2>1, <2>2 DEF PublishedVersions
  <2> QED BY <2>2, <2>3
<1>3. [s.law EXCEPT !.status = "PUBLISHED"] \in
        [status : {"APPROVED_FOR_PUBLISHING", "PUBLISHED", "ARCHIVED"},
         active : BOOLEAN, title : 0..MaxChanges]
  BY DEF Tables
<1>4. Published(s) = [s EXCEPT !.law = [s.law EXCEPT !.status = "PUBLISHED"],
                               !.versions = PublishedVersions(s.versions)]
  BY DEF Published, Tables
<1> QED BY <1>2, <1>3, <1>4 DEF Tables, Row

LEMMA DependantsType ==
  ASSUME NEW s \in Tables PROVE WithDependants(s) \in Tables
  BY DEF WithDependants, Tables

LEMMA WholeType ==
  ASSUME NEW s \in Tables, NEW k \in Kinds PROVE Whole(k, s) \in IndexDoc
<1>1. s.law.title \in 0..MaxChanges /\ 0 \in 0..MaxChanges
  BY TablesFields, ChangesAssumption
<1> QED BY <1>1, CalendarNat DEF Whole, IndexDoc

LEMMA VersionDocType ==
  ASSUME NEW s \in Tables, NEW i \in DOMAIN s.versions, NEW d PROVE VersionDoc(s, i, d) \in IndexDoc
<1>1. s.versions[i] \in Row /\ i \in Nat
  BY TablesFields
<1>2. s.versions[i].from \in Calendar /\ s.versions[i].to \in 0..NoEnd /\ 0 \in 0..MaxChanges
  BY <1>1, RowFields, ChangesAssumption
<1>3. (s.versions[i].status = "PUBLISHED" /\ InForce(s.versions[i], d)) \in BOOLEAN
  BY DEF InForce
<1> QED BY <1>1, <1>2, <1>3 DEF VersionDoc, IndexDoc, Kinds

LEMMA ReindexType ==
  ASSUME NEW s \in Tables, NEW d
  PROVE  ReindexLegislation(s, d) \subseteq IndexDoc /\ RebuildSearchIndex(s, d) \subseteq IndexDoc
  BY WholeType, VersionDocType DEF ReindexLegislation, RebuildSearchIndex

LEMMA SearchTypesInit == SearchInit => SearchTypes
<1> SUFFICES ASSUME SearchInit PROVE SearchTypes
  OBVIOUS
<1>1. stored \in Tables
  BY PreparedType, PublishedType, DependantsType DEF SearchInit
<1>2. stored.law.title = 0
  <2>1. \A d : Prepared(d).law.title = 0
    BY DEF Prepared
  <2>2. \A s \in Tables : WithDependants(s).law = s.law
    BY DEF WithDependants, Tables
  <2>3. \A s \in Tables : Published(s).law.title = s.law.title
    BY DEF Published, Tables
  <2> QED BY <2>1, <2>2, <2>3, PreparedType, DependantsType DEF SearchInit
<1>3. indexed \subseteq IndexDoc
  BY <1>1, ReindexType DEF SearchInit
<1>4. 0 \in 0..Cardinality(Rounds)
  BY FS_CardinalityType, RoundsAssumption
<1>5. round \in [Rounds -> RoundState] /\ rebuild \in RoundState
  BY IdleType DEF SearchInit
<1> QED BY <1>1, <1>2, <1>3, <1>4, <1>5, CalendarNat, ChangesAssumption
        DEF SearchInit, SearchTypes, Queue

-----------------------------------------------------------------------------
\* Every change leaves the tables well typed.

LEMMA EditLaw ==
  ASSUME NEW s \in Tables
  PROVE  /\ [s EXCEPT !.law.status = "ARCHIVED"] \in Tables
         /\ [s EXCEPT !.law.status = "ARCHIVED"].law.title = s.law.title
         /\ [s EXCEPT !.law.active = ~@] \in Tables
         /\ [s EXCEPT !.law.active = ~@].law.title = s.law.title
         /\ s.law.title + 1 \in 0..MaxChanges =>
              /\ [s EXCEPT !.law.title = @ + 1] \in Tables
              /\ [s EXCEPT !.law.title = @ + 1].law.title = s.law.title + 1
  BY DEF Tables

LEMMA EditDependants ==
  ASSUME NEW s \in Tables
  PROVE  /\ \A x \in {"PUBLISHED", "REPEALED"} : [s EXCEPT !.annex.status = x] \in Tables
         /\ \A x \in {"UNREVIEWED", "REVIEWED"} : [s EXCEPT !.relation.status = x] \in Tables
         /\ [s EXCEPT !.target = ~@] \in Tables /\ [s EXCEPT !.article = ~@] \in Tables
         /\ [s EXCEPT !.amendment.active = ~@] \in Tables
         /\ [s EXCEPT !.annex.active = ~@] \in Tables
         /\ [s EXCEPT !.relation.active = ~@] \in Tables
  BY DEF Tables

LEMMA EditVersions ==
  ASSUME NEW s \in Tables, NEW i \in DOMAIN s.versions, NEW from \in Calendar,
         NEW status \in {"REPEALED", "FUTURE", "PUBLISHED"}
  PROVE  LET new == [status |-> status, from |-> from, to |-> s.versions[i].to]
             split == Append([s.versions EXCEPT ![i].to = from], new)
         IN  /\ split \in Seq(Row) /\ DOMAIN s.versions \subseteq DOMAIN split
             /\ [s EXCEPT !.amendment.status = "PUBLISHED", !.versions = split] \in Tables
<1> DEFINE new == [status |-> status, from |-> from, to |-> s.versions[i].to]
           closed == [s.versions EXCEPT ![i] = [s.versions[i] EXCEPT !.to = from]]
<1>1. s.versions \in Seq(Row) /\ s.versions[i] \in Row
  BY TablesFields
<1>2. new \in Row
  BY <1>1, RowFields DEF Row
<1>3. [s.versions[i] EXCEPT !.to = from] \in Row
  BY <1>1, CalendarNat DEF Row
<1>4. closed \in Seq(Row) /\ DOMAIN closed = DOMAIN s.versions
  BY <1>1, <1>3
<1>5. Append(closed, new) \in Seq(Row) /\ DOMAIN s.versions \subseteq DOMAIN Append(closed, new)
  BY <1>2, <1>4
<1>6. \A h \in Seq(Row) : [s EXCEPT !.amendment.status = "PUBLISHED", !.versions = h] \in Tables
  <2>1. SUFFICES ASSUME NEW h \in Seq(Row)
                 PROVE  [s EXCEPT !.amendment.status = "PUBLISHED", !.versions = h] \in Tables
    OBVIOUS
  <2>2. [s.amendment EXCEPT !.status = "PUBLISHED"] \in
          [status : {"REVIEWED", "PUBLISHED"}, active : BOOLEAN]
    BY TablesFields
  <2> QED BY <2>2 DEF Tables, Row
<1> QED BY <1>5, <1>6

\* What an administrative change does: one change is counted, the index, the worker
\* and the day are left alone, and a job is queued or not.
LEMMA AdministrationTypes ==
  ASSUME SearchTypes, Administration
  PROVE  /\ stored' \in Tables /\ stored'.law.title <= changes' /\ changes' \in 0..MaxChanges
         /\ queue' \in {queue, Enqueued}
         /\ UNCHANGED <<day, indexed, built, round, rebuild>>
<1>1. /\ stored \in Tables /\ changes \in 0..MaxChanges /\ MaxChanges \in Nat
      /\ stored.law.title \in Nat /\ stored.law.title <= changes
  BY ChangesAssumption, TablesFields DEF SearchTypes
<1>2. \A s : Changes(s) =>
        /\ stored' = s /\ changes < MaxChanges /\ changes' = changes + 1
        /\ changes' \in 0..MaxChanges /\ stored.law.title + 1 \in 0..MaxChanges
        /\ UNCHANGED <<day, indexed, built, round, rebuild>>
  BY <1>1 DEF Changes, searchDocuments
<1>3. SUFFICES \E s \in Tables : Changes(s) /\ s.law.title <= stored.law.title + 1
                                          /\ queue' \in {queue, Enqueued}
  <2>1. PICK s \in Tables : Changes(s) /\ s.law.title <= stored.law.title + 1
                                      /\ queue' \in {queue, Enqueued}
    BY <1>3
  <2>2. s.law.title \in Nat
    BY ChangesAssumption, TablesFields
  <2> QED BY <1>1, <1>2, <2>1, <2>2
<1>4. stored.law.title <= stored.law.title + 1 /\ stored.law.title + 1 <= stored.law.title + 1
  BY <1>1
<1>5. CASE PublishLaw
  <2>1. Published(stored).law.title = stored.law.title
    BY <1>1 DEF Published, Tables
  <2> QED BY <1>1, <1>4, <1>5, <2>1, PublishedType DEF PublishLaw
<1>6. CASE ArchiveLaw
  BY <1>1, <1>4, <1>6, EditLaw DEF ArchiveLaw
<1>7. CASE UpdateMetadata
  BY <1>1, <1>2, <1>4, <1>7, EditLaw DEF UpdateMetadata
<1>8. CASE PublishAmendment
  <2>1. PICK from \in Calendar, repeal \in BOOLEAN : PublishAmendmentOn(from, repeal)
    BY <1>8 DEF PublishAmendment
  <2> DEFINE status == IF repeal THEN "REPEALED" ELSE IF from > day THEN "FUTURE" ELSE "PUBLISHED"
             split(i) == Append([stored.versions EXCEPT ![i].to = from],
                           [status |-> status, from |-> from, to |-> stored.versions[i].to])
             s(i) == [stored EXCEPT !.amendment.status = "PUBLISHED", !.versions = split(i)]
  <2>2. PICK i \in DOMAIN stored.versions : Changes(s(i)) /\ queue' = Enqueued
    BY <2>1, <1>1 DEF PublishAmendmentOn, Tables
  <2>3. status \in {"REPEALED", "FUTURE", "PUBLISHED"}
    OBVIOUS
  <2> HIDE DEF status
  <2>4. s(i) \in Tables
    BY <1>1, <2>3, EditVersions
  <2>5. s(i).law = stored.law
    <3> HIDE DEF split
    <3> QED BY <1>1 DEF Tables
  <2> QED BY <1>4, <2>2, <2>4, <2>5
<1>9. CASE UpdateAnnex
  <2>1. \A x : [stored EXCEPT !.annex.status = x].law = stored.law
    BY <1>1 DEF Tables
  <2> QED BY <1>1, <1>4, <1>9, <2>1, EditDependants DEF UpdateAnnex
<1>10. CASE UpdateRelation
  <2>1. \A x : [stored EXCEPT !.relation.status = x].law = stored.law
    BY <1>1 DEF Tables
  <2> QED BY <1>1, <1>4, <1>10, <2>1, EditDependants DEF UpdateRelation
<1>11. CASE ChangeTarget
  <2>1. [stored EXCEPT !.target = ~@].law = stored.law
    BY <1>1 DEF Tables
  <2> QED BY <1>1, <1>4, <1>11, <2>1, EditDependants DEF ChangeTarget
<1>12. CASE ChangeAvailability
  <2>1. \A s \in Availability : s \in Tables /\ s.law.title = stored.law.title
    <3>1. /\ [stored EXCEPT !.article = ~@].law = stored.law
          /\ [stored EXCEPT !.amendment.active = ~@].law = stored.law
          /\ [stored EXCEPT !.annex.active = ~@].law = stored.law
          /\ [stored EXCEPT !.relation.active = ~@].law = stored.law
      BY <1>1 DEF Tables
    <3>2. SUFFICES ASSUME NEW s \in Availability
                   PROVE  s \in Tables /\ s.law.title = stored.law.title
      OBVIOUS
    <3>3. \/ s = [stored EXCEPT !.law.active = ~@]
          \/ s = [stored EXCEPT !.article = ~@]
          \/ s = [stored EXCEPT !.amendment.active = ~@]
          \/ s = [stored EXCEPT !.annex.active = ~@]
          \/ s = [stored EXCEPT !.relation.active = ~@]
      BY Zenon DEF Availability
    <3>4. CASE s = [stored EXCEPT !.law.active = ~@]
      BY <1>1, <3>4, EditLaw
    <3>5. CASE s # [stored EXCEPT !.law.active = ~@]
      <4>1. s.law = stored.law
        BY <3>1, <3>3, <3>5
      <4>2. s \in Tables
        BY <1>1, <3>3, <3>5, EditDependants
      <4> QED BY <4>1, <4>2
    <3> QED BY <3>4, <3>5
  <2> QED BY <1>4, <1>12, <2>1 DEF ChangeAvailability
<1> QED BY <1>5, <1>6, <1>7, <1>8, <1>9, <1>10, <1>11, <1>12 DEF Administration

LEMMA EnqueuedType ==
  ASSUME queue \in Queue
  PROVE  /\ Enqueued \in Queue /\ Enqueued.ready > 0
         /\ Enqueued.stranded = queue.stranded /\ Enqueued.failed = queue.failed
  BY DEF Queue, Enqueued

LEMMA TypesImplied == SearchTypes => SearchTypeOK
<1>1. round \in [Rounds -> RoundState] /\ rebuild \in RoundState =>
        \A r \in {round[t] : t \in Rounds} \cup {rebuild} :
          /\ r.phase \in {"idle", "claimed", "indexing"}
          /\ r.view \in Tables /\ r.on \in Calendar
  BY DEF RoundState
<1> QED BY <1>1 DEF SearchTypes, SearchTypeOK, Queue

LEMMA SearchTypesStep == SearchTypes /\ [SearchNext]_searchVars => SearchTypes'
<1> SUFFICES ASSUME SearchTypes, [SearchNext]_searchVars PROVE SearchTypes'
  OBVIOUS
<1>1. /\ day \in Calendar /\ stored \in Tables /\ indexed \subseteq IndexDoc /\ queue \in Queue
      /\ round \in [Rounds -> RoundState] /\ rebuild \in RoundState
      /\ built \in [by : {"worker", "rebuild"}, on : Calendar]
      /\ changes \in 0..MaxChanges /\ stored.law.title <= changes
  BY DEF SearchTypes
<1>2. SUFFICES
        /\ day' \in Calendar /\ stored' \in Tables /\ indexed' \subseteq IndexDoc
        /\ queue' \in Queue /\ round' \in [Rounds -> RoundState] /\ rebuild' \in RoundState
        /\ built' \in [by : {"worker", "rebuild"}, on : Calendar]
        /\ changes' \in 0..MaxChanges /\ stored'.law.title <= changes'
  BY DEF SearchTypes
<1>3. IdleRun \in RoundState
  BY IdleType
<1>4. [phase |-> "indexing", view |-> stored, on |-> day] \in RoundState
  BY <1>1 DEF RoundState
<1>5. changes < MaxChanges /\ changes' = changes + 1 =>
        changes' \in 0..MaxChanges /\ stored.law.title <= changes'
  BY <1>1, ChangesAssumption, TablesFields
<1>6. CASE NextDay
  <2>1. day' \in Calendar
    BY <1>1, <1>6, DaysAssumption DEF NextDay, Calendar
  <2> QED BY <1>1, <1>6, <2>1 DEF NextDay, searchDocuments, work
<1>7. CASE Administration
  BY <1>1, <1>7, AdministrationTypes, EnqueuedType
<1>8. ASSUME NEW t \in Rounds, ClaimJob(t) \/ BeginReindex(t) \/ CommitReindex(t) \/ FailReindex(t)
      PROVE  /\ UNCHANGED <<day, stored, changes, rebuild>> /\ indexed' \subseteq IndexDoc
             /\ queue' \in Queue /\ round' \in [Rounds -> RoundState]
             /\ built' \in [by : {"worker", "rebuild"}, on : Calendar]
  <2>1. round[t] \in RoundState
    BY <1>1
  <2>2. CASE ClaimJob(t)
    <3>1. [queue EXCEPT !.ready = @ - 1] \in Queue
      BY <1>1, <2>2 DEF ClaimJob, Queue
    <3>2. [round[t] EXCEPT !.phase = "claimed"] \in RoundState
      BY <2>1 DEF RoundState
    <3> QED BY <1>1, <2>2, <3>1, <3>2 DEF ClaimJob, searchDocuments
  <2>3. CASE BeginReindex(t)
    BY <1>1, <1>4, <2>3 DEF BeginReindex, searchDocuments
  <2>4. CASE CommitReindex(t)
    <3>1. /\ ReindexLegislation(round[t].view, round[t].on) \subseteq IndexDoc
          /\ round[t].on \in Calendar
      BY <2>1, ReindexType DEF RoundState
    <3> QED BY <1>1, <1>3, <2>4, <3>1 DEF CommitReindex
  <2>5. CASE FailReindex(t)
    <3>1. [queue EXCEPT !.failed = TRUE] \in Queue
      BY <1>1 DEF Queue
    <3> QED BY <1>1, <1>3, <2>5, <3>1 DEF FailReindex, searchDocuments
  <2> QED BY <1>8, <2>2, <2>3, <2>4, <2>5
<1>9. CASE CrashWorker
  <2> DEFINE busy == {t \in Rounds : round[t].phase # "idle"}
  <2>1. Cardinality(busy) \in 0..Cardinality(Rounds)
    <3>1. IsFiniteSet(busy) /\ Cardinality(busy) <= Cardinality(Rounds)
      BY FS_Subset, RoundsAssumption
    <3>2. Cardinality(busy) \in Nat /\ Cardinality(Rounds) \in Nat
      BY <3>1, FS_CardinalityType, RoundsAssumption
    <3> QED BY <3>1, <3>2
  <2>2. [queue EXCEPT !.stranded = Cardinality(busy)] \in Queue
    <3> HIDE DEF busy
    <3> QED BY <1>1, <2>1 DEF Queue
  <2> QED BY <1>1, <1>3, <1>5, <1>9, <2>2 DEF CrashWorker, searchDocuments
<1>10. CASE ReclaimJobs
  <2>1. PICK n \in 1..queue.stranded :
          /\ queue' = [queue EXCEPT !.ready = @ + n, !.stranded = @ - n]
          /\ UNCHANGED <<day, stored, searchDocuments, round, rebuild, changes>>
    BY <1>10 DEF ReclaimJobs
  <2>2. queue' \in Queue
    <3>1. Cardinality(Rounds) \in Nat
      BY FS_CardinalityType, RoundsAssumption
    <3>2. queue.ready + n \in Nat /\ queue.stranded - n \in 0..Cardinality(Rounds)
      BY <1>1, <3>1 DEF Queue
    <3> QED BY <1>1, <2>1, <3>2 DEF Queue
  <2> QED BY <1>1, <2>1, <2>2 DEF searchDocuments
<1>11. CASE BeginRebuild
  BY <1>1, <1>4, <1>5, <1>11 DEF BeginRebuild, searchDocuments
<1>12. CASE CommitRebuild
  <2>1. RebuildSearchIndex(rebuild.view, rebuild.on) \subseteq IndexDoc /\ rebuild.on \in Calendar
    BY <1>1, ReindexType DEF RoundState
  <2> QED BY <1>1, <1>3, <1>12, <2>1 DEF CommitRebuild
<1>13. CASE AbortRebuild
  BY <1>1, <1>3, <1>13 DEF AbortRebuild, searchDocuments
<1>14. CASE UNCHANGED searchVars
  BY <1>1, <1>14 DEF searchVars
<1> QED BY <1>1, <1>6, <1>7, <1>8, <1>9, <1>10, <1>11, <1>12, <1>13, <1>14 DEF SearchNext

-----------------------------------------------------------------------------
(***************************************************************************)
(* What is invariant beyond the types.  Versions are only ever added, so a *)
(* document that was written of one, or will be from a snapshot in flight, *)
(* has it still.  Writers exclude each other.  And unless a job failed, a  *)
(* snapshot in flight or the index itself may be behind the tables only    *)
(* while a job waits that has yet to take its own snapshot.                *)
(***************************************************************************)
InFlight(r) == r.phase = "indexing"

Grown ==
  /\ \A doc \in indexed : doc.kind = "ARTICLE_VERSION" => doc.no \in DOMAIN stored.versions
  /\ \A t \in Rounds : InFlight(round[t]) =>
       DOMAIN round[t].view.versions \subseteq DOMAIN stored.versions
  /\ InFlight(rebuild) => DOMAIN rebuild.view.versions \subseteq DOMAIN stored.versions

OneWriter ==
  /\ \A t, u \in Rounds : InFlight(round[t]) /\ InFlight(round[u]) => t = u
  /\ InFlight(rebuild) => \A t \in Rounds : ~InFlight(round[t])

\* The tables v say of a public law what s says, as far as its jobs are concerned.
Agrees(v, s) ==
  PublicLaw(s) => /\ v.law = s.law /\ v.article = s.article
                  /\ v.versions = s.versions /\ v.amendment = s.amendment

\* The documents ix, written as b says, are those of the public law in s.
Faithful(ix, b, s) ==
  PublicLaw(s) =>
    /\ \E doc \in ix : doc.kind = "LEGISLATION" /\ doc.title = s.law.title /\ doc.current
    /\ s.amendment.active /\ s.amendment.status = "PUBLISHED" =>
         \E doc \in ix : doc.kind = "AMENDMENT" /\ doc.current
    /\ \A doc \in ix : doc.kind = "ARTICLE_VERSION" =>
         doc.from = s.versions[doc.no].from /\ doc.to = s.versions[doc.no].to
    /\ \A i \in DOMAIN s.versions :
         s.article /\ Readable(s.versions[i]) =>
           \/ b.by = "rebuild" /\ s.versions[i].from > b.on
           \/ \E doc \in ix : doc.kind = "ARTICLE_VERSION" /\ doc.no = i

\* A job that has yet to read the tables.
Waiting == queue.ready > 0 \/ queue.stranded > 0 \/ \E t \in Rounds : round[t].phase = "claimed"

UpToDate ==
  ~queue.failed =>
    /\ \A t \in Rounds : InFlight(round[t]) => Waiting \/ Agrees(round[t].view, stored)
    /\ InFlight(rebuild) => Waiting \/ Agrees(rebuild.view, stored)
    /\ \/ Waiting
       \/ \E t \in Rounds : InFlight(round[t])
       \/ Faithful(indexed, built, stored)

SearchInv == SearchTypes /\ Grown /\ OneWriter /\ UpToDate

\* What an administrative change means for the index: versions are only added, and
\* unless it queues a job, what the jobs derive from a public law is left as it was.
LEMMA AdministrationServes ==
  ASSUME SearchTypes, Administration
  PROVE  /\ DOMAIN stored.versions \subseteq DOMAIN stored'.versions
         /\ queue' = Enqueued \/ (queue' = queue /\ Agrees(stored, stored'))
<1>1. stored \in Tables
  BY DEF SearchTypes
<1>2. SUFFICES
        \/ /\ queue' = Enqueued
           /\ DOMAIN stored.versions \subseteq DOMAIN stored'.versions
        \/ /\ queue' = queue
           /\ ~PublicLaw(stored') \/ stored'.law = stored.law
           /\ stored'.article = stored.article /\ stored'.versions = stored.versions
           /\ stored'.amendment = stored.amendment
  BY <1>2 DEF Agrees
<1>3. CASE PublishLaw
  <2>1. Published(stored).versions = PublishedVersions(stored.versions)
    BY <1>1 DEF Published, Tables
  <2> QED BY <1>3, <2>1 DEF PublishLaw, Changes, PublishedVersions
<1>4. CASE ArchiveLaw
  <2>1. stored' = [stored EXCEPT !.law.status = "ARCHIVED"] /\ queue' = queue
    BY <1>4 DEF ArchiveLaw, Changes
  <2>2. /\ stored'.law.status = "ARCHIVED" /\ stored'.article = stored.article
        /\ stored'.versions = stored.versions /\ stored'.amendment = stored.amendment
    BY <1>1, <2>1 DEF Tables
  <2> QED BY <2>1, <2>2 DEF PublicLaw
<1>5. CASE UpdateMetadata
  <2>1. stored' = [stored EXCEPT !.law.title = @ + 1] /\ queue' = Enqueued
    BY <1>5 DEF UpdateMetadata, Changes
  <2>2. stored'.versions = stored.versions
    BY <1>1, <2>1 DEF Tables
  <2> QED BY <2>1, <2>2
<1>6. CASE PublishAmendment
  <2>1. PICK from \in Calendar, repeal \in BOOLEAN : PublishAmendmentOn(from, repeal)
    BY <1>6 DEF PublishAmendment
  <2> DEFINE status == IF repeal THEN "REPEALED" ELSE IF from > day THEN "FUTURE" ELSE "PUBLISHED"
             split(i) == Append([stored.versions EXCEPT ![i].to = from],
                           [status |-> status, from |-> from, to |-> stored.versions[i].to])
  <2>2. PICK i \in DOMAIN stored.versions :
          /\ stored' = [stored EXCEPT !.amendment.status = "PUBLISHED", !.versions = split(i)]
          /\ queue' = Enqueued
    BY <2>1, <1>1 DEF PublishAmendmentOn, Changes, Tables
  <2>3. status \in {"REPEALED", "FUTURE", "PUBLISHED"}
    OBVIOUS
  <2> HIDE DEF status
  <2>4. DOMAIN stored.versions \subseteq DOMAIN split(i)
    BY <1>1, <2>3, EditVersions
  <2>5. stored'.versions = split(i)
    <3> HIDE DEF split
    <3> QED BY <1>1, <2>2 DEF Tables
  <2> QED BY <2>2, <2>4, <2>5
<1>7. CASE UpdateAnnex \/ UpdateRelation \/ ChangeTarget
  <2>1. /\ queue' = queue
        /\ \/ \E x : stored' = [stored EXCEPT !.annex.status = x]
           \/ \E x : stored' = [stored EXCEPT !.relation.status = x]
           \/ stored' = [stored EXCEPT !.target = ~@]
    BY <1>7 DEF UpdateAnnex, UpdateRelation, ChangeTarget, Changes
  <2>2. /\ stored'.law = stored.law /\ stored'.article = stored.article
        /\ stored'.versions = stored.versions /\ stored'.amendment = stored.amendment
    BY <1>1, <2>1 DEF Tables
  <2> QED BY <2>1, <2>2
<1>8. CASE ChangeAvailability
  <2>1. stored' \in Availability /\ queue' = Enqueued
    BY <1>8 DEF ChangeAvailability, Changes
  <2>2. \/ stored' = [stored EXCEPT !.law.active = ~@]
        \/ stored' = [stored EXCEPT !.article = ~@]
        \/ stored' = [stored EXCEPT !.amendment.active = ~@]
        \/ stored' = [stored EXCEPT !.annex.active = ~@]
        \/ stored' = [stored EXCEPT !.relation.active = ~@]
    BY <2>1, Zenon DEF Availability
  <2>3. stored'.versions = stored.versions
    BY <1>1, <2>2 DEF Tables
  <2> QED BY <2>1, <2>3
<1> QED BY <1>3, <1>4, <1>5, <1>6, <1>7, <1>8 DEF Administration

\* Documents of versions are of versions the tables have.
LEMMA ReindexKnown ==
  ASSUME NEW s, NEW d, NEW doc \in ReindexLegislation(s, d) \cup RebuildSearchIndex(s, d),
         doc.kind = "ARTICLE_VERSION"
  PROVE  doc.no \in DOMAIN s.versions
<1>1. \A k : Whole(k, s).kind = k /\ Whole(k, s).no = 0
  BY DEF Whole
<1>2. \A i : VersionDoc(s, i, d).no = i
  BY DEF VersionDoc
<1>3. \/ \E k \in Kinds \ {"ARTICLE_VERSION"} : doc = Whole(k, s)
      \/ \E i \in DOMAIN s.versions : doc = VersionDoc(s, i, d)
  BY DEF ReindexLegislation, RebuildSearchIndex
<1> QED BY <1>1, <1>2, <1>3

\* Steps of one run of the loop: what the other runs are doing is left alone.
LEMMA RoundWrite ==
  ASSUME SearchTypes, NEW t \in Rounds, NEW r, round' = [round EXCEPT ![t] = r]
  PROVE  round'[t] = r /\ \A u \in Rounds \ {t} : round'[u] = round[u]
  BY DEF SearchTypes

LEMMA IdleNotInFlight == ~InFlight(IdleRun) /\ IdleRun.phase # "claimed"
  BY DEF InFlight, IdleRun

\* What a run of the loop does: claim, begin, commit or give up.
LEMMA RoundSteps ==
  ASSUME SearchTypes, NEW t \in Rounds,
         ClaimJob(t) \/ BeginReindex(t) \/ CommitReindex(t) \/ FailReindex(t)
  PROVE  /\ UNCHANGED <<stored, rebuild>> /\ \A u \in Rounds \ {t} : round'[u] = round[u]
         /\ \/ /\ ~InFlight(round'[t]) /\ round'[t].phase = "claimed"
               /\ ~InFlight(round[t]) /\ round[t].phase # "claimed"
               /\ UNCHANGED <<indexed, built>> /\ queue'.failed = queue.failed
            \/ /\ ~Writing /\ InFlight(round'[t]) /\ round'[t].view = stored
               /\ round[t].phase = "claimed" /\ UNCHANGED <<indexed, built, queue>>
            \/ /\ InFlight(round[t]) /\ round'[t] = IdleRun /\ UNCHANGED queue
               /\ indexed' = ReindexLegislation(round[t].view, round[t].on)
               /\ built' = [by |-> "worker", on |-> round[t].on]
            \/ round'[t] = IdleRun /\ queue'.failed /\ UNCHANGED <<indexed, built>>
<1>1. round[t] \in RoundState /\ queue \in Queue
  BY DEF SearchTypes
<1>2. CASE ClaimJob(t)
  <2>1. [round[t] EXCEPT !.phase = "claimed"].phase = "claimed"
    BY <1>1 DEF RoundState
  <2>2. round' = [round EXCEPT ![t] = [round[t] EXCEPT !.phase = "claimed"]]
    BY <1>2 DEF ClaimJob
  <2>3. round'[t].phase = "claimed" /\ \A u \in Rounds \ {t} : round'[u] = round[u]
    BY <2>1, <2>2, RoundWrite
  <2>4. queue'.failed = queue.failed
    BY <1>1, <1>2 DEF ClaimJob, Queue
  <2> QED BY <1>2, <2>3, <2>4 DEF ClaimJob, InFlight, searchDocuments
<1>3. CASE BeginReindex(t)
  <2>1. round' = [round EXCEPT ![t] = [phase |-> "indexing", view |-> stored, on |-> day]]
    BY <1>3 DEF BeginReindex
  <2>2. /\ round'[t] = [phase |-> "indexing", view |-> stored, on |-> day]
        /\ \A u \in Rounds \ {t} : round'[u] = round[u]
    BY <2>1, RoundWrite
  <2> QED BY <1>3, <2>2 DEF BeginReindex, InFlight, searchDocuments
<1>4. CASE CommitReindex(t)
  BY <1>4, RoundWrite DEF CommitReindex, InFlight
<1>5. CASE FailReindex(t)
  <2>1. queue'.failed
    BY <1>1, <1>5 DEF FailReindex, Queue
  <2> QED BY <1>5, <2>1, RoundWrite DEF FailReindex, searchDocuments
<1> QED BY <1>2, <1>3, <1>4, <1>5

\* Steps of the rebuild.
LEMMA RebuildSteps ==
  ASSUME BeginRebuild \/ CommitRebuild \/ AbortRebuild
  PROVE  /\ UNCHANGED <<stored, round, queue>>
         /\ \/ /\ ~Writing /\ InFlight(rebuild') /\ rebuild'.view = stored
               /\ UNCHANGED <<indexed, built>>
            \/ /\ InFlight(rebuild) /\ rebuild' = IdleRun
               /\ indexed' = RebuildSearchIndex(rebuild.view, rebuild.on)
               /\ built' = [by |-> "rebuild", on |-> rebuild.on]
            \/ InFlight(rebuild) /\ rebuild' = IdleRun /\ UNCHANGED <<indexed, built>>
  BY DEF BeginRebuild, CommitRebuild, AbortRebuild, InFlight, searchDocuments

\* A step is the administration's, of the loop, of the rebuild, the end or the start of
\* the process, or one that touches nothing the index depends on.
LEMMA StepKinds ==
  ASSUME [SearchNext]_searchVars
  PROVE  \/ Administration
         \/ \E t \in Rounds : ClaimJob(t) \/ BeginReindex(t) \/ CommitReindex(t) \/ FailReindex(t)
         \/ BeginRebuild \/ CommitRebuild \/ AbortRebuild
         \/ CrashWorker \/ ReclaimJobs
         \/ UNCHANGED <<stored, indexed, built, queue, round, rebuild>>
  BY DEF SearchNext, NextDay, searchVars, searchDocuments, work

LEMMA CrashSteps ==
  ASSUME SearchTypes, CrashWorker \/ ReclaimJobs
  PROVE  /\ UNCHANGED <<stored, indexed, built, rebuild>>
         /\ queue'.failed = queue.failed /\ (queue'.ready > 0 \/ queue'.stranded > 0)
         /\ round' = round \/ \A t \in Rounds : round'[t] = IdleRun
<1>1. queue \in Queue /\ Cardinality(Rounds) \in Nat
  BY FS_CardinalityType, RoundsAssumption DEF SearchTypes
<1>2. CASE CrashWorker
  <2> DEFINE busy == {t \in Rounds : round[t].phase # "idle"}
  <2>1. queue' = [queue EXCEPT !.stranded = Cardinality(busy)] /\ busy # {}
    BY <1>2 DEF CrashWorker
  <2>2. IsFiniteSet(busy)
    BY FS_Subset, RoundsAssumption
  <2>3. Cardinality(busy) > 0
    BY <2>1, <2>2, FS_EmptySet, FS_CardinalityType
  <2> HIDE DEF busy
  <2>4. queue'.stranded > 0 /\ queue'.failed = queue.failed
    BY <1>1, <2>1, <2>3 DEF Queue
  <2> QED BY <1>2, <2>4 DEF CrashWorker, searchDocuments
<1>3. CASE ReclaimJobs
  <2>1. PICK n \in 1..queue.stranded :
          /\ queue' = [queue EXCEPT !.ready = @ + n, !.stranded = @ - n]
          /\ UNCHANGED <<day, stored, searchDocuments, round, rebuild, changes>>
    BY <1>3 DEF ReclaimJobs
  <2>2. queue'.ready = queue.ready + n /\ queue'.failed = queue.failed
    BY <1>1, <2>1 DEF Queue
  <2>3. queue'.ready > 0
    BY <1>1, <2>2 DEF Queue
  <2> QED BY <2>1, <2>2, <2>3 DEF searchDocuments
<1> QED BY <1>2, <1>3

-----------------------------------------------------------------------------
\* Every step keeps the invariant.

LEMMA GrownStep ==
  ASSUME SearchTypes, Grown, [SearchNext]_searchVars
  PROVE  Grown'
<1>1. CASE Administration
  <2>1. /\ DOMAIN stored.versions \subseteq DOMAIN stored'.versions
        /\ UNCHANGED <<indexed, round, rebuild>>
    BY <1>1, AdministrationServes, AdministrationTypes
  <2> QED BY <2>1 DEF Grown
<1>2. ASSUME NEW t \in Rounds,
             ClaimJob(t) \/ BeginReindex(t) \/ CommitReindex(t) \/ FailReindex(t)
      PROVE  Grown'
  <2>1. UNCHANGED <<stored, rebuild>> /\ \A u \in Rounds \ {t} : round'[u] = round[u]
    BY <1>2, RoundSteps
  <2>2. InFlight(round'[t]) => round'[t].view = stored
    BY <1>2, RoundSteps, IdleNotInFlight
  <2>3. \A doc \in indexed' : doc.kind = "ARTICLE_VERSION" => doc.no \in DOMAIN stored.versions
    <3>1. CASE indexed' = indexed
      BY <3>1 DEF Grown
    <3>2. CASE InFlight(round[t]) /\ indexed' = ReindexLegislation(round[t].view, round[t].on)
      BY <3>2, ReindexKnown DEF Grown
    <3> QED BY <1>2, <3>1, <3>2, RoundSteps
  <2> QED BY <2>1, <2>2, <2>3 DEF Grown
<1>3. CASE BeginRebuild \/ CommitRebuild \/ AbortRebuild
  <2>1. UNCHANGED <<stored, round>>
    BY <1>3, RebuildSteps
  <2>2. InFlight(rebuild') => rebuild'.view = stored
    BY <1>3, RebuildSteps, IdleNotInFlight
  <2>3. \A doc \in indexed' : doc.kind = "ARTICLE_VERSION" => doc.no \in DOMAIN stored.versions
    <3>1. CASE indexed' = indexed
      BY <3>1 DEF Grown
    <3>2. CASE InFlight(rebuild) /\ indexed' = RebuildSearchIndex(rebuild.view, rebuild.on)
      BY <3>2, ReindexKnown DEF Grown
    <3> QED BY <1>3, <3>1, <3>2, RebuildSteps
  <2> QED BY <2>1, <2>2, <2>3 DEF Grown
<1>4. CASE CrashWorker \/ ReclaimJobs
  <2>1. /\ UNCHANGED <<stored, indexed, rebuild>>
        /\ round' = round \/ \A t \in Rounds : round'[t] = IdleRun
    BY <1>4, CrashSteps
  <2> QED BY <2>1, IdleNotInFlight DEF Grown
<1>5. CASE UNCHANGED <<stored, indexed, built, queue, round, rebuild>>
  BY <1>5 DEF Grown
<1> QED BY <1>1, <1>2, <1>3, <1>4, <1>5, StepKinds

LEMMA OneWriterStep ==
  ASSUME SearchTypes, OneWriter, [SearchNext]_searchVars
  PROVE  OneWriter'
<1>1. CASE Administration
  BY <1>1, AdministrationTypes DEF OneWriter
<1>2. ASSUME NEW t \in Rounds,
             ClaimJob(t) \/ BeginReindex(t) \/ CommitReindex(t) \/ FailReindex(t)
      PROVE  OneWriter'
  <2>1. UNCHANGED rebuild /\ \A u \in Rounds \ {t} : round'[u] = round[u]
    BY <1>2, RoundSteps
  <2>2. CASE ~InFlight(round'[t])
    BY <2>1, <2>2 DEF OneWriter
  <2>3. CASE ~Writing
    BY <2>1, <2>3 DEF OneWriter, Writing, InFlight
  <2> QED BY <1>2, <2>2, <2>3, RoundSteps, IdleNotInFlight
<1>3. CASE BeginRebuild \/ CommitRebuild \/ AbortRebuild
  <2>1. UNCHANGED round /\ (~Writing \/ ~InFlight(rebuild'))
    BY <1>3, RebuildSteps, IdleNotInFlight
  <2> QED BY <2>1 DEF OneWriter, Writing, InFlight
<1>4. CASE CrashWorker \/ ReclaimJobs
  BY <1>4, CrashSteps, IdleNotInFlight DEF OneWriter
<1>5. CASE UNCHANGED <<stored, indexed, built, queue, round, rebuild>>
  BY <1>5 DEF OneWriter
<1> QED BY <1>1, <1>2, <1>3, <1>4, <1>5, StepKinds

\* What the worker derives from tables that agree with those of today is faithful.
LEMMA ReindexFaithful ==
  ASSUME NEW v, NEW s, NEW d, Agrees(v, s)
  PROVE  Faithful(ReindexLegislation(v, d), [by |-> "worker", on |-> d], s)
<1>1. SUFFICES ASSUME PublicLaw(s)
               PROVE  Faithful(ReindexLegislation(v, d), [by |-> "worker", on |-> d], s)
  BY DEF Faithful
<1> DEFINE ix == ReindexLegislation(v, d)
<1>2. /\ v.law = s.law /\ v.article = s.article /\ v.versions = s.versions
      /\ v.amendment = s.amendment /\ v.law.status = "PUBLISHED"
  BY <1>1 DEF Agrees, PublicLaw
<1>3. /\ \A doc \in ix : doc.kind = "ARTICLE_VERSION" =>
            \E i \in DOMAIN s.versions : doc = VersionDoc(v, i, d)
      /\ \A i \in DOMAIN s.versions : VersionDoc(v, i, d) \in ix
      /\ Whole("LEGISLATION", v) \in ix
      /\ s.amendment.status = "PUBLISHED" => Whole("AMENDMENT", v) \in ix
  <2> DEFINE kinds == {k \in Kinds :
                         \/ k = "LEGISLATION"
                         \/ k = "AMENDMENT" /\ v.amendment.status = "PUBLISHED"
                         \/ k = "ANNEX_PAGE" /\ v.annex.status = "PUBLISHED"
                         \/ k = "RELATION" /\ v.relation.status = "REVIEWED"}
  <2>1. ix = {Whole(k, v) : k \in kinds} \cup {VersionDoc(v, i, d) : i \in DOMAIN s.versions}
    BY <1>2, Zenon DEF ReindexLegislation
  <2>2. /\ "LEGISLATION" \in kinds /\ "ARTICLE_VERSION" \notin kinds
        /\ s.amendment.status = "PUBLISHED" => "AMENDMENT" \in kinds
    BY <1>2 DEF Kinds
  <2>3. \A k : Whole(k, v).kind = k
    BY DEF Whole
  <2> HIDE DEF kinds, ix
  <2> QED BY <2>1, <2>2, <2>3
<1>4. /\ \A k : Whole(k, v).kind = k /\ Whole(k, v).current
      /\ Whole("LEGISLATION", v).title = s.law.title
  BY <1>2 DEF Whole
<1>5. \A i : /\ VersionDoc(v, i, d).kind = "ARTICLE_VERSION" /\ VersionDoc(v, i, d).no = i
             /\ VersionDoc(v, i, d).from = s.versions[i].from
             /\ VersionDoc(v, i, d).to = s.versions[i].to
  BY <1>2 DEF VersionDoc
<1> HIDE DEF ix
<1> QED BY <1>3, <1>4, <1>5 DEF Faithful, ix

\* So is what the rebuild derives from them, but for the versions to come.
LEMMA RebuildFaithful ==
  ASSUME NEW v \in Tables, NEW s, NEW d \in Calendar, Agrees(v, s)
  PROVE  Faithful(RebuildSearchIndex(v, d), [by |-> "rebuild", on |-> d], s)
<1>1. SUFFICES ASSUME PublicLaw(s)
               PROVE  Faithful(RebuildSearchIndex(v, d), [by |-> "rebuild", on |-> d], s)
  BY DEF Faithful
<1> DEFINE ix == RebuildSearchIndex(v, d)
<1>2. /\ v.law = s.law /\ v.article = s.article /\ v.versions = s.versions
      /\ v.amendment = s.amendment /\ PublicLaw(v)
  BY <1>1 DEF Agrees, PublicLaw
<1>3. /\ \A doc \in ix : doc.kind = "ARTICLE_VERSION" =>
            \E i \in DOMAIN s.versions : doc = VersionDoc(v, i, d)
      /\ \A i \in DOMAIN s.versions :
           s.article /\ Readable(s.versions[i]) /\ s.versions[i].from <= d =>
             VersionDoc(v, i, d) \in ix
      /\ Whole("LEGISLATION", v) \in ix
      /\ s.amendment.active /\ s.amendment.status = "PUBLISHED" => Whole("AMENDMENT", v) \in ix
  <2> DEFINE kinds == {k \in Kinds :
                \/ k = "LEGISLATION"
                \/ k = "AMENDMENT" /\ v.amendment.active /\ v.amendment.status = "PUBLISHED"
                \/ k = "ANNEX_PAGE" /\ v.annex.active /\ v.annex.status = "PUBLISHED"
                \/ /\ k = "RELATION" /\ v.relation.active
                   /\ v.relation.status = "REVIEWED" /\ v.target}
             begun == {i \in DOMAIN v.versions :
                /\ v.article
                /\ v.versions[i].status \in {"PUBLISHED", "REPEALED"}
                /\ v.versions[i].from <= d}
  <2>1. ix = {Whole(k, v) : k \in kinds} \cup {VersionDoc(v, i, d) : i \in begun}
    BY <1>2, Zenon DEF RebuildSearchIndex
  <2>2. /\ "LEGISLATION" \in kinds /\ "ARTICLE_VERSION" \notin kinds
        /\ s.amendment.active /\ s.amendment.status = "PUBLISHED" => "AMENDMENT" \in kinds
    BY <1>2 DEF Kinds
  <2>3. \A k : Whole(k, v).kind = k
    BY DEF Whole
  <2>4. /\ begun \subseteq DOMAIN s.versions
        /\ \A i \in DOMAIN s.versions :
             s.article /\ Readable(s.versions[i]) /\ s.versions[i].from <= d => i \in begun
    BY <1>2 DEF Readable
  <2> HIDE DEF kinds, begun, ix
  <2> QED BY <2>1, <2>2, <2>3, <2>4
<1>4. /\ \A k : Whole(k, v).kind = k /\ Whole(k, v).current
      /\ Whole("LEGISLATION", v).title = s.law.title
  BY <1>2 DEF Whole
<1>5. \A i : /\ VersionDoc(v, i, d).kind = "ARTICLE_VERSION" /\ VersionDoc(v, i, d).no = i
             /\ VersionDoc(v, i, d).from = s.versions[i].from
             /\ VersionDoc(v, i, d).to = s.versions[i].to
  BY <1>2 DEF VersionDoc
<1>6. \A i \in DOMAIN s.versions : s.versions[i].from <= d \/ s.versions[i].from > d
  <2>1. d \in Nat /\ s.versions \in Seq(Row)
    BY <1>2, CalendarNat, TablesFields
  <2> QED BY <2>1, RowFields
<1> HIDE DEF ix
<1> QED BY <1>3, <1>4, <1>5, <1>6 DEF Faithful, ix

LEMMA AgreesFollows ==
  ASSUME NEW r, NEW s, Agrees(r, s)
  PROVE  /\ \A v : Agrees(v, r) => Agrees(v, s)
         /\ \A ix, b : Faithful(ix, b, r) => Faithful(ix, b, s)
  BY DEF Agrees, Faithful, PublicLaw

LEMMA AgreesSelf == \A s : Agrees(s, s)
  BY DEF Agrees

LEMMA UpToDateStep ==
  ASSUME SearchTypes, OneWriter, UpToDate, [SearchNext]_searchVars
  PROVE  UpToDate'
<1>1. queue \in Queue /\ round \in [Rounds -> RoundState] /\ rebuild \in RoundState
  BY DEF SearchTypes
<1>2. CASE Administration
  <2>1. UNCHANGED <<indexed, built, round, rebuild>>
    BY <1>2, AdministrationTypes
  <2>2. CASE queue' = Enqueued
    <3>1. Waiting'
      BY <1>1, <2>2, EnqueuedType DEF Waiting
    <3> QED BY <3>1 DEF UpToDate
  <2>3. CASE queue' = queue /\ Agrees(stored, stored')
    <3>1. Waiting' = Waiting
      BY <2>1, <2>3 DEF Waiting
    <3>2. /\ \A v : Agrees(v, stored) => Agrees(v, stored')
          /\ \A ix, b : Faithful(ix, b, stored) => Faithful(ix, b, stored')
      BY <2>3, AgreesFollows
    <3> QED BY <2>1, <2>3, <3>1, <3>2 DEF UpToDate
  <2> QED BY <1>2, <2>2, <2>3, AdministrationServes
<1>3. ASSUME NEW t \in Rounds,
             ClaimJob(t) \/ BeginReindex(t) \/ CommitReindex(t) \/ FailReindex(t)
      PROVE  UpToDate'
  <2>1. UNCHANGED <<stored, rebuild>> /\ \A u \in Rounds \ {t} : round'[u] = round[u]
    BY <1>3, RoundSteps
  <2>2. CASE round'[t].phase = "claimed"
    <3>1. Waiting'
      BY <2>2 DEF Waiting
    <3> QED BY <3>1 DEF UpToDate
  <2>3. CASE ~Writing /\ InFlight(round'[t]) /\ round'[t].view = stored /\ UNCHANGED queue
    <3>1. ~InFlight(rebuild') /\ \A u \in Rounds \ {t} : ~InFlight(round'[u])
      BY <2>1, <2>3 DEF Writing, InFlight
    <3>2. Agrees(round'[t].view, stored')
      BY <2>1, <2>3, AgreesSelf
    <3> QED BY <2>3, <3>1, <3>2 DEF UpToDate
  <2>4. CASE /\ InFlight(round[t]) /\ round'[t] = IdleRun /\ UNCHANGED queue
             /\ indexed' = ReindexLegislation(round[t].view, round[t].on)
             /\ built' = [by |-> "worker", on |-> round[t].on]
    <3>1. SUFFICES ASSUME ~queue'.failed, ~Waiting'
                   PROVE  Faithful(indexed', built', stored')
      <4>1. ~InFlight(rebuild') /\ \A u \in Rounds : ~InFlight(round'[u])
        BY <2>1, <2>4, IdleNotInFlight DEF OneWriter
      <4> QED BY <3>1, <4>1 DEF UpToDate
    <3>2. ~Waiting
      <4>1. \A u \in Rounds : round[u].phase = "claimed" => round'[u] = round[u]
        BY <2>1, <2>4 DEF InFlight
      <4> QED BY <2>4, <3>1, <4>1 DEF Waiting
    <3>3. Agrees(round[t].view, stored)
      BY <2>4, <3>1, <3>2 DEF UpToDate
    <3> QED BY <2>1, <2>4, <3>3, ReindexFaithful
  <2>5. CASE queue'.failed
    BY <2>5 DEF UpToDate
  <2> QED BY <1>3, <2>2, <2>3, <2>4, <2>5, RoundSteps
<1>4. CASE BeginRebuild \/ CommitRebuild \/ AbortRebuild
  <2>1. UNCHANGED <<stored, round, queue>> /\ Waiting' = Waiting
    BY <1>4, RebuildSteps DEF Waiting
  <2>2. CASE InFlight(rebuild') /\ rebuild'.view = stored /\ UNCHANGED <<indexed, built>>
    BY <2>1, <2>2, AgreesSelf DEF UpToDate
  <2>3. CASE /\ InFlight(rebuild) /\ rebuild' = IdleRun
             /\ indexed' = RebuildSearchIndex(rebuild.view, rebuild.on)
             /\ built' = [by |-> "rebuild", on |-> rebuild.on]
    <3>1. Agrees(rebuild.view, stored) => Faithful(indexed', built', stored')
      <4>1. rebuild.view \in Tables /\ rebuild.on \in Calendar
        BY <1>1 DEF RoundState
      <4> QED BY <2>1, <2>3, <4>1, RebuildFaithful
    <3>2. ~InFlight(rebuild')
      BY <2>3, IdleNotInFlight
    <3> QED BY <2>1, <2>3, <3>1, <3>2 DEF UpToDate
  <2>4. CASE rebuild' = IdleRun /\ UNCHANGED <<indexed, built>>
    BY <2>1, <2>4, IdleNotInFlight DEF UpToDate
  <2> QED BY <1>4, <2>2, <2>3, <2>4, RebuildSteps
<1>5. CASE CrashWorker \/ ReclaimJobs
  <2>1. Waiting'
    BY <1>5, CrashSteps DEF Waiting
  <2> QED BY <2>1 DEF UpToDate
<1>6. CASE UNCHANGED <<stored, indexed, built, queue, round, rebuild>>
  BY <1>6 DEF UpToDate, Waiting
<1> QED BY <1>2, <1>3, <1>4, <1>5, <1>6, StepKinds

LEMMA SearchInvInit == SearchInit => SearchInv
<1> SUFFICES ASSUME SearchInit PROVE SearchInv
  OBVIOUS
<1>1. /\ indexed = ReindexLegislation(stored, day) /\ built = [by |-> "worker", on |-> day]
      /\ ~InFlight(rebuild) /\ \A t \in Rounds : ~InFlight(round[t])
  BY IdleNotInFlight DEF SearchInit
<1>2. Grown
  BY <1>1, ReindexKnown DEF Grown
<1>3. OneWriter
  BY <1>1 DEF OneWriter
<1>4. UpToDate
  BY <1>1, ReindexFaithful, AgreesSelf DEF UpToDate
<1> QED BY <1>2, <1>3, <1>4, SearchTypesInit DEF SearchInv

LEMMA SearchInvStep == SearchInv /\ [SearchNext]_searchVars => SearchInv'
  BY SearchTypesStep, GrownStep, OneWriterStep, UpToDateStep DEF SearchInv

LEMMA SearchInvariance == WorkerSpec => []SearchInv
<1>1. WorkerInit => SearchInv
  BY SearchInvInit DEF WorkerInit
<1>2. [WorkerNext]_workerVars => [SearchNext]_searchVars
  BY DEF WorkerNext, Importing, Indexing, workerVars, searchVars
<1> QED BY <1>1, <1>2, SearchInvStep, PTL DEF WorkerSpec

-----------------------------------------------------------------------------
\* The theorems, for the worker with both of its parts.

\* The queue, the tables, the index and the snapshots in flight keep their types,
\* as do the imports the worker serves beside them.
THEOREM WorkerTypesHold == ASSUME ~SlowJobs PROVE WorkerSpec => []WorkerTypeOK
<1>1. WorkerInit => TypeOK /\ WorkInv
  BY TypeInit, WorkInit DEF WorkerInit
<1>2. [WorkerNext]_workerVars => [Next]_vars
  BY DEF WorkerNext, Importing, Indexing, workerVars
<1>3. TypeOK /\ WorkInv /\ [Next]_vars => (TypeOK /\ WorkInv)'
  BY TypeStep, WorkStep DEF WorkInv
<1>4. SearchInv => SearchTypeOK
  BY TypesImplied DEF SearchInv
<1> QED BY <1>1, <1>2, <1>3, <1>4, SearchInvariance, PTL DEF WorkerSpec, WorkerTypeOK

\* No hit of the search leads to a page that refuses it, however old the index is: the
\* filters look at the record again, and a version once written of never disappears.
THEOREM SearchHitsOpen == WorkerSpec => []HitsOpen
<1>1. ASSUME SearchInv PROVE HitsOpen
  <2>1. SUFFICES ASSUME NEW doc \in indexed, Visible(doc) PROVE Opens(doc)
    BY DEF HitsOpen, AnyHits, Hits, HitsAt
  <2>2. doc.kind \in Kinds
    BY <1>1 DEF SearchInv, SearchTypes, IndexDoc
  <2>3. doc.kind = "ARTICLE_VERSION" => doc.no \in DOMAIN stored.versions
    BY <1>1 DEF SearchInv, Grown
  <2> QED BY <2>1, <2>2, <2>3
          DEF Visible, Opens, History, Modifications, Annexes, Relations, Kinds
<1> QED BY <1>1, SearchInvariance, PTL

\* With a faithful index the search finds the law as it stands.
LEMMA FaithfulFinds ==
  ASSUME SearchTypes, Grown, Faithful(indexed, built, stored)
  PROVE  Found
<1>1. SUFFICES ASSUME PublicLaw(stored) PROVE Found
  BY DEF Found
<1>2. day \in Nat /\ stored.versions \in Seq(Row)
  BY CalendarNat, TablesFields DEF SearchTypes
<1>3. \A i \in DOMAIN stored.versions :
        stored.versions[i].from \in Nat /\ stored.versions[i].to \in Nat
  BY <1>2, RowFields
<1>4. /\ \E doc \in indexed :
           doc.kind = "LEGISLATION" /\ doc.title = stored.law.title /\ doc.current
      /\ stored.amendment.active /\ stored.amendment.status = "PUBLISHED" =>
           \E doc \in indexed : doc.kind = "AMENDMENT" /\ doc.current
      /\ \A doc \in indexed : doc.kind = "ARTICLE_VERSION" =>
           /\ doc.no \in DOMAIN stored.versions
           /\ doc.from = stored.versions[doc.no].from /\ doc.to = stored.versions[doc.no].to
      /\ \A i \in DOMAIN stored.versions :
           stored.article /\ Readable(stored.versions[i]) =>
             LeftOut(i) \/ \E doc \in indexed : doc.kind = "ARTICLE_VERSION" /\ doc.no = i
  BY <1>1 DEF Faithful, Grown, LeftOut
<1>5. \E doc \in Hits : doc.kind = "LEGISLATION" /\ doc.title = stored.law.title
  BY <1>1, <1>4 DEF Hits, Visible
<1>6. Modifications => \E doc \in Hits : doc.kind = "AMENDMENT"
  BY <1>1, <1>4 DEF Hits, Visible, Modifications
<1>7. ASSUME NEW d \in 0..day, NEW i \in ArticlesAt(d), ~LeftOut(i)
      PROVE  \E doc \in indexed : /\ doc.kind = "ARTICLE_VERSION" /\ doc.no = i
                                  /\ Visible(doc) /\ InForce(doc, d)
  <2>1. /\ i \in DOMAIN stored.versions /\ stored.article /\ Readable(stored.versions[i])
        /\ InForce(stored.versions[i], d)
    BY <1>7 DEF ArticlesAt
  <2>2. PICK doc \in indexed : doc.kind = "ARTICLE_VERSION" /\ doc.no = i
    BY <1>4, <1>7, <2>1
  <2>3. doc.from = stored.versions[i].from /\ doc.to = stored.versions[i].to
    BY <1>4, <2>2
  <2>4. InForce(doc, d)
    BY <2>1, <2>3 DEF InForce
  <2>5. stored.versions[i].from <= day
    BY <1>2, <1>3, <2>1 DEF InForce
  <2>6. Visible(doc)
    BY <1>1, <2>1, <2>2, <2>5 DEF Visible
  <2> QED BY <2>2, <2>4, <2>6
<1>8. \A i \in ArticlesAt(day) : LeftOut(i) \/ \E doc \in Hits : doc.no = i
  <2>1. day \in 0..day
    BY <1>2
  <2> QED BY <1>7, <2>1 DEF Hits
<1>9. ASSUME NEW d \in 0..day
      PROVE  LET at == {doc.no : doc \in {x \in HitsAt(d) : x.kind = "ARTICLE_VERSION"}}
             IN  at \subseteq ArticlesAt(d) /\ \A i \in ArticlesAt(d) : LeftOut(i) \/ i \in at
  <2>1. ASSUME NEW doc \in HitsAt(d), doc.kind = "ARTICLE_VERSION"
        PROVE  doc.no \in ArticlesAt(d)
    <3>1. doc \in indexed /\ Visible(doc) /\ InForce(doc, d)
      BY <2>1 DEF HitsAt
    <3>2. doc.no \in DOMAIN stored.versions /\ InForce(stored.versions[doc.no], d)
      BY <1>4, <2>1, <3>1 DEF InForce
    <3> QED BY <2>1, <3>1, <3>2 DEF Visible, ArticlesAt
  <2>2. ASSUME NEW i \in ArticlesAt(d), ~LeftOut(i)
        PROVE  \E doc \in HitsAt(d) : doc.kind = "ARTICLE_VERSION" /\ doc.no = i
    BY <1>7, <2>2 DEF HitsAt
  <2> QED BY <2>1, <2>2
<1> QED BY <1>5, <1>6, <1>8, <1>9 DEF Found

\* A change of the law, its articles or its amendments is never lost on the way to the
\* readers: the search misses something only while a job is queued or running, or
\* after one was marked as failed.  A manual rebuild, at any moment, breaks this only for
\* the versions to come that it leaves out (LeftOut).  Annexes and relations, whose
\* handlers queue no job (admin.service.ts:1381-1654), are not among what is found.
THEOREM NothingMissedForLong == WorkerSpec => []MissedOnlyWhileQueued
<1>1. ASSUME SearchInv PROVE MissedOnlyWhileQueued
  <2>1. SUFFICES ASSUME ~Pending, ~queue.failed PROVE Found
    BY DEF MissedOnlyWhileQueued
  <2>2. ~Waiting /\ \A t \in Rounds : ~InFlight(round[t])
    BY <2>1 DEF Pending, Waiting, InFlight
  <2> QED BY <1>1, <2>1, <2>2, FaithfulFinds DEF SearchInv, UpToDate
<1> QED BY <1>1, SearchInvariance, PTL
=============================================================================
