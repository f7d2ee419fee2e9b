---------------------------- MODULE ImportPipeline ----------------------------
(***************************************************************************)
(* Importing a source file: upload, extraction by the background worker,   *)
(* OCR of scanned files, review, the draft made from the text, and the     *)
(* life of the stored source documents meanwhile.                          *)
(*                                                                         *)
(* API actions are single transactions on MariaDB.  A worker process fires *)
(* a tick every second, whether or not the previous one has ended, so one  *)
(* process runs several jobs at once; a tick's database writes are steps   *)
(* of their own.  Any process may stop between two steps.                  *)
(*                                                                         *)
(* An import is identified with its extraction source (the column          *)
(* source_document_id is UNIQUE).                                          *)
(***************************************************************************)
EXTENDS Naturals, Sequences, FiniteSets, WorkflowRules

CONSTANTS
  Imports,        \* imports, each with its extraction source
  References,     \* PDF copies uploaded beside an import, for comparison
  Scanned,        \* imports whose file yields no usable text without OCR
  Pdfs,           \* sources whose media type is application/pdf
  Hash,           \* the SHA-256 of each source's bytes
  Workers, Ticks, \* worker processes, and the ticks they may have in flight
  HostOf,         \* the process of each tick
  ManualStates,   \* bound: extraction states an editor sets by hand
  LawTargets,     \* bound: statuses a law may be moved to
  MaxStops,       \* bound: how many times a worker process stops
  SlowJobs        \* may a live tick hold its job longer than 15 minutes?

Sources == Imports \cup References
Extraction == {"PENDING", "EXTRACTED", "OCR_REQUIRED", "OCR_UNREVIEWED", "REVIEWED", "FAILED"}

ASSUME PipelineAssumption ==
  /\ Imports \cap References = {} /\ Scanned \subseteq Imports
  /\ References \subseteq Pdfs /\ Pdfs \subseteq Sources
  /\ DOMAIN Hash = Sources
  /\ HostOf \in [Ticks -> Workers]
  /\ ManualStates \subseteq Extraction
  /\ LawTargets \subseteq LawStatus
  /\ MaxStops \in Nat /\ SlowJobs \in BOOLEAN

VARIABLES
  up,        \* worker processes that are running
  jobs,      \* job_queue in order of creation; its REINDEX_ENTITY jobs left out
  run,       \* the tick in flight: where it is, and the job it claimed
  import,    \* source_imports: status, extracted_text present, its law's status
  source,    \* source_documents: extraction_status and life
  attached,  \* source_import_attachments of each import
  linked,    \* legislation_source_documents of each import's law
  stops      \* how many times a process stopped

vars == <<up, jobs, run, import, source, attached, linked, stops>>

\* stale: locked_at is more than 15 minutes ago.
Job ==
  [type : {"IMPORT_SOURCE", "OCR_SOURCE"}, import : Imports,
   status : {"READY", "RUNNING", "SUCCEEDED", "FAILED"}, stale : BOOLEAN]

\* A tick has claimed its job, is working on it, or has marked it FAILED and is
\* about to record the failure on the import.
Run == [pc : {"idle", "claimed", "working", "failing"}, job : Nat]

ImportStatus ==
  {"ABSENT", "QUEUED", "EXTRACTING", "OCR_REQUIRED", "OCR_RUNNING",
   "READY_FOR_REVIEW", "REVIEWED", "FAILED"}

\* law is the status of the law made from the import, or NONE.
Import == [status : ImportStatus, text : BOOLEAN, law : LawStatus \cup {"NONE"}]

SourceRow == [extraction : Extraction, life : {"ABSENT", "ACTIVE", "DISABLED", "DELETED"}]

TypeOK ==
  /\ up \subseteq Workers
  /\ jobs \in Seq(Job)
  /\ run \in [Ticks -> Run]
  /\ import \in [Imports -> Import]
  /\ source \in [Sources -> SourceRow]
  /\ attached \in [Imports -> SUBSET Sources]
  /\ linked \in [Imports -> SUBSET Sources]
  /\ stops \in 0..MaxStops

Idle == [pc |-> "idle", job |-> 0]

Init ==
  /\ up = Workers
  /\ jobs = <<>>
  /\ run = [t \in Ticks |-> Idle]
  /\ import = [i \in Imports |-> [status |-> "ABSENT", text |-> FALSE, law |-> "NONE"]]
  /\ source = [s \in Sources |-> [extraction |-> "PENDING", life |-> "ABSENT"]]
  /\ attached = [i \in Imports |-> {}]
  /\ linked = [i \in Imports |-> {}]
  /\ stops = 0

-----------------------------------------------------------------------------
\* What the tables say

Stored(s) == source[s].life \in {"ACTIVE", "DISABLED"}
Active(s) == source[s].life = "ACTIVE"

Others(s) == {o \in Sources \ {s} : Hash[o] = Hash[s]}

\* The unique key (sha256, is_active) admits one active row of a content and one
\* row that is disabled or deleted.
ActiveKeyFree(s) == \A o \in Others(s) : source[o].life # "ACTIVE"
InactiveKeyFree(s) == \A o \in Others(s) : source[o].life \notin {"DISABLED", "DELETED"}

Busy(i) == import[i].status \in {"QUEUED", "EXTRACTING", "OCR_RUNNING"}

\* A law that left the inbox and the drafts keeps its sources as they are.
LawOpen(i) == import[i].law \in {"INBOX", "DRAFT"}

\* The text of the law made from import i cites the source of i.
Cited(s) == s \in Imports /\ import[s].law # "NONE"
Referenced(s) == Cited(s) \/ \E i \in Imports : s \in attached[i] \cup linked[i]

NewJob(type, i) == [type |-> type, import |-> i, status |-> "READY", stale |-> FALSE]

-----------------------------------------------------------------------------
\* The API

\* refs holds the reference PDF when one comes with the file.
Upload(i, refs) ==
  LET files == {i} \cup refs IN
  /\ \A s \in files : source[s].life = "ABSENT" /\ ActiveKeyFree(s)
  /\ \A r \in refs : Hash[r] # Hash[i]
  /\ source' = [s \in Sources |->
       IF s \in files THEN [extraction |-> "PENDING", life |-> "ACTIVE"] ELSE source[s]]
  /\ import' = [import EXCEPT ![i].status = "QUEUED"]
  /\ attached' = [attached EXCEPT ![i] = refs]
  /\ jobs' = Append(jobs, NewJob("IMPORT_SOURCE", i))
  /\ UNCHANGED <<up, run, linked, stops>>

\* Mutant: attachments of a law under review or published stay editable.
AttachmentsOpenAlways(i) == import[i].status # "ABSENT" /\ Active(i) /\ ~Busy(i)

\* changeAttachment finds the bundle, at rest, and its law still open.
AttachmentsOpen(i) ==
  /\ import[i].status # "ABSENT" /\ Active(i)
  /\ ~Busy(i)
  /\ import[i].law # "NONE" => LawOpen(i)

\* The keys of the two tables refuse a source attached anywhere already, and one
\* that the law links already.
Attach(i, s) ==
  /\ AttachmentsOpen(i)
  /\ Active(s) /\ s # i /\ s \in Pdfs /\ source[s].extraction = "REVIEWED"
  /\ \A o \in Imports : s \notin attached[o]
  /\ s \notin linked[i]
  /\ attached' = [attached EXCEPT ![i] = @ \cup {s}]
  /\ linked' = IF import[i].law = "NONE" THEN linked
               ELSE [linked EXCEPT ![i] = @ \cup {s}]
  /\ UNCHANGED <<up, jobs, run, import, source, stops>>

Detach(i, s) ==
  /\ AttachmentsOpen(i)
  /\ Stored(s) /\ s \in attached[i]
  /\ \A o \in Imports : s \notin linked[o]
  /\ attached' = [attached EXCEPT ![i] = @ \ {s}]
  /\ UNCHANGED <<up, jobs, run, import, source, linked, stops>>

\* Mutant: review accepts an import waiting for OCR, which has no text yet.
ReviewWithoutText(i) ==
  /\ Active(i)
  /\ import[i].status \in {"READY_FOR_REVIEW", "OCR_REQUIRED"}
  /\ source' = [s \in Sources |->
       IF s \in {i} \cup attached[i] THEN [source[s] EXCEPT !.extraction = "REVIEWED"]
       ELSE source[s]]
  /\ import' = [import EXCEPT ![i].status = "REVIEWED"]
  /\ UNCHANGED <<up, jobs, run, attached, linked, stops>>

Review(i) ==
  /\ Active(i)
  /\ import[i].status \in {"READY_FOR_REVIEW", "OCR_REQUIRED"}
  /\ import[i].text
  /\ source' = [s \in Sources |->
       IF s \in {i} \cup attached[i] THEN [source[s] EXCEPT !.extraction = "REVIEWED"]
       ELSE source[s]]
  /\ import' = [import EXCEPT ![i].status = "REVIEWED"]
  /\ UNCHANGED <<up, jobs, run, attached, linked, stops>>

\* A second call for the same import answers with the existing law.
CreateDraft(i) ==
  /\ Active(i)
  /\ import[i].law = "NONE"
  /\ import[i].status \in {"READY_FOR_REVIEW", "REVIEWED"}
  /\ import' = [import EXCEPT ![i].law = "DRAFT"]
  /\ linked' = [linked EXCEPT ![i] = {i} \cup attached[i]]
  /\ UNCHANGED <<up, jobs, run, source, attached, stops>>

LinkSource(i, s) ==
  /\ LawOpen(i)
  /\ Active(s)
  /\ linked' = [linked EXCEPT ![i] = @ \cup {s}]
  /\ UNCHANGED <<up, jobs, run, import, source, attached, stops>>

UnlinkSource(i, s) ==
  /\ LawOpen(i)
  /\ s \in linked[i] \ {i}
  /\ linked' = [linked EXCEPT ![i] = @ \ {s}]
  /\ UNCHANGED <<up, jobs, run, import, source, attached, stops>>

\* Of the transition's checks, the ones about the law's source.
SourceAllows(i, target) ==
  /\ target \in NeedsSource => Active(i)
  /\ target = "PUBLISHED" => source[i].extraction = "REVIEWED"

MoveLaw(i, target) ==
  /\ \E tr \in Transitions : tr.from = import[i].law /\ tr.to = target
  /\ SourceAllows(i, target)
  /\ import' = [import EXCEPT ![i].law = target]
  /\ UNCHANGED <<up, jobs, run, source, attached, linked, stops>>

\* The editor of a source may overwrite its extraction state.
UpdateSource(s, state) ==
  /\ Stored(s)
  /\ source' = [source EXCEPT ![s].extraction = state]
  /\ UNCHANGED <<up, jobs, run, import, attached, linked, stops>>

SetLife(s, life) ==
  /\ source' = [source EXCEPT ![s].life = life]
  /\ UNCHANGED <<up, jobs, run, import, attached, linked, stops>>

EnableSource(s) == source[s].life = "DISABLED" /\ ActiveKeyFree(s) /\ SetLife(s, "ACTIVE")

DisableSource(s) == Active(s) /\ InactiveKeyFree(s) /\ SetLife(s, "DISABLED")

\* Mutant: the list of referencing tables lacks attachments and links.
DeleteSourceUncited(s) ==
  /\ Stored(s)
  /\ ~Cited(s)
  /\ s \in Imports => ~Busy(s)
  /\ InactiveKeyFree(s)
  /\ SetLife(s, "DELETED")

DeleteSource(s) ==
  /\ Stored(s)
  /\ ~Referenced(s)
  /\ s \in Imports => ~Busy(s)
  /\ InactiveKeyFree(s)
  /\ SetLife(s, "DELETED")

-----------------------------------------------------------------------------
\* The worker

JobOf(t) == jobs[run[t].job]
ImportOf(t) == JobOf(t).import
Holds(t, j) == run[t].pc \in {"claimed", "working"} /\ run[t].job = j

\* Order of the queue: priority 10 for imports, 15 for OCR, then age.
Before(j, k) ==
  \/ jobs[j].type = "IMPORT_SOURCE" /\ jobs[k].type = "OCR_SOURCE"
  \/ jobs[j].type = jobs[k].type /\ j < k

Claimable(j) ==
  /\ jobs[j].status = "READY"
  /\ \A k \in DOMAIN jobs : jobs[k].status = "READY" => k = j \/ Before(j, k)

Claim(t, j) ==
  /\ HostOf[t] \in up /\ run[t] = Idle
  /\ Claimable(j)
  /\ jobs' = [jobs EXCEPT ![j].status = "RUNNING", ![j].stale = FALSE]
  /\ run' = [run EXCEPT ![t] = [pc |-> "claimed", job |-> j]]
  /\ UNCHANGED <<up, import, source, attached, linked, stops>>

\* The status is written whatever it was.
Begin(t) ==
  /\ run[t].pc = "claimed"
  /\ run' = [run EXCEPT ![t].pc = "working"]
  /\ import' = [import EXCEPT ![ImportOf(t)].status =
       IF JobOf(t).type = "IMPORT_SOURCE" THEN "EXTRACTING" ELSE "OCR_RUNNING"]
  /\ UNCHANGED <<up, jobs, source, attached, linked, stops>>

\* One transaction: the outcome on the source, the import and the queue.
Complete(t, extraction, status, text) ==
  /\ source' = [source EXCEPT ![ImportOf(t)].extraction = extraction]
  /\ import' = [import EXCEPT ![ImportOf(t)].status = status,
                              ![ImportOf(t)].text = @ \/ text]
  /\ run' = [run EXCEPT ![t] = Idle]
  /\ UNCHANGED <<up, attached, linked, stops>>

Succeeded(t) == [jobs EXCEPT ![run[t].job].status = "SUCCEEDED"]

Working(t, type) == run[t].pc = "working" /\ JobOf(t).type = type

FinishText(t) ==
  /\ Working(t, "IMPORT_SOURCE") /\ ImportOf(t) \notin Scanned
  /\ Complete(t, "EXTRACTED", "READY_FOR_REVIEW", TRUE)
  /\ jobs' = Succeeded(t)

\* Mutant: the import is offered for review while its OCR is still to come.
FinishScanReady(t) ==
  /\ Working(t, "IMPORT_SOURCE") /\ ImportOf(t) \in Scanned
  /\ Complete(t, "OCR_REQUIRED", "READY_FOR_REVIEW", FALSE)
  /\ jobs' = Append(Succeeded(t), NewJob("OCR_SOURCE", ImportOf(t)))

FinishScan(t) ==
  /\ Working(t, "IMPORT_SOURCE") /\ ImportOf(t) \in Scanned
  /\ Complete(t, "OCR_REQUIRED", "OCR_REQUIRED", FALSE)
  /\ jobs' = Append(Succeeded(t), NewJob("OCR_SOURCE", ImportOf(t)))

FinishOcr(t) ==
  /\ Working(t, "OCR_SOURCE")
  /\ Complete(t, "OCR_UNREVIEWED", "READY_FOR_REVIEW", TRUE)
  /\ jobs' = Succeeded(t)

\* The tools or the database fail; the job and the import are marked one by one.
FailJob(t) ==
  /\ run[t].pc \in {"claimed", "working"}
  /\ jobs' = [jobs EXCEPT ![run[t].job].status = "FAILED"]
  /\ run' = [run EXCEPT ![t].pc = "failing"]
  /\ UNCHANGED <<up, import, source, attached, linked, stops>>

\* Mutant: only a failed OCR is recorded on the import.
FailImportOcrOnly(t) ==
  /\ run[t].pc = "failing"
  /\ import' = [import EXCEPT ![ImportOf(t)].status =
       IF @ = "OCR_RUNNING" THEN "OCR_REQUIRED" ELSE @]
  /\ run' = [run EXCEPT ![t] = Idle]
  /\ UNCHANGED <<up, jobs, source, attached, linked, stops>>

FailImport(t) ==
  /\ run[t].pc = "failing"
  /\ import' = [import EXCEPT ![ImportOf(t)].status =
       IF @ = "OCR_RUNNING" THEN "OCR_REQUIRED" ELSE "FAILED"]
  /\ run' = [run EXCEPT ![t] = Idle]
  /\ UNCHANGED <<up, jobs, source, attached, linked, stops>>

\* A crash, a SIGTERM (which does not wait for the ticks in flight) or the end of
\* a --once process.
Stop(w) ==
  /\ w \in up /\ stops < MaxStops
  /\ stops' = stops + 1
  /\ up' = up \ {w}
  /\ run' = [t \in Ticks |-> IF HostOf[t] = w THEN Idle ELSE run[t]]
  /\ UNCHANGED <<jobs, import, source, attached, linked>>

\* Mutant: a process that starts puts every claim back.
ReclaimedAtOnce(job) ==
  IF job.status = "RUNNING" THEN [job EXCEPT !.status = "READY", !.stale = FALSE] ELSE job

\* Mutant: the claim goes back to a state that the queue does not know.
ReclaimedAsQueued(job) ==
  IF job.status = "RUNNING" /\ job.stale
  THEN [job EXCEPT !.status = "QUEUED", !.stale = FALSE] ELSE job

\* A process that starts puts the stale claims back; nothing else ever does.
Reclaimed(job) ==
  IF job.status = "RUNNING" /\ job.stale
  THEN [job EXCEPT !.status = "READY", !.stale = FALSE] ELSE job

Start(w) ==
  /\ w \notin up
  /\ up' = up \cup {w}
  /\ jobs' = [j \in DOMAIN jobs |-> Reclaimed(jobs[j])]
  /\ UNCHANGED <<run, import, source, attached, linked, stops>>

\* Fifteen minutes have passed since the job was claimed.
Age(j) ==
  /\ jobs[j].status = "RUNNING" /\ ~jobs[j].stale
  /\ (\E t \in Ticks : Holds(t, j)) => SlowJobs
  /\ jobs' = [jobs EXCEPT ![j].stale = TRUE]
  /\ UNCHANGED <<up, run, import, source, attached, linked, stops>>

-----------------------------------------------------------------------------
AttachmentSteps ==
  \E i \in Imports, s \in Sources :
    Attach(i, s) \/ Detach(i, s) \/ LinkSource(i, s) \/ UnlinkSource(i, s)

ImportSteps ==
  \E i \in Imports :
    \/ \E refs \in SUBSET References : Cardinality(refs) <= 1 /\ Upload(i, refs)
    \/ Review(i)
    \/ CreateDraft(i)
    \/ \E target \in LawTargets : MoveLaw(i, target)

SourceSteps ==
  \E s \in Sources :
    \/ \E state \in ManualStates : UpdateSource(s, state)
    \/ EnableSource(s)
    \/ DisableSource(s)
    \/ DeleteSource(s)

ClaimAny(t) == \E j \in DOMAIN jobs : Claim(t, j)

\* What a tick does once it has a job.
Work(t) ==
  \/ Begin(t)
  \/ FinishText(t) \/ FinishScan(t) \/ FinishOcr(t)
  \/ FailJob(t) \/ FailImport(t)

ProcessSteps ==
  \/ \E w \in Workers : Stop(w) \/ Start(w)
  \/ \E j \in DOMAIN jobs : Age(j)

Next ==
  \/ ImportSteps
  \/ AttachmentSteps
  \/ SourceSteps
  \/ \E t \in Ticks : ClaimAny(t) \/ Work(t)
  \/ ProcessSteps

Spec == Init /\ [][Next]_vars

\* setInterval keeps firing ticks while the process is up, the extraction tools
\* end one way or the other, the service manager starts a process that stopped,
\* and time passes.
Fairness ==
  /\ \A t \in Ticks : WF_vars(ClaimAny(t)) /\ WF_vars(Work(t))
  /\ \A w \in Workers : WF_vars(Start(w))
  /\ WF_vars(\E j \in DOMAIN jobs : Age(j))

FairSpec == Spec /\ Fairness

-----------------------------------------------------------------------------
\* Properties

Unfinished(j) == jobs[j].status \in {"READY", "RUNNING"}
Running(j) == j \in DOMAIN jobs /\ jobs[j].status = "RUNNING"

\* SKIP LOCKED and the reclaiming of stale claims never put two ticks, of one
\* process or of two, to work on the same job, as long as no live tick is at one for
\* fifteen minutes (SlowJobs = FALSE).  locked_at is not renewed while a tick works, so
\* that a process that starts takes a longer job, an OCR above all, for an abandoned one
\* (main.ts:62, :470).
OneRunPerJob ==
  \A t, u \in Ticks, j \in DOMAIN jobs : Holds(t, j) /\ Holds(u, j) => t = u

\* The status shown for an import tells which job is still to come: while its
\* extraction is unfinished it reads QUEUED or EXTRACTING, while its OCR is, it
\* reads OCR_REQUIRED or OCR_RUNNING; and it never has two unfinished jobs.  This too rests
\* on SlowJobs = FALSE: the second of two ticks on one job writes whatever the first did.
StatusTellsStage ==
  /\ \A j \in DOMAIN jobs : Unfinished(j) =>
       import[jobs[j].import].status \in
         IF jobs[j].type = "IMPORT_SOURCE" THEN {"QUEUED", "EXTRACTING"}
         ELSE {"OCR_REQUIRED", "OCR_RUNNING"}
  /\ \A j, k \in DOMAIN jobs :
       Unfinished(j) /\ Unfinished(k) /\ jobs[j].import = jobs[k].import => j = k

\* A reviewer's decision on an import is final: no late or repeated run of the
\* worker takes the import back to an earlier or failed state, as long as SlowJobs =
\* FALSE: a job under way for fifteen minutes and run a second time could be finished
\* and its text reviewed while the other run has its writes still to come.
ReviewedStands ==
  [][\A i \in Imports :
       import[i].status = "REVIEWED" => import'[i].status = "REVIEWED"]_vars

\* A source that is attached to an import, linked to a law or cited by its text
\* is never deleted, in whatever order links are made and sources withdrawn.
CitedSourcesKept == \A s \in Sources : Referenced(s) => source[s].life \in {"ACTIVE", "DISABLED"}

\* Once a law has left the drafts no handler, of attachments, of links or of
\* sources, changes what it is linked to.
SettledLawKeepsSources ==
  [][\A i \in Imports :
       import[i].law \notin {"NONE", "INBOX", "DRAFT"} =>
         linked'[i] = linked[i] /\ attached'[i] = attached[i]]_vars

\* Every uploaded file comes to rest: extracted, reviewed, failed or left without
\* text by OCR, with no job under way; unless a worker process stops, after which
\* nothing is promised (see ClaimsRecovered).
Settled(i) == ~Busy(i) /\ \A j \in DOMAIN jobs : jobs[j].import = i => ~Unfinished(j)

ImportsSettle ==
  \A i \in Imports :
    (import[i].status # "ABSENT" /\ stops = 0) ~> (Settled(i) \/ stops > 0)

\* ADR-0005: the worker recovers the stale claims of processes that died.
ClaimsRecovered ==
  \A j \in 1..(2 * Cardinality(Imports)) : Running(j) ~> ~Running(j)

\* docs/crud-coverage.md: a file under extraction is not deleted.
ExtractedFilesKept ==
  \A t \in Ticks : run[t].pc = "working" => source[ImportOf(t)].life # "DELETED"

\* The message of assertDeletable: a source that cannot be deleted because it is
\* referenced can be disabled instead.
ReferencedCanBeDisabled == \A s \in Sources : Referenced(s) /\ Active(s) => InactiveKeyFree(s)
=============================================================================
