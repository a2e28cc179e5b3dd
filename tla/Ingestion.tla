----------------------------- MODULE Ingestion -----------------------------
(***************************************************************************)
(* The document-ingestion pipeline: the upload request that creates a job, *)
(* the Redis list that carries pointers to jobs, and the workers that take *)
(* jobs through the stages (app/ingestion/worker.py, app/ingestion/queue.py*)
(* and the tail of app/documents/service.py).                              *)
(*                                                                         *)
(* One step is one database transaction, one queue command, or the part of *)
(* a stage that runs between two of them.  A transaction that reads rows   *)
(* without a lock and then decides what to write from what it read is two  *)
(* steps (LoadRow and then Finish, Quarantine or Fail; SelectStale and     *)
(* then RequeueStale), because READ COMMITTED lets others commit between.  *)
(* _claim takes SELECT ... FOR UPDATE and is one step.                     *)
(*                                                                         *)
(* A document has one version and one job, so a job stands for all three.  *)
(***************************************************************************)
EXTENDS Integers, Sequences, FiniteSets

CONSTANTS
    Jobs,           \* jobs that requests may create
    Workers,        \* worker processes
    NoJob,          \* "no message in hand"
    Kinds,          \* what uploaded files may turn out to be (see AllKinds)
    ScanInjection,  \* settings.injection_scan_enabled
    MaxAttempts,    \* settings.ingestion_max_attempts
    MaxCrashes,     \* bound: worker crashes
    MaxDelays       \* bound: jobs that grow stale while something still holds them

\* What ingestion can find out about a file.
\*   corrupt     stored bytes differ from the recorded hash or declared type
\*   malware     the malware scanner flags it
\*   unparsable  no parser reads it
\*   misplaced   a chunk fails its provenance check
\*   poisoned    the prompt-injection scan quarantines it
\*   flagged     the prompt-injection scan flags and allows it
\*   clean       none of these
AllKinds == {"corrupt", "malware", "unparsable", "misplaced", "poisoned",
             "flagged", "clean"}

ASSUME KindsAssumption == Kinds \subseteq AllKinds
ASSUME NoJobAssumption == NoJob \notin Jobs
ASSUME ScanInjectionAssumption == ScanInjection \in BOOLEAN
ASSUME MaxAttemptsAssumption == MaxAttempts \in Nat \ {0}
ASSUME BoundsAssumption == MaxCrashes \in Nat /\ MaxDelays \in Nat

VARIABLES
    \* PostgreSQL
    upload,     \* the request's transaction: none, open, committed, rolled_back
    kind,       \* what the uploaded file is; never changes
    status,     \* ingestion_jobs.status
    stage,      \* ingestion_jobs.stage
    attempts,   \* ingestion_jobs.attempts
    aged,       \* jobs whose status is older than the stale cutoff
    doc,        \* documents.status
    paged,      \* the version's page rows are stored
    chunks,     \* identity of the version's set of chunk rows (a set may be
                \* empty: a blank file has no chunks), 0 before one is stored
    audit,      \* audit-log actions recorded for the document
    \* Redis
    queue,      \* attest:ingestion:queue
    dead,       \* jobs on attest:ingestion:dead
    \* each worker process
    pc,         \* where it is
    msg,        \* the message it holds
    verdict,    \* how process() is ending the run
    skip,       \* row fields it loaded with the value it is about to write
    found,      \* what requeue_stale selected and has not finished with
    \* bookkeeping that no code reads
    recoveries, \* times requeue_stale took a job from RUNNING back to QUEUED
    crashes, delays

fileVars   == <<upload, kind>>
jobVars    == <<status, stage, attempts, aged>>
docVars    == <<doc, paged, chunks, audit>>
redisVars  == <<queue, dead>>
workerVars == <<pc, msg, verdict, skip, found>>
ghostVars  == <<recoveries, crashes, delays>>
vars == <<fileVars, jobVars, docVars, redisVars, workerVars, ghostVars>>

Uploads  == {"none", "open", "committed", "rolled_back"}
Statuses == {"queued", "running", "succeeded", "failed"}
Stages   == {"uploaded", "validating", "scanning", "parsing", "ocr", "chunking",
             "normalizing", "embedding", "indexing", "ready"}
DocStates == {"pending", "processing", "ready", "quarantined", "failed"}
AuditActions == {"prompt_injection_flagged", "ready", "quarantined",
                 "ingestion_failed"}
Verdicts == {"none", "ready", "quarantined", "retry", "failed"}

\* Points of _run_stages between two database transactions.
StagePCs == {"validating", "scanning", "parsing", "ocr", "pages", "chunking",
             "chunks", "normalizing", "embedding", "indexing"}
\* A worker that has claimed its message and not yet committed the outcome.
HoldingPCs == StagePCs \cup {"settle", "settling"}
PCs == HoldingPCs \cup {"idle", "claim", "publish", "recover", "republish"}

NothingFound == [running |-> {}, queued |-> {}]
Terminal == {"succeeded", "failed"}
Settled(j) == status[j] \in Terminal

Holds(w, j) == pc[w] \in HoldingPCs /\ msg[w] = j
Outstanding(w) == found[w].running \cup found[w].queued
InQueue(j) == \E i \in DOMAIN queue : queue[i] = j
\* Somebody will still act on j without a recovery scan.
InFlight(j) == \/ InQueue(j)
               \/ \E w \in Workers : msg[w] = j \/ j \in Outstanding(w)

\* Rows exist only once the request has committed; until then these are the
\* column defaults they will have.
Init ==
    /\ upload = [j \in Jobs |-> "none"]
    /\ kind \in [Jobs -> Kinds]
    /\ status = [j \in Jobs |-> "queued"]
    /\ stage = [j \in Jobs |-> "uploaded"]
    /\ attempts = [j \in Jobs |-> 0]
    /\ aged = {}
    /\ doc = [j \in Jobs |-> "pending"]
    /\ paged = [j \in Jobs |-> FALSE]
    /\ chunks = [j \in Jobs |-> 0]
    /\ audit = [j \in Jobs |-> {}]
    /\ queue = <<>>
    /\ dead = {}
    /\ pc = [w \in Workers |-> "idle"]
    /\ msg = [w \in Workers |-> NoJob]
    /\ verdict = [w \in Workers |-> "none"]
    /\ skip = [w \in Workers |-> {}]
    /\ found = [w \in Workers |-> NothingFound]
    /\ recoveries = [j \in Jobs |-> 0]
    /\ crashes = 0
    /\ delays = 0

-----------------------------------------------------------------------------
(* The upload request (store_new_document, get_db_session).                 *)

\* The job row is flushed and its pointer enqueued while the transaction that
\* inserts the row is still open.
UploadEnqueue(j) ==
    /\ upload[j] = "none"
    /\ upload' = [upload EXCEPT ![j] = "open"]
    /\ queue' = Append(queue, j)
    /\ UNCHANGED <<kind, jobVars, docVars, dead, workerVars, ghostVars>>

UploadCommit(j) ==
    /\ upload[j] = "open"
    /\ upload' = [upload EXCEPT ![j] = "committed"]
    /\ UNCHANGED <<kind, jobVars, docVars, redisVars, workerVars, ghostVars>>

UploadRollback(j) ==
    /\ upload[j] = "open"
    /\ upload' = [upload EXCEPT ![j] = "rolled_back"]
    /\ UNCHANGED <<kind, jobVars, docVars, redisVars, workerVars, ghostVars>>

-----------------------------------------------------------------------------
(* Taking and claiming a message (process_next, _claim).                    *)

Dequeue(w) ==
    /\ pc[w] = "idle"
    /\ queue # <<>>
    /\ pc' = [pc EXCEPT ![w] = "claim"]
    /\ msg' = [msg EXCEPT ![w] = Head(queue)]
    /\ queue' = Tail(queue)
    /\ UNCHANGED <<fileVars, jobVars, docVars, dead, verdict, skip, found,
                   ghostVars>>

\* Faults of the claim: it only refuses finished jobs; it checks nothing; it
\* only refuses running jobs.
ClaimableIfUnfinished(j) == upload[j] = "committed" /\ ~Settled(j)
ClaimableIfExists(j) == upload[j] = "committed"
ClaimableIfNotRunning(j) == upload[j] = "committed" /\ status[j] # "running"

\* The row exists and is QUEUED, under its lock.
Claimable(j) == upload[j] = "committed" /\ status[j] = "queued"

Claim(w) ==
    /\ pc[w] = "claim"
    /\ Claimable(msg[w])
    /\ status' = [status EXCEPT ![msg[w]] = "running"]
    /\ attempts' = [attempts EXCEPT ![msg[w]] = @ + 1]
    /\ aged' = aged \ {msg[w]}
    /\ doc' = [doc EXCEPT ![msg[w]] = "processing"]
    /\ pc' = [pc EXCEPT ![w] = "validating"]
    /\ UNCHANGED <<fileVars, stage, paged, chunks, audit, redisVars, msg,
                   verdict, skip, found, ghostVars>>

\* No such row (yet), or a duplicate delivery: the message is dropped.
DropMessage(w) ==
    /\ pc[w] = "claim"
    /\ ~Claimable(msg[w])
    /\ pc' = [pc EXCEPT ![w] = "idle"]
    /\ msg' = [msg EXCEPT ![w] = NoJob]
    /\ UNCHANGED <<fileVars, jobVars, docVars, redisVars, verdict, skip, found,
                   ghostVars>>

-----------------------------------------------------------------------------
(* The stages (_run_stages).  Each first commits its own stage name, blindly*)
(* and whoever owns the job by now; then it works on the bytes it holds.    *)

\* onupdate=now() moves updated_at, the timestamp that ages a QUEUED job.
AdvanceStage(w, s) ==
    /\ stage' = [stage EXCEPT ![msg[w]] = s]
    /\ aged' = IF status[msg[w]] = "queued" /\ stage[msg[w]] # s
               THEN aged \ {msg[w]} ELSE aged
    /\ UNCHANGED <<status, attempts>>

Proceed(w, next) ==
    /\ pc' = [pc EXCEPT ![w] = next]
    /\ UNCHANGED verdict

\* An exception leaves _run_stages and process() dispatches on its class.
EndRun(w, v) ==
    /\ pc' = [pc EXCEPT ![w] = "settle"]
    /\ verdict' = [verdict EXCEPT ![w] = v]

InRun == UNCHANGED <<fileVars, redisVars, msg, skip, found, ghostVars>>

StageValidate(w) ==
    /\ pc[w] = "validating"
    /\ AdvanceStage(w, "validating")
    /\ IF kind[msg[w]] = "corrupt" THEN EndRun(w, "failed")
                                   ELSE Proceed(w, "scanning")
    /\ UNCHANGED docVars /\ InRun

StageScan(w) ==
    /\ pc[w] = "scanning"
    /\ AdvanceStage(w, "scanning")
    /\ IF kind[msg[w]] = "malware" THEN EndRun(w, "quarantined")
                                   ELSE Proceed(w, "parsing")
    /\ UNCHANGED docVars /\ InRun

StageParse(w) ==
    /\ pc[w] = "parsing"
    /\ AdvanceStage(w, "parsing")
    /\ IF kind[msg[w]] = "unparsable" THEN EndRun(w, "failed")
                                      ELSE Proceed(w, "ocr")
    /\ UNCHANGED docVars /\ InRun

StageOcr(w) ==
    /\ pc[w] = "ocr"
    /\ AdvanceStage(w, "ocr")
    /\ Proceed(w, "pages")
    /\ UNCHANGED docVars /\ InRun

\* Delete and insert of all page rows, one transaction.
PersistPages(w) ==
    /\ pc[w] = "pages"
    /\ paged' = [paged EXCEPT ![msg[w]] = TRUE]
    /\ Proceed(w, "chunking")
    /\ UNCHANGED <<jobVars, doc, chunks, audit>> /\ InRun

\* Fault: the injection scan no longer runs ahead of the chunk rows.
StageChunkUnscanned(w) ==
    /\ pc[w] = "chunking"
    /\ AdvanceStage(w, "chunking")
    /\ IF kind[msg[w]] = "misplaced" THEN EndRun(w, "failed")
                                     ELSE Proceed(w, "chunks")
    /\ UNCHANGED docVars /\ InRun

\* Chunking, the provenance check and the injection scan, before any chunk is
\* stored.
StageChunk(w) ==
    /\ pc[w] = "chunking"
    /\ AdvanceStage(w, "chunking")
    /\ \/ kind[msg[w]] = "misplaced" /\ EndRun(w, "failed")
       \/ kind[msg[w]] = "poisoned" /\ ScanInjection /\ EndRun(w, "quarantined")
       \/ /\ kind[msg[w]] # "misplaced"
          /\ kind[msg[w]] = "poisoned" => ~ScanInjection
          /\ Proceed(w, "chunks")
    /\ UNCHANGED docVars /\ InRun

\* New rows get new ids; two values suffice to tell them from the old ones.
FreshChunks(c) == IF c = 1 THEN 2 ELSE 1

\* Fault: the old rows are deleted in a transaction of their own.
PersistChunksInTwo(w) ==
    /\ pc[w] = "chunks"
    /\ IF chunks[msg[w]] = 0
       THEN chunks' = [chunks EXCEPT ![msg[w]] = 1] /\ Proceed(w, "normalizing")
       ELSE chunks' = [chunks EXCEPT ![msg[w]] = 0] /\ UNCHANGED <<pc, verdict>>
    /\ UNCHANGED <<jobVars, doc, paged, audit>> /\ InRun

\* The audit record of a flagged document and the replacement of all chunk
\* rows, one transaction.
PersistChunks(w) ==
    /\ pc[w] = "chunks"
    /\ chunks' = [chunks EXCEPT ![msg[w]] = FreshChunks(@)]
    /\ audit' = [audit EXCEPT ![msg[w]] =
                    IF kind[msg[w]] = "flagged" /\ ScanInjection
                    THEN @ \cup {"prompt_injection_flagged"} ELSE @]
    /\ Proceed(w, "normalizing")
    /\ UNCHANGED <<jobVars, doc, paged>> /\ InRun

PlaceholderNext == [normalizing |-> "embedding", embedding |-> "indexing"]

\* NORMALIZING, EMBEDDING and INDEXING only commit their stage names.
StagePlaceholder(w) ==
    /\ pc[w] \in {"normalizing", "embedding", "indexing"}
    /\ AdvanceStage(w, pc[w])
    /\ IF pc[w] = "indexing" THEN EndRun(w, "ready")
                             ELSE Proceed(w, PlaceholderNext[pc[w]])
    /\ UNCHANGED docVars /\ InRun

\* Any other exception, raised before the point's transaction commits or, in
\* a stage, after its name has been committed: storage, the OCR engine, a
\* database error, the unique constraint two concurrent replacements hit.
RaiseTransient(w) ==
    /\ pc[w] \in StagePCs
    /\ \/ UNCHANGED jobVars
       \/ /\ pc[w] \in Stages
          /\ AdvanceStage(w, pc[w])
    /\ EndRun(w, "retry")
    /\ UNCHANGED docVars /\ InRun

-----------------------------------------------------------------------------
(* Ending a run (_finish, _quarantine, _fail).                              *)

TargetStatus(v) == IF v = "ready" THEN "succeeded"
                   ELSE IF v = "retry" THEN "queued" ELSE "failed"

\* Fault: off by one in the comparison with max_attempts.
RetriesLeftOffByOne(j) == attempts[j] <= MaxAttempts

RetriesLeft(j) == attempts[j] < MaxAttempts

\* The transaction loads the job and document rows without a lock.  A retry is
\* allowed or refused here; a field that already holds the value to be written
\* will not be part of the UPDATE.
LoadRow(w) ==
    /\ pc[w] = "settle"
    /\ LET j == msg[w]
           v == IF verdict[w] = "retry" /\ ~RetriesLeft(j)
                THEN "failed" ELSE verdict[w]
       IN /\ verdict' = [verdict EXCEPT ![w] = v]
          /\ skip' = [skip EXCEPT ![w] =
                        {f \in {"status", "stage", "doc"} :
                            \/ f = "status" /\ status[j] = TargetStatus(v)
                            \/ f = "stage" /\ stage[j] = "ready"
                            \/ f = "doc" /\ doc[j] = v}]
    /\ pc' = [pc EXCEPT ![w] = "settling"]
    /\ UNCHANGED <<fileVars, jobVars, docVars, redisVars, msg, found, ghostVars>>

\* The ORM's UPDATE: by primary key, only the fields that changed since the
\* load, nothing rechecked.
WriteField(w, f, old, new) == IF f \in skip[w] THEN old ELSE new

WriteStatus(w, new) ==
    LET j == msg[w]
    IN /\ status' = [status EXCEPT ![j] = WriteField(w, "status", @, new)]
       /\ aged' = IF status'[j] = "running" THEN aged ELSE aged \ {j}

\* Fault: the document row is given the job's status.
WriteDocFromJob(w, new) == doc' = [doc EXCEPT ![msg[w]] = TargetStatus(verdict[w])]

WriteDoc(w, new) ==
    doc' = [doc EXCEPT ![msg[w]] = WriteField(w, "doc", @, new)]

\* Fault: the outcome commits without its audit record.
RecordNothing(w, action) == UNCHANGED audit

Record(w, action) == audit' = [audit EXCEPT ![msg[w]] = @ \cup {action}]

ReleaseWorker(w) ==
    /\ pc' = [pc EXCEPT ![w] = "idle"]
    /\ msg' = [msg EXCEPT ![w] = NoJob]
    /\ verdict' = [verdict EXCEPT ![w] = "none"]
    /\ skip' = [skip EXCEPT ![w] = {}]

Finish(w) ==
    /\ pc[w] = "settling"
    /\ verdict[w] = "ready"
    /\ WriteStatus(w, "succeeded")
    /\ stage' = [stage EXCEPT ![msg[w]] = WriteField(w, "stage", @, "ready")]
    /\ WriteDoc(w, "ready")
    /\ Record(w, "ready")
    /\ ReleaseWorker(w)
    /\ UNCHANGED <<fileVars, attempts, paged, chunks, redisVars, found, ghostVars>>

Quarantine(w) ==
    /\ pc[w] = "settling"
    /\ verdict[w] = "quarantined"
    /\ WriteStatus(w, "failed")
    /\ WriteDoc(w, "quarantined")
    /\ Record(w, "quarantined")
    /\ ReleaseWorker(w)
    /\ UNCHANGED <<fileVars, stage, attempts, paged, chunks, redisVars, found,
                   ghostVars>>

\* _fail with retries left: back to QUEUED, the message follows the commit.
FailRetry(w) ==
    /\ pc[w] = "settling"
    /\ verdict[w] = "retry"
    /\ WriteStatus(w, "queued")
    /\ pc' = [pc EXCEPT ![w] = "publish"]
    /\ UNCHANGED <<fileVars, stage, attempts, docVars, redisVars, msg, verdict,
                   skip, found, ghostVars>>

FailTerminally(w) ==
    /\ pc[w] = "settling"
    /\ verdict[w] = "failed"
    /\ WriteStatus(w, "failed")
    /\ WriteDoc(w, "failed")
    /\ Record(w, "ingestion_failed")
    /\ pc' = [pc EXCEPT ![w] = "publish"]
    /\ UNCHANGED <<fileVars, stage, attempts, paged, chunks, redisVars, msg,
                   verdict, skip, found, ghostVars>>

\* After the commit: enqueue for a retry, dead_letter otherwise.
Publish(w) ==
    /\ pc[w] = "publish"
    /\ \/ verdict[w] = "retry" /\ queue' = Append(queue, msg[w]) /\ UNCHANGED dead
       \/ verdict[w] = "failed" /\ dead' = dead \cup {msg[w]} /\ UNCHANGED queue
    /\ ReleaseWorker(w)
    /\ UNCHANGED <<fileVars, jobVars, docVars, found, ghostVars>>

-----------------------------------------------------------------------------
(* Recovery (run_forever, requeue_stale).                                   *)

\* Faults of the scan: jobs without attempts left stay RUNNING; QUEUED jobs
\* whose message was lost are not looked for.
StaleRunningWithRetries == {j \in aged : status[j] = "running" /\ RetriesLeft(j)}
StaleQueuedIgnored == {}

StaleRunning == {j \in aged : status[j] = "running"}
StaleQueued  == {j \in aged : status[j] = "queued"}

\* Only a worker whose dequeue timed out on an empty queue looks for stale jobs.
SelectStale(w) ==
    /\ pc[w] = "idle"
    /\ queue = <<>>
    /\ found' = [found EXCEPT ![w] = [running |-> StaleRunning,
                                      queued |-> StaleQueued]]
    /\ pc' = [pc EXCEPT ![w] = IF aged = {} THEN "idle" ELSE "recover"]
    /\ UNCHANGED <<fileVars, jobVars, docVars, redisVars, msg, verdict, skip,
                   ghostVars>>

\* One transaction: selected RUNNING rows become QUEUED, selected QUEUED rows
\* get a new updated_at.
RequeueStale(w) ==
    /\ pc[w] = "recover"
    /\ status' = [j \in Jobs |-> IF j \in found[w].running THEN "queued"
                                                           ELSE status[j]]
    /\ aged' = aged \ {j \in Outstanding(w) : status'[j] = "queued"}
    /\ recoveries' = [j \in Jobs |-> IF j \in found[w].running
                                     THEN recoveries[j] + 1 ELSE recoveries[j]]
    /\ pc' = [pc EXCEPT ![w] = "republish"]
    /\ UNCHANGED <<fileVars, stage, attempts, docVars, redisVars, msg, verdict,
                   skip, found, crashes, delays>>

\* After the commit, one enqueue per job; those found RUNNING come first.
PublishStale(w) ==
    /\ pc[w] = "republish"
    /\ \E j \in Outstanding(w) :
         /\ j \in found[w].running \/ found[w].running = {}
         /\ queue' = Append(queue, j)
         /\ found' = [found EXCEPT ![w] = [running |-> @.running \ {j},
                                           queued |-> @.queued \ {j}]]
         /\ pc' = [pc EXCEPT ![w] = IF Outstanding(w) = {j} THEN "idle"
                                                            ELSE "republish"]
    /\ UNCHANGED <<fileVars, jobVars, docVars, dead, msg, verdict, skip, ghostVars>>

-----------------------------------------------------------------------------
(* The environment.                                                         *)

\* stale_after_seconds pass.  A job nobody holds any more grows stale freely;
\* one that is queued, running or being recovered only MaxDelays times.
Age(j) ==
    /\ upload[j] = "committed"
    /\ ~Settled(j)
    /\ j \notin aged
    /\ aged' = aged \cup {j}
    /\ IF InFlight(j) THEN delays < MaxDelays /\ delays' = delays + 1
                      ELSE UNCHANGED delays
    /\ UNCHANGED <<fileVars, status, stage, attempts, docVars, redisVars,
                   workerVars, recoveries, crashes>>

\* The process dies, or an exception leaves process() and ends run_forever
\* (a database or Redis error in _claim, _finish, _quarantine, _fail or
\* requeue_stale), and is started again.  What it held is gone.
Crash(w) ==
    /\ pc[w] # "idle"
    /\ crashes < MaxCrashes
    /\ crashes' = crashes + 1
    /\ ReleaseWorker(w)
    /\ found' = [found EXCEPT ![w] = NothingFound]
    /\ UNCHANGED <<fileVars, jobVars, docVars, redisVars, recoveries, delays>>

-----------------------------------------------------------------------------
UploadStep(j) == UploadEnqueue(j) \/ UploadCommit(j) \/ UploadRollback(j)

WorkerStep(w) ==
    \/ Dequeue(w) \/ Claim(w) \/ DropMessage(w)
    \/ StageValidate(w) \/ StageScan(w) \/ StageParse(w) \/ StageOcr(w)
    \/ PersistPages(w) \/ StageChunk(w) \/ PersistChunks(w) \/ StagePlaceholder(w)
    \/ RaiseTransient(w)
    \/ LoadRow(w) \/ Finish(w) \/ Quarantine(w) \/ FailRetry(w) \/ FailTerminally(w)
    \/ Publish(w)
    \/ SelectStale(w) \/ RequeueStale(w) \/ PublishStale(w)

Next ==
    \/ \E j \in Jobs : UploadStep(j)
    \/ \E w \in Workers : WorkerStep(w)
    \/ \E j \in Jobs : Age(j)
    \/ \E w \in Workers : Crash(w)

Spec == Init /\ [][Next]_vars

\* Workers keep running (run_forever, restarted by its supervisor), a request
\* ends, and time passes for a job nobody holds.  Nothing makes a worker crash,
\* an exception occur or a held job grow stale.
Fairness ==
    /\ \A w \in Workers : WF_vars(WorkerStep(w))
    /\ \A j \in Jobs : WF_vars(UploadCommit(j) \/ UploadRollback(j))
    /\ \A j \in Jobs : WF_vars(~InFlight(j) /\ Age(j))

FairSpec == Spec /\ Fairness

-----------------------------------------------------------------------------
(* Properties.                                                              *)

\* Type invariant: the rows, the two lists and every worker's locals.
TypeOK ==
    /\ upload \in [Jobs -> Uploads]
    /\ kind \in [Jobs -> Kinds]
    /\ status \in [Jobs -> Statuses]
    /\ stage \in [Jobs -> Stages]
    /\ attempts \in [Jobs -> Nat]
    /\ aged \in SUBSET Jobs
    /\ doc \in [Jobs -> DocStates]
    /\ paged \in [Jobs -> BOOLEAN]
    /\ chunks \in [Jobs -> 0..2]
    /\ audit \in [Jobs -> SUBSET AuditActions]
    /\ queue \in Seq(Jobs)
    /\ dead \in SUBSET Jobs
    /\ pc \in [Workers -> PCs]
    /\ msg \in [Workers -> Jobs \cup {NoJob}]
    /\ verdict \in [Workers -> Verdicts]
    /\ skip \in [Workers -> SUBSET {"status", "stage", "doc"}]
    /\ found \in [Workers -> [running : SUBSET Jobs, queued : SUBSET Jobs]]
    /\ recoveries \in [Jobs -> Nat]
    /\ crashes \in Nat
    /\ delays \in Nat

\* Kinds that every gate of the pipeline lets through.
Admissible == {"clean", "flagged"} \cup (IF ScanInjection THEN {} ELSE {"poisoned"})

\* Whatever crashes, duplicates and overtaken workers do, no chunk row of a
\* file that some gate rejects is ever stored, a flagged file's chunks never
\* exist without their audit record, and a document is READY (what retrieval
\* serves) or its job SUCCEEDED only with its pages and chunks in place.
OnlyScreenedContent ==
    \A j \in Jobs :
        /\ chunks[j] # 0 =>
              /\ kind[j] \in Admissible
              /\ paged[j]
              /\ kind[j] = "flagged" /\ ScanInjection =>
                    "prompt_injection_flagged" \in audit[j]
        /\ doc[j] = "ready" \/ status[j] = "succeeded" => chunks[j] # 0

\* Duplicate messages and retries alone never put two workers on one job, nor
\* let a job be claimable, or already over, while a worker still runs it: only
\* requeue_stale can, when it takes a job from a worker that is merely slow.
ExclusiveUnlessRecovered ==
    \A j \in Jobs : recoveries[j] = 0 =>
        /\ \A w1, w2 \in Workers : Holds(w1, j) /\ Holds(w2, j) => w1 = w2
        /\ \A w \in Workers : Holds(w, j) => status[j] = "running"

\* On a job that requeue_stale took from a slow worker, every worker, and the claim that a
\* QUEUED row still invites, follows the upload or one recovery: an overtaken worker may put
\* the job back to QUEUED for another, but only by leaving it (_claim, _fail, requeue_stale).
HoldersAccountedFor ==
    \A j \in Jobs : recoveries[j] > 0 =>
        Cardinality({w \in Workers : Holds(w, j)}) + (IF status[j] = "queued" THEN 1 ELSE 0)
            <= 1 + recoveries[j]

\* A job is started at most max_attempts times, plus once per recovery:
\* requeue_stale does not look at attempts, and a retry decided on an old
\* attempts value does not add to what recoveries already allow.
AttemptsBounded ==
    \A j \in Jobs : attempts[j] <= MaxAttempts + recoveries[j]

\* The job row and the document row are written by the same transactions and
\* tell the same story, and every outcome has its audit record.
RowsAgree(j) ==
    /\ status[j] = "queued" => doc[j] = IF attempts[j] = 0 THEN "pending"
                                                          ELSE "processing"
    /\ status[j] = "running" => doc[j] = "processing"
    /\ status[j] = "succeeded" => doc[j] = "ready" /\ stage[j] = "ready"
    /\ status[j] = "failed" => doc[j] \in {"failed", "quarantined"}
    /\ doc[j] = "failed" => "ingestion_failed" \in audit[j]
    /\ doc[j] \in {"ready", "quarantined"} => doc[j] \in audit[j]

RowsAgreeUnlessRecovered == \A j \in Jobs : recoveries[j] = 0 => RowsAgree(j)

\* Terminal states are final and the chunk rows of a READY document, which
\* citations point to, are never replaced - as long as no recovery ever took
\* the job from a worker.
TerminalUnlessRecovered ==
    [][\A j \in Jobs : recoveries'[j] = 0 =>
          /\ Settled(j) => status'[j] = status[j] /\ doc'[j] = doc[j]
          /\ doc[j] = "ready" => chunks'[j] = chunks[j]]_vars

\* "claiming is a compare-and-set on the job row and terminal states are never
\* reprocessed" (app/ingestion/worker.py), without any reservation.
TerminalForever == [][\A j \in Jobs : Settled(j) => status'[j] = status[j]]_vars

\* Every committed upload reaches a terminal state and stays there once
\* crashes and premature recoveries have stopped, and the queue empties.
EventuallySettled ==
    <>[](queue = <<>> /\ \A j \in Jobs : upload[j] = "committed" => Settled(j))

\* "permanent (integrity/content violations - terminal, dead-letter), and
\* transient (... retried up to `max_attempts`, then dead-letter)"
\* (app/ingestion/worker.py): a job that failed reaches the dead-letter list.
EventuallyDeadLettered ==
    \A j \in Jobs : status[j] = "failed" /\ doc[j] = "failed" ~> j \in dead

\* The refinement mapping to the lifecycle the pipeline promises.
Phase(j) ==
    IF upload[j] # "committed" THEN "absent"
    ELSE IF status[j] = "queued" THEN "waiting"
    ELSE IF status[j] = "running" THEN "working" ELSE doc[j]

Lifecycle == INSTANCE JobLifecycle WITH
    MaxStarts  <- MaxAttempts + MaxCrashes,
    acceptable <- {j \in Jobs : kind[j] \in Admissible},
    phase      <- [j \in Jobs |-> Phase(j)],
    starts     <- attempts,
    serving    <- [j \in Jobs |-> IF doc[j] = "ready" THEN chunks[j] ELSE 0]

\* Documents as readers see them.
Published == INSTANCE Corpus WITH
    Docs     <- Jobs,
    RowSets  <- {1, 2},
    NoRows   <- 0,
    screened <- {j \in Jobs : kind[j] \in Admissible},
    rows     <- chunks

\* Several workers, whatever overtakes whatever, change what readers see only in the
\* ways that module Library reckons with: chunk rows of a screened file, replaced all at
\* once and never just removed, READY only with rows, and never back to pending.
ImplementsCorpus == Published!CorpusSpec

\* Safety: outcomes are final and sound, one set of chunk rows is served, starts are
\* bounded.
KeepsLifecycle == Lifecycle!Spec

\* A single worker, through crashes, duplicates and recoveries, implements the
\* lifecycle: it keeps it, and what can go on does.
ImplementsLifecycle == KeepsLifecycle /\ Lifecycle!GoesOn
=============================================================================
