# A TLA+ model of Attest Guardian

Attest Guardian is a document-intelligence service: users upload documents into
workspaces, background workers turn each document into searchable chunks, and
questions are answered from those chunks with citations, or not answered at all.
This directory holds TLA+ models of its backend (`apps/api/app`), the TLC
configurations that check them on small instances, and TLAPS proofs of the most
important results for instances of any size. Paths below are relative to
`apps/api/app` unless they begin with `docs/`.

Contents

1. The system: components, state, interactions, what is hard about each
2. What is modelled so far, and how it corresponds to the code
3. The runs: what each checks and shows, bounds and fairness
4. The proofs
5. Where the code and its documentation disagree
6. What is only model-checked, and what is not modelled
7. The plan

## 1. The system

Three kinds of process share PostgreSQL, a Redis list and an object store.

```
 browser --HTTP--> API process(es) --SQL--> PostgreSQL <--SQL-- ingestion worker(s)
                       |   |                                        |   |
                       |   +------ RPUSH ---> Redis lists --- BLPOP-+   |
                       +-- put --> object store <------------- get -----+
```

Every HTTP request runs in one database transaction (`db/session.py`,
`get_db_session`): commit when the route returns, rollback when it raises. The
isolation level is PostgreSQL's default, READ COMMITTED, and apart from
`_claim` (SELECT ... FOR UPDATE) no statement in the code locks what
it reads. Rows are written through the ORM: an UPDATE by primary key of the
attributes that changed since they were loaded, with no recheck of what they
were. That combination - read, decide, write by key - is where most of the
hazards of this code lie. Correctness across requests rests on it, on four
unique constraints, and on the claim.

| Component | State it keeps | Operations | What is hard | What makes it correct |
|---|---|---|---|---|
| Ingestion worker (`ingestion/worker.py`) | `ingestion_jobs` (status, stage, attempts), `documents.status`, page and chunk rows, audit log | claim, ten stages, finish, quarantine, fail, requeue stale jobs | several workers, duplicates, crashes between commit and enqueue, a slow worker overtaken by recovery | one worker per job; outcomes final; only screened content stored; bounded attempts; every upload settles |
| Queue (`ingestion/queue.py`) | two Redis lists | enqueue, dequeue, dead_letter, list_dead | pointers to rows that are not committed, or gone on; at most once between pop and claim | losing or doubling an entry does no harm |
| Upload service (`documents/`, `routes/documents.py`) | documents, versions, objects, the job row | validate, dedup, quota, store, enqueue, commit | dedup and quota are counted, then inserted; enqueue before commit; object put before commit | no more documents than allowed; no job lost |
| Database layer (`db/`, migrations) | transactions, row-level security | session_scope, bind_workspace, repositories | see above | commit or rollback as a whole |
| Malware scanner (`ingestion/scanner.py`) | none | scan | - | a hit never reaches a chunk row |
| Accounts and sessions (`auth/service.py`, `routes/auth.py`) | users, refresh_tokens | register, login, refresh, logout | concurrent rotations of one token; writes followed by a raise | a session has one usable token; logout ends it; reuse ends all |
| Rate limiting (`auth/rate_limit.py`, `security/middleware.py`) | a deque of times per key | allow | the window's boundary | never more than `attempts` in a window |
| Workspaces and roles (`routes/workspaces.py`, `auth/permissions.py`) | workspaces, memberships | create, add, change, remove | count-then-write; roles that change between read and write; the ORM's identity map | a workspace keeps an owner; only owners handle privileged roles |
| RAG pipeline (`rag/`) | one `RagState` per question | authorize, analyze, retrieve, generate, verify, decide, compose or abstain | three gates that may withhold an answer after claims exist | answers carry supported, cited claims only; refusals carry none |
| Decision policy (`decision/`) | none | decide | precedence of the tests | contradiction never answers |
| Verification (`verification/`) | none | entailment, signals | text processing | unsupported claims are dropped |
| Retrieval (`retrieval/`, chunk and embedding repositories) | none | lexical and dense search, fusion, hydration | ids and rows come from different statements | only authorized, current chunks |
| Reranking (`reranking/`) | none | rerank, pass-through on failure | scores that do not match the items | never adds a candidate |
| Embeddings (`embeddings/`) | none | batching, retry | a failing batch in the middle | vectors stay aligned with texts |
| Chunking (`chunking/`) | none | split, pack, overlap, provenance check | offsets at the ends | every chunk is the text at its offsets |
| Parsing and OCR (`parsing/`) | none | PDF, text, OCR | library behaviour | - |
| Language (`language/`) | none | detect, normalize, transliterate, spell | characters | - |
| Injection safety (`safety/`) | none | score, threshold, flag or quarantine | aggregation at the threshold | quarantine before storage |
| Citations (`citations/`) | none | resolve against the current row | the row was replaced since | a citation shows what was cited or fails |
| Audit log (`db/repositories/audit.py`) | audit_logs | record, in the caller's transaction | rolled back with it | an outcome and its record commit together |
| Object storage (`storage/`) | S3 objects | put, get | network | - |
| Application shell (`main.py`, `config.py`, schemas, events) | settings | wiring | - | - |
| Web client, CI, containers | none | - | - | - |

Interactions: an upload enqueues a job and commits; a worker dequeues, claims and
works through the stages, each with transactions of its own; retrieval reads
READY documents' chunks that the worker replaces; citations point to chunk ids;
membership decides who may upload and ask; a session decides who is asking.

## 2. What is modelled

| Module | Part of the system | Composed with |
|---|---|---|
| `Ingestion`, `IngestionLoad` | worker, queue, tail of an upload; the same under endless load | implements `JobLifecycle` (one worker) and `Corpus` (any number) |
| `Library` | search and citations while documents change | extends `Corpus` |
| `Uploads` | validation, deduplication, quotas, object, message | - |
| `RagPipeline` | question to answer or refusal | extends `Verification` and `Ranking`, which extend `Order` |
| `Sessions`, `Membership` | accounts and tokens; members of a workspace | - |
| `RateLimit`, `Chunking`, `Embedding`, `InjectionScan` | the two limiters; the chunker and its gate; batches; the scan | run together by `MCServices` |
| `Order`, `DataLemmas` | sorted sets and lists; what every proof needs of data | used by the modules above and by their proofs |

### `Ingestion` (with `JobLifecycle`, `Corpus`, `MCIngestion`, `IngestionProofs`)

The heart of the system: the upload's tail, the two Redis lists and the worker
loop, with crashes. A document has one version and one job (`store_new_document`
creates all three, nothing creates a second), so a job stands for all.

| Model | Code |
|---|---|
| `upload`, `UploadEnqueue`, `UploadCommit`, `UploadRollback` | the open transaction of `store_new_document`, whose message precedes its commit |
| `status`, `stage`, `attempts`, `doc`, `paged`, `chunks`, `audit` | the job row, the document row, the version's page and chunk rows, the audit actions |
| `aged` | jobs for which `updated_at` or `started_at` is older than `stale_after_seconds`: time itself is not modelled, a job simply may grow stale |
| `kind` | what ingestion will find out about the file; chosen once, seen only by the stage that tests it |
| `Dequeue`, `Claim`, `DropMessage` | `process_next`, `_claim`: row lock, so one step |
| `StageValidate` ... `StagePlaceholder`, `AdvanceStage` | `_run_stages`: every stage first commits its name, whoever owns the job by now |
| `PersistPages`, `PersistChunks` | delete and insert of all page rows, of all chunk rows with the audit record of a flagged file |
| `RaiseTransient` | any exception that is neither permanent nor a quarantine, at any point of a run |
| `LoadRow`, then `Finish`, `Quarantine`, `FailRetry`, `FailTerminally` | the two halves of `_finish`, `_quarantine`, `_fail`: an unlocked read of both rows, then the UPDATE of the fields that differed (`skip` holds those that did not) |
| `Publish` | the enqueue or dead-letter push after that commit |
| `SelectStale`, `RequeueStale`, `PublishStale` | the three parts of `requeue_stale`, which runs when a dequeue timed out |
| `Crash` | the process dies, or an exception leaves `process()` and ends `run_forever` |

Abstractions. One step is one transaction, one queue command, or the part of a
stage between two of them; job and document row are loaded in one step although
they are two statements, since every writer writes both in one transaction or
only the job row. Chunk ids are 1 and 2: fresh rows differ from the ones they
replace, which is all the properties ask. A file without text has an empty set of
chunk rows, which is still a set with an identity. Two concurrent replacements of
the same rows hit a unique constraint, which is a transient exception.
`document gone` and `version missing` are not modelled because nothing in the
code deletes either. A failing `queue.enqueue` rolls the upload back, as
`UploadRollback` of a transaction whose message may or may not be on the list.

`IngestionLoad` adds `AnotherUpload`: a job that is over gives its name to a new
document, so that uploads never end. It serves one run, `starved`.

`JobLifecycle` is the abstract specification: what a client of the status API and
of retrieval may rely on. A job waits, is worked on a bounded number of times,
and ends READY, QUARANTINED or FAILED for good; it serves one set of chunk rows,
only when READY, only if every gate let it through. No queue, worker or
transaction appears in it. `Spec` is its safety, `GoesOn` its progress; `Ingestion`
names the first `KeepsLifecycle` and both together `ImplementsLifecycle`.

`Corpus` is the second one: a document as every reader of the database sees it, its
status and its set of chunk rows. It promises less, because it holds with any number
of workers, recovered jobs included: rows belong to screened files, are replaced all
at once and never just removed, a document is READY only with rows, QUARANTINED only
if a gate said so, and never PENDING again. `Ingestion` implements it (property
`ImplementsCorpus`, checked and proved) and `Library` starts from it, so the reader's
side is composed with the worker's through this interface and not with the worker's
whole state.

### `Sessions` (with `MCSessions`, `SessionsProofs`)

Registration, login, refresh rotation, the refusal of unusable tokens, and logout,
as concurrent transactions. A request is *loaded* between the SELECT of its token
and the SELECT of its user, *accepted* when only the commit is left, *refused*
when the route will raise; `revoking` is what its transaction has written so far.
Row locks only order writers, since no writer rechecks anything, so the writes of
a transaction are put into its commit step. `Rollback` is the end of a request
whose route raised: `revoking` is dropped. `session`, `ended` and `raced` are
bookkeeping. `SetActive` is an operator: the code reads `is_active` and never
writes it. Access tokens are stateless and not modelled.

### `Membership` (with `MCMembership`, `MembershipProofs`)

The members of one workspace, and the four requests that change them. A request
reads its actor's role (`get_workspace_context`), its target's role, where needed
the number of owners, and writes, with other commits in between. Three details of
the ORM matter and are in the model: a request about the actor's own membership
sees the role loaded first (`RoleRead`, the identity map); an UPDATE is issued
only if the role differs from the one loaded (`CommitChange`); and a row that was
removed and added again is another row, on which a pending UPDATE fails and a
pending DELETE does nothing (`lost`).

### `Library` (with `ServicesProofs`)

Two requests of a client: a search (`OpenSearch`, `Select`, `Load`, `Respond`) and the
resolution of a citation (`OpenResolve`, `Resolve`, `CommitResolve`). A request is one
transaction under READ COMMITTED, so every statement is a step and sees what the
worker (`Ingest`, any step of `Corpus`) has committed by then. `setting` is the
workspace bound to the transaction (`SET LOCAL`), `enforced` whether the database
role obeys row-level security; `Visible` is the policy, `Own` the filter the
repositories write themselves. `Select` is the lexical search with its limit,
`Load` is `_hydrate`, `Resolution` the checks of `citations/resolver.py` in their
order. A citation (`held`) may be kept for any time and asked for in any workspace;
`Forgeries` are references no search gave. Writing requests in sequence loses nothing:
they write no row that another one reads. The dense search finds nothing against the
database, because INDEXING is a placeholder and no stage stores embeddings.

### `Uploads` (with `LimitsProofs`)

Several uploads to one workspace at a time, a step per statement of
`store_new_document`: size cap and validation, the SELECT that looks for the same hash,
the two counts of the quotas, the insert, the object, the message, the commit; a
rollback is possible everywhere in between. An upload sees committed documents only,
and nothing locks what it counted. `taken` are ids that sequences will not give again.

### `RateLimit` (with `LimitsProofs`)

One client before its route runs. `Refuse` and `Admit` are the middleware, a coroutine
without an await between reading the deque and writing it, so its limiter is one step.
`enforce_auth_rate_limit` is a plain function, which FastAPI runs in a thread pool: its
steps (read the clock, test the head, pop it, count, append) interleave with those of
other threads on the same deque. `shared` notes that two threads have been in it.

### `Chunking` (with `MCChunking`, `ChunkingProofs`)

A page read block by block, of which only the place of words and whitespace, headings and
their levels matter. A block is any text and the blank space before it has any length, as
parsers return them and `_split_blocks` leaves them: runs of blanks inside a block stay, and
so does whitespace at its ends that is not one of `\r\n \t` (a form feed, a no-break space),
of which a block may even consist. Packing of paragraphs, splitting of long ones into windows
snapped to spaces, widening of spans backwards, sections by heading path, tables as they are,
and the gate `validate_chunk_provenance` (`Passes`). The loops of the chunker are recursive functions
over what is left: of a block (`SplitOversized`), of a group of blocks (`PackSpans`), of
its spans (`Flush`). The arithmetic of the spans was compared with
`chunk_page` on random pages when it was written and gave the same spans.

### `Embedding` (with `ServicesProofs`)

`embed_texts`: batches in order, each retried on its own, with the checks of count and
dimension. A provider may fail at any call, or return too few vectors, too many, or
some of the wrong dimension.

### `InjectionScan` (with `ServicesProofs`)

Signals per view of a text (plain, folded, without letter spacing), weights combined in
order with halved diminishing returns, the verdict per chunk, and the seams between
neighbouring chunks. Patterns and decoding are data: a passage is the set of rules
that match in each view. Scores are in millionths.

### `RagPipeline` (with `Verification`, `Ranking`, `Order`, `MCRagPipeline`, `RagPipelineProofs`)

One question through the graph: `Authorize`, the two searches, `Retrieve` (fusion,
hydration, reranking and the sufficiency gate), `Generate`, `Verify`, `Decide`, and
`Compose` or `Abstain`. `Ranking` has reciprocal rank fusion, the rerank threshold,
its pass-through and its count check. `Verification` has the signals of a text
(numbers with units, dates, names, negation), the alignment of a claim with a sentence
and the entailment verdict, on tokens. Chosen freely: both result lists, the chunks
still there at hydration, the reranker's scores, and the claims of a hosted generator;
the extractive one is a function of the evidence (`Extracted`). Scores are exact
multiples of 1/`Unit`, so no comparison depends on rounding. What the code sorts,
`Order` arranges: a member of a finite set comes at the place given by the number of
members before it, which is what a sort returns and can be reasoned about without
running one.

## 3. The runs

Deadlock is checked in every run except `members` and `services`: a
workspace that has lost every owner and admin can be managed by nobody, and the model
stops there as the application does; in `services` a clock, a document
or a list of texts comes to its end.

| Run | Configuration | Shows |
|---|---|---|
| `workers` | 2 workers and, for a clean file before a crash or a second delay, a third; 1 job of any of 7 kinds, 2 attempts, 1 crash, 2 premature recoveries; 961,000 states | `TypeOK`; `OnlyScreenedContent`: what is stored or served has passed every gate, whatever workers overtake each other; `ExclusiveUnlessRecovered`, `RowsAgreeUnlessRecovered`, `TerminalUnlessRecovered`: until `requeue_stale` takes the job from a worker, one worker has it, the rows tell one story and outcomes are final; `HoldersAccountedFor`, `AttemptsBounded`: after that, each recovery adds at most one worker, or claim that a QUEUED row invites, and one start; `ImplementsCorpus`: what readers see changes as `Library` assumes |
| `settles` | 2 workers, 1 job of the same kinds, 2 attempts, 1 crash, 1 premature recovery, under fairness; 355,000 states | `EventuallySettled`: lost messages, early messages and dead workers delay a job but never lose it |
| `solo` | 1 worker, 2 jobs (one flagged, one malware), 2 crashes, under fairness; 360,000 states | `ImplementsLifecycle`: a single worker implements `JobLifecycle`, safety (also proved) and progress |
| `reprocessed` | 2 workers, 1 clean job, no crash, 1 premature recovery | violation of `TerminalForever` (section 5) |
| `deadletter` | 1 worker, 1 corrupt file, 1 crash, under fairness | violation of `EventuallyDeadLettered` (section 5) |
| `starved` | `IngestionLoad`: 1 worker, 1 crash, 2 names of documents, under fairness | violation of `StaleJobsRecovered` (section 5) |
| `rotation` | 2 accounts, 2 concurrent requests, 3 tokens; 1.55 million states | `OneTokenPerSession`, `LoggedOutStaysOut`: a session forks, or outlives its logout, only if two requests held one token as usable at once |
| `reuse` | 1 account, 1 request at a time | violation of `ReuseEndsEverySession` (section 5) |
| `members` | 3 accounts, 2 concurrent requests, 3 roles granted; 810,000 states | `OwnerUnlessRaced`, `PrivilegedByOwners`: which overlaps break the owner rule and the role matrix, and that nothing else does |
| `lastowner` | 2 accounts, 2 concurrent requests | violation of `LastOwnerStays` (section 5) |
| `answers` | 3 chunks, 3 questions, every pair of result lists, every rerank score of two, at most 2 of 7 claims; 1.08 million states | what an answer may carry (`AnswersAreBacked`, `UnwarnedIsClean`), what a refusal may not (`RefusalsRevealNothing`), that a contradiction goes to a human whatever else is supported (`ContradictionWithheld`), when a sentence quoted as it stands is dropped all the same (`VerbatimUnlessEclipsed`), and that fusion, threshold and cuts keep the order (`BestEvidenceFirst`) |
| `services` | each of six services alone, chosen by `part`; 1.13 million states | `SearchIsExact`, `OwnWorkspaceOnly`, `CitationsHold` (Library); `DocumentQuotaBounded`, `StorageQuotaBounded`, `CopiesBounded`, `RowsHaveObjects` (Uploads); `WindowHolds`, `RefusalsAreDue`, `AuthHoldsUnshared` (RateLimit); `RefusedOnlyForLongRuns`, `SplitKeepsContext`, `FiledUnderLastHeading` (Chunking); `VectorsAligned` (Embedding); `ReportIsWorst`, `NeverDiluted` (InjectionScan) |

Bounds, each a CONSTANT. `MaxCrashes` bounds crashes; `MaxDelays` bounds how often
a job that is still queued or held grows stale (a job nobody holds does so
freely). With 2 workers, one recovery already gives two concurrent runs and two
recoveries give a worker overtaken twice; a third worker joins where
`LastJoinsEarly` lets it (the CONSTRAINT of `workers`), because two alone are never more than a
recovered job may have; one crash at every point covers each
window between a commit and the push that follows it, and `solo` takes two, so
that a recovery itself is interrupted. `MaxAttempts = 2` has a first, a last and a
refused attempt. One job is enough where two workers contend, because jobs
interact only through the order of the list and the batch of `requeue_stale`,
which `solo` covers with two. In `rotation` three tokens are a login and two
rotations, or two sessions of one account; two requests give every overlap of two
transactions, and slots are reused, so longer chains appear. In `members` two
slots and three accounts suffice for the longest scenario: a role is read,
others promote and demote around it, the write follows. `Granted` leaves out
`viewer`, which the matrix treats exactly as `member` for managing members.

In `answers`, three chunks are the two that may be kept and one that may be lost at
hydration or cut; the vocabulary has one claim for each rule of the verifier: a number
and its unit, a date, a name, a negation, a wrong quote, an unknown chunk. `Unit` is
the least number that makes every reciprocal rank and percentage exact.

The services share no state, so one run explores each alone instead of their product:
Library with 2 documents in one workspace or two, 2 sets of rows each, limit 1, with
and without row-level security; Uploads with 2 requests, 4 ids, a rollback that loses
one, quotas of 2 documents and 3 bytes; RateLimit with 2 threads, limits of 2 in 2 and
1 in 3 ticks, a clock up to 4; Chunking with windows of 5 overlapping by 3, 3 blocks,
2 pages, blank space of 2 and of 3 between blocks (the overlap reaches over the first
only), words of up to 7, runs of up to 8 blanks, and blocks that begin with, end with or
are only whitespace; Embedding with 5 texts in batches of 2 and 2 attempts, so with a short last
batch; InjectionScan with 3 chunks at the thresholds of the settings (0.5 and 0.8).
Each bound is the least at which the case a property speaks of happens: a second
replacement behind a citation, a count that another commit makes stale, an event that
expires while another thread holds it, a word that does not fit a window.
Symmetry (workers, users, requests) is used only in runs without liveness.

Fairness (`Ingestion!Fairness`): each worker process keeps running, because
`run_forever` loops and its supervisor restarts it; each request's transaction
ends; and time passes for a job nobody holds, so that it grows stale. Nothing is
fair about crashes, exceptions or the ageing of a job in progress. Uploads are
finite, so the queue empties in the end: this is an assumption, not a detail.
Stale jobs are looked for only when a dequeue times out, and run `starved` shows that
under a load that never lets the queue run dry a lost job is never found.

Every property has a mutant: a plausible bug in one mapped definition (a dropped
guard, an off-by-one, a missing write) under which TLC finds the property violated
in the same configuration. The faulty variants stand next to the definitions they
replace and are marked `Fault`.

## 4. The proofs

All theorems hold for every value of the constants, under the named assumptions of the
modules and, where a theorem needs one, a hypothesis in its statement. A component's
proofs are in the module named after it or after the group it is in.

### `DataLemmas`

What the proofs need of data. The library's induction theorems take a predicate as a
parameter, which the provers here cannot instantiate; so `Induction` is stated about the
*set* of the numbers that satisfy it, and follows from the least counterexample
(`LeastNumber`, `LeastSubset`). From it come recursive functions (`Recursion`: a function
by recursion over an interval exists and satisfies its equation), folds and sums over
finite sets (`FoldExists`, `SumAdds`, `SumOfLess`, `SumBounded`), and that `Arranged` sets
list each member once, in order.

### `IngestionProofs`

Eight inductive invariants.

* `TypeInv` (types; a busy worker holds a job) gives `TypeCorrect`. It rests on
  `KindsAssumption` and `NoJobAssumption`.
* `ScreenInv` says what a worker past each gate knows about its file, and which
  rows it has written. `OnlyScreenedContent` alone is not inductive: whether the
  chunk rows about to be stored are admissible depends on gates passed several
  transactions ago. It gives `ScreenedContent`, with no exception for recovered
  jobs.
* `SoleInv` says, of a job that was never recovered, that it has one holder, whose
  view of the row is the row, and attempts left whenever it is QUEUED. It gives
  `ExclusiveWhileUnrecovered`, `RowsTellTheSame` and, through a lemma about one step,
  the action property `TerminalFinal`. It uses `MaxAttemptsAssumption`.
* `CountInv` is an account. A worker that holds a job, or a QUEUED row, is a claim,
  and there are never more than one and one per recovery; a start made, a retry that
  a worker has been granted and not yet written, and a QUEUED row are together at most
  `max_attempts` and one per recovery. The second line is what makes the bound
  inductive: `_fail` decides on attempts it read in another statement, so what must be
  bounded is what has been promised, and the first line bounds how many workers can
  hold promises. It gives `EveryHolderAccountedFor` and `StartsBounded`.
* `HeldInv` is what a worker that still holds a job knows although others may have
  settled it: its document has left PENDING, and a quarantine about to be written was
  due. With the first two it gives `IngestionImplementsCorpus`, for any number of
  workers. A claim maps to `TakeUp` or a stutter, `PersistChunks` to `ReplaceRows`, the
  three outcomes to `Settle` or, when the UPDATE leaves the document row out, a stutter;
  nothing else is seen.
* `SoloInv` is about one worker (`OneWorker`, the hypothesis of
  `SoleWorkerKeepsLifecycle`). Whoever looks for stale jobs holds none, so each RUNNING
  row it finds was left by a crash: recoveries are paid for by crashes, no worker is
  overtaken, and no UPDATE leaves a field out. Every step then is a step of
  `JobLifecycle` or a stutter, which is `KeepsLifecycle`. From the same invariant,
  `SoleWorkerNeverReprocesses`: with one worker `TerminalForever`, the sentence that run
  `reprocessed` refutes, is true through any crashes, duplicates and early recoveries.
* `CommittedInv` and `AttendedInv` say what is at work on a job as long as no worker has
  crashed. A job that was ever claimed is, while RUNNING, in the hands of a worker whose
  last UPDATE will write its status, or, put back to QUEUED, has a message on its way
  that no claim will drop; this needs that nobody claims, retries or recovers a job that
  is not committed. It gives `OnlyTheEnqueueStrands`: without a crash the recovery scan
  is needed for one thing alone, a message that was dequeued before its upload committed.

`EachCrashLosesOneDeadLetter` needs only the types: any step but a crash keeps every failed
document on the list, or in the hands of a worker about to put it there; a crash loses the
one its worker had in hand. It is the exact extent of what run `deadletter` shows.

### `ChunkingProofs`

Pages of any blocks with any blank space between them, any `max_chars` and any overlap below
it, from `ChunkingAssumption` (what `chunk_page` checks of its arguments, and that a block is
not empty). Two layers.

The first says what the recursions return. Each is a function by `Recursion`; the
windows over a block are a `Chain` in which each window is that of `WindowEnd` and begins
where `NextWindow` says; the spans of a group are `Laid` (they begin and end with the
group, ascend, and two in a row belong to two neighbouring blocks or are windows of
one); the drafts of a flush are `Added` to those before (one for each span, reached back
from the draft before it).

The second is two invariants of a page that is being read. `PageInv` has the types, where
pending blocks lie, and that the section path is the label of what comes next.
`FiledUnderTheirHeadings` follows because a heading empties the group before it changes
the label. `PageLaid` has the blocks in their places with only blanks between them, drafts
that ascend, the last draft next to what is pending, and every block either pending or with
all that is not blank kept. Nothing is assumed about whitespace, inside blocks or between them. It gives

* `OnlyLongRunsAreRefused`: a window ends after a blank, or after one character because no
  blank is near. If it holds only blanks, then either its block ends with one, or no word
  ends in the `max_chars` characters from its beginning: `NoWordEnds`, which is a word that
  is still going on there or a run of blanks that fills a window. This is
  `RefusedOnlyForLongRuns`, the two ways and no other;
* `WordsStayWholeOnEveryPage`, whatever the overlap: the window in which a short word
  begins ends after it, and windows of a block leave no gap;
* `NeighborsKeepContext`, for any overlap: a draft that does not overlap its predecessor is
  moved back by the overlap, further to a space, and not before the character after its
  predecessor's first. So it reaches into the predecessor unless that is one character, or
  the blank space between the two is as long as the overlap;
* `NoMoreDraftsThanCharacters`, whatever the overlap: a window may advance by one
  character only, but every draft begins after the one before it, so a page of n
  characters has at most n drafts.

### `RagPipelineProofs`

`IInv` is the conjunction of `Typed`, `Staged` (what each node of the graph has left for
those after it), `Judged` (every verdict is the verifier's about the evidence still at
hand, every claim a candidate it supports), `Ruled` (the decision agrees with the
verdicts and with the warnings) and `Ended` (what was composed or refused agrees with the
decision). The invariants of the run are consequences of different conjuncts:
`AnswersBacked` of what `Assess` means, that is of each of the verifier's separate checks;
`RefusalsSilent` of `Ended`; `ContradictionsWithheld` of `Ruled`, where the order of the
policy's tests matters; `UnwarnedClean` of the averages of confidences, which are integer
quotients; `VerbatimAccepted` of the alignment of a claim with the sentence that shares
most words with it. `BestFirst` is an action property: if both lists put one chunk above
another, its sum of reciprocal ranks is larger, and no step after the fusion reorders
evidence that it keeps. `TypeCorrect` has the types. Assumptions: `PipelineAssumption`
(finitely many chunks, settings that are numbers, limits that are not negative, and at
least one claim, which `rag/generation.py` demands), `VocabularyAssumption` (a word has finitely many
features), `RankingAssumption`, and `ExactRanks` (the unit divides every reciprocal rank:
scores are exact).

### `LimitsProofs`

`Uploads`: every document in the store, and every upload past the quota check,
is counted against the quota; an upload that passed it knows that fewer documents than the
quota were committed then, and each commit since belongs to another open request.
Theorems `DocumentsHaveObjects`, `DocumentQuotaHolds`, `CopiesStayBounded`, from
`UploadsAssumption`. `StorageInv` does it for bytes: what is stored and what uploads past
the check bring is together at most the quota and one file of the largest size for every
upload but one. The check compares with a sum over committed rows, so the invariant is
about sums over changing sets; it gives `StorageQuotaHolds`.

`RateLimit`: the deque holds the end of the list of admissions, and what was
popped had expired. Theorems `GlobalLimitHolds`, `OnlyDueRefusals`, and `AuthLimitHolds`
for one thread at a time, from `RateLimitAssumption`. `AuthLimitHoldsAlone` is the limit as
its docstring has it, for one thread in all (`OneThread`). For any finite number of threads
`AuthOvershootIsBounded` says how far the deque can go: threads that have found room and
not yet recorded count as if they had, so it holds at most one less than the threads above
the limit. That bounds the deque, not the admissions of a window: an event popped by a
second thread no longer counts, which is how more get in.

`UploadsTyped` and `LimitsTyped` are the types.

### `ServicesProofs`

`Library`: `SearchInv` relates what was selected or loaded to the rows as they
are now; the key is that ids of rows only grow, so a row with the id that was read has
the text that was read. The limit needs an argument about cardinality: documents that
match now or have changed since only become more. Theorems `SearchesAreExact`,
`CitationsKeepTheirMeaning`, `WorkspacesStayApart`, from `LibraryAssumption`.

`Embedding`: `VectorsStayAligned`, from `EmbeddingAssumption`: when a batch
begins, the vectors so far are exactly those of the texts before it.

`InjectionScan`: the weights come strongest first, only the first in full, and what is
left of the doubt is rounded down at every signal. Still no set of signals scores more
than one that contains it (`SignalsNeverDilute`), which is proved by comparing the two
lists of weights place by place. `ScanInv` says that the
decision so far is the worst of all verdicts so far, which gives `ReportsTheWorst`. Its
hypothesis, that one high signal alone reaches the score for quarantine if high signals
quarantine, is needed: of the two ways to join the ends of two chunks the scanner judges
the one with the higher score, and with a threshold above 0.9 a view with a high signal,
which policy quarantines at any score, could lose to one that scores higher without any.
The settings have 0.8.

`LibraryTyped`, `EmbeddingTyped` and `ScanTyped` are the types.

The six services are proved about each by itself, while run `services` explores them as one
specification. `EachServiceRuns` joins the two: a step of `MCServices` is a step of one
service and a stutter of the others, so its specification implies all six. Hence
`ServicesTyped` (the run's `TypeOK`) and `ServicesKeepTheirPromises` (fifteen of its
invariants, without any hypothesis). The one left, `ReportIsWorst`, needs the hypothesis on the
threshold named above and is `ReportsTheWorst`.

### `SessionsProofs`, `MembershipProofs`

`SessionInv` adds to the two properties what each open request
holds, that the token it holds is still usable unless somebody else holds it too
(`HeldIsUsable`), and that a second holder has been noted (`HeldByOne`). Theorems
`SessionsTyped`, `SessionsNeverFork`, `LogoutIsFinal`. With one request at a time
(`OneRequest`) no session has raced, so the two hold without their reservation:
`SerialSessionsNeverFork`, `SerialLogoutIsFinal`.

`OwnerInv` says that as long as nothing raced, at most one
request is past the owner count with an owner to take away, and two owners exist
while it is; `Checked` keeps the outcome of the role checks until the commit.
The step from "the count is not 1" to "there are two owners" uses that the
accounts are finite (`UsersAssumption`) and the library's facts about
cardinality. Theorems `MembershipTyped`, `OwnerStays`, `AdminsManageOnlyMembers`; and,
with one request at a time, `SerialLastOwnerStays`: the sentence that run `lastowner`
refutes.

## 5. Where the code and its documentation disagree

Five runs end in a counterexample to a sentence of the documentation.

1. *Terminal states are never reprocessed* (`ingestion/worker.py:6-7`,
   `docs/DEVELOPMENT.md`). True until `requeue_stale` takes a job from a worker
   that is still alive: its SELECT and UPDATE are unlocked, and so are the writes
   that end a run, so a SUCCEEDED job becomes QUEUED again. Run `reprocessed`. No job
   has to grow stale early for it: after a crash, two workers that both select the lost
   job revive it if one requeues it, it is run to its end, and then the other requeues.
   It does take two workers (`SoleWorkerNeverReprocesses`).
2. *Permanent failures are dead-lettered* (`ingestion/worker.py:11-13`). The push
   follows the commit of FAILED; a worker that dies in between leaves a job that
   no recovery looks at. Run `deadletter`; one crash loses one entry at most, and
   nothing else loses any (`EachCrashLosesOneDeadLetter`).
3. *Reusing a revoked token revokes every session* (`docs/DEVELOPMENT.md:38-39`,
   `auth/service.py:98-99`). The revocations are written and the route then
   raises, which rolls them back. Run `reuse`. The integration tests replace
   `get_db_session` and do not show it.
4. *The last owner can never be demoted or removed* (`docs/DEVELOPMENT.md:50-51`).
   Two requests that each take one of two owners away both count two. Run
   `lastowner`. One request at a time keeps the rule (`SerialLastOwnerStays`).
5. *Periodically recovering stale ones* (`run_forever`). Only when a dequeue has timed
   out: while uploads keep coming, a job whose worker died is never looked for, however
   stale. Run `starved`.

For 1 and 4 the passing runs and the proofs say exactly which overlap is needed,
and that there is no other.

Met while reading, and too local for a run of their own:

* `docs/DEVELOPMENT.md:78-79` (and `db/models/enums.py`) has the stages run ... ocr,
  normalizing, chunking, embedding; the worker chunks first, so the stage a client polls
  goes back from chunking to normalizing. No code reads it.
* `chunking/chunker.py:14-15` has oversized paragraphs split into windows with `overlap`
  characters carried between them (asserted by `tests/test_chunking.py:73`). Over a word
  that does not fit a window they advance by one character without any overlap.
* Whitespace inside a block is kept, and a window may hold nothing else; the gate then
  refuses the chunk (`chunking/provenance.py:20`) and the document fails. A page of `a`,
  4000 spaces and `b` does it at the defaults (window 1050..2250), and so does a blank in
  front of a word longer than a window. `_split_blocks` strips `\r\n \t` only, so a block
  that is a single form feed or no-break space, or the last window of a block that ends with
  one, is refused as well. `RefusedOnlyForLongRuns` says that there is no other way.
* `chunking/chunker.py:15-16` has packed chunks "extend backwards by `overlap` so neighboring
  chunks share context". They extend from their own beginning and not from the end of the
  chunk before, so blank space between two blocks that is as long as the overlap takes all of
  it: a paragraph of 1000 characters, 200 newlines and a paragraph of 500 give chunks 0..1000
  and 1050..1700 at the defaults. A chunk of one character is not repeated either.
  `SplitKeepsContext` names these two exceptions (the windows over a long word, above, are
  chunks of one character) and says that there are no more.
* `reranking/service.py:156-158` says that equal scores preserve the incoming order;
  the sort at line 163 breaks ties by chunk id.
* `rerank_raw_score` is said to be absent when no reranker ran; a failed reranker
  passes 0.0 through.
* `rag/verification.py` calls a verbatim sentence trivially entailed. The claim is
  compared with the first sentence that shares most words with it, so an earlier
  sentence with all its words eclipses it (`VerbatimUnlessEclipsed`).
* `auth/rate_limit.py:22` promises at most `attempts` events for each key. On the
  authentication routes threads interleave, and the promise holds only as long as two
  never meet (`AuthHoldsUnshared`); TLC lets up to four in where one is allowed.
* Headings of level 2 without a parent nest: after `## A`, `## B` is filed under
  "A > B".
* The detector's docstring has every match carry offsets into the original text; those
  of the folded and despaced views are only clamped to its length.
* Deduplication also refuses a file whose earlier upload failed or was quarantined.

## 6. What is only model-checked, and what is not modelled

Model-checked, not proved:

* liveness: `EventuallySettled`, and the progress half of `ImplementsLifecycle`
  (`GoesOn`). The proof system has no rules for fairness and ENABLED;
* the runs that end in a violation: TLC's trace is the argument.

Every other property of the passing runs is also a theorem, of the specification that the
run checks. What the runs of violations refute is a theorem under the condition that makes
it true (one worker, one request, one thread) where there is one.

Not modelled:

* parsers, OCR, language processing, tokenisation and patterns: pure conversion of
  data, whose outcomes are the kinds, tokens and rules of the models;
* hashing and the encoding of access tokens, network I/O of the object store and of
  hosted models, HTTP and its schemas, configuration and wiring, the web client;
* the dense search against a database, until a stage stores embeddings;
* tables that nothing writes yet (conversations, messages, claims).

`PROJECT.json` lists every component with its status, and every hazard with the
properties that cover it.

## 7. The plan

Done: `Ingestion` with its two abstract specifications, `Sessions`, `Membership`,
`RagPipeline`, `Library`, `Uploads`, `RateLimit`, `Chunking`, `Embedding`,
`InjectionScan`; as theorems the refinement of `Corpus`, the lifecycle kept by a single
worker, what only a crash can lose, the gates and the order of `RagPipeline`, the quotas,
the limiters, the scan, the chunker, and the composition of the services.

Left, in this order:

1. The dense search in `Library`, once INDEXING stores embeddings: a document's vectors
   and its chunk rows are then two tables replaced at different times.
2. Language analysis of queries, when it decides more than search terms.
3. Progress of `Ingestion` by hand: `OnlyTheEnqueueStrands` is the safety half of the
   argument that jobs settle; the other half needs rules for fairness that the proof
   system lacks.
