-------------------------- MODULE IngestionProofs --------------------------
(***************************************************************************)
(* Theorems about Ingestion, for any set of jobs and workers, any mix of   *)
(* files and any number of attempts, crashes and premature recoveries.     *)
(*                                                                         *)
(* Inductive invariants:                                                   *)
(*   TypeInv     types, and that a busy worker holds a job                 *)
(*   ScreenInv   what a worker past a gate knows about the file            *)
(*   SoleInv     what a job that was never recovered guarantees            *)
(*   CountInv    an account of holders, granted retries and starts         *)
(*   HeldInv     what a holder knows of its document, though others may    *)
(*               have settled it; with it, Ingestion implements Corpus     *)
(*   SoloInv     what a single worker finds; with it, Ingestion implements *)
(*               the safety of JobLifecycle                                *)
(*   CommittedInv, AttendedInv                                             *)
(*               what is at work on a job as long as no worker crashes     *)
(***************************************************************************)
EXTENDS Ingestion, FiniteSetTheorems, TLAPS

-----------------------------------------------------------------------------
(* The inductive invariants.                                                *)

MessagePCs == HoldingPCs \cup {"claim", "publish"}

\* A worker between a dequeue and the end of a run holds a job's message, and
\* one that is ending a run knows how.
WorkerOK(w) ==
    /\ pc[w] \in MessagePCs => msg[w] \in Jobs
    /\ pc[w] \in {"settle", "settling"} => verdict[w] # "none"

TypeInv == TypeOK /\ \A w \in Workers : WorkerOK(w)

\* The run has gone through every stage and will be reported a success.
Succeeding(w) == pc[w] \in {"settle", "settling"} /\ verdict[w] = "ready"

AfterChunks   == {"normalizing", "embedding", "indexing"}
AfterGate     == AfterChunks \cup {"chunks"}
AfterPages    == AfterGate \cup {"chunking"}
AfterParse    == AfterPages \cup {"ocr", "pages"}
AfterScan     == AfterParse \cup {"parsing"}
AfterValidate == AfterScan \cup {"scanning"}

\* Each gate a worker has passed excludes a kind, each write it has made is there.
Passed(w) ==
    LET k == kind[msg[w]]
        beyond(P) == pc[w] \in P \/ Succeeding(w)
    IN /\ beyond(AfterValidate) => k # "corrupt"
       /\ beyond(AfterScan) => k # "malware"
       /\ beyond(AfterParse) => k # "unparsable"
       /\ beyond(AfterGate) => k # "misplaced" /\ (k = "poisoned" => ~ScanInjection)
       /\ beyond(AfterPages) => paged[msg[w]]
       /\ beyond(AfterChunks) => chunks[msg[w]] # 0

ScreenInv == OnlyScreenedContent /\ \A w \in Workers : Passed(w)

\* While a job has never been recovered: one holder at most, which sees the row
\* exactly as it claimed it; and attempts left whenever the job is QUEUED.
Sole(j) ==
    /\ \A w1, w2 \in Workers : Holds(w1, j) /\ Holds(w2, j) => w1 = w2
    /\ \A w \in Workers : Holds(w, j) =>
         /\ status[j] = "running"
         /\ pc[w] = "settling" => skip[w] = {}
         /\ pc[w] = "settling" /\ verdict[w] = "retry" => attempts[j] < MaxAttempts
    /\ attempts[j] <= MaxAttempts
    /\ status[j] = "queued" => attempts[j] < MaxAttempts
    /\ status[j] = "running" => attempts[j] > 0
    /\ status[j] \in {"queued", "running"} => stage[j] # "ready"
    /\ RowsAgree(j)

SoleInv == \A j \in Jobs : recoveries[j] = 0 => Sole(j)

-----------------------------------------------------------------------------
(* Types.                                                                   *)

\* Every state starts well typed.
LEMMA TypeInit == Init => TypeInv
  BY KindsAssumption, NoJobAssumption
  DEF Init, TypeInv, TypeOK, WorkerOK, MessagePCs, HoldingPCs, StagePCs, PCs,
      Uploads, Statuses, Stages, DocStates, Verdicts, NothingFound

\* Committing a stage name changes stage and aged only, within their types.
LEMMA AdvanceStageTypes ==
  ASSUME TypeOK, NEW w \in Workers, NEW s \in Stages, AdvanceStage(w, s)
  PROVE  /\ stage' \in [Jobs -> Stages]
         /\ aged' \in SUBSET Jobs
         /\ status' = status /\ attempts' = attempts
  BY DEF AdvanceStage, TypeOK

\* A run that goes on or ends leaves every worker's locals well formed.
LEMMA RunTypes ==
  ASSUME TypeInv, NEW w \in Workers, pc[w] \in HoldingPCs, msg' = msg,
         \/ \E v \in Verdicts \ {"none"} : EndRun(w, v)
         \/ \E p \in StagePCs : Proceed(w, p)
  PROVE  /\ pc' \in [Workers -> PCs]
         /\ verdict' \in [Workers -> Verdicts]
         /\ \A x \in Workers : WorkerOK(x)'
<1> USE DEF TypeInv, TypeOK, WorkerOK, MessagePCs, HoldingPCs, StagePCs, PCs, Verdicts
<1>1. CASE \E v \in Verdicts \ {"none"} : EndRun(w, v)
  BY <1>1 DEF EndRun
<1>2. CASE \E p \in StagePCs : Proceed(w, p)
  BY <1>2 DEF Proceed
<1> QED
  BY <1>1, <1>2

\* Every step keeps the types and keeps busy workers in possession of a job.
LEMMA TypeStep == TypeInv /\ [Next]_vars => TypeInv'
<1> SUFFICES ASSUME TypeInv, [Next]_vars PROVE TypeInv'
  OBVIOUS
<1> USE NoJobAssumption
    DEF TypeInv, TypeOK, WorkerOK, MessagePCs, HoldingPCs, StagePCs, PCs, Uploads,
        Statuses, Stages, DocStates, AuditActions, Verdicts,
        fileVars, jobVars, docVars, redisVars, workerVars, ghostVars
<1>1. ASSUME NEW j \in Jobs, UploadStep(j) PROVE TypeInv'
  <2>1. CASE UploadEnqueue(j)
    BY <2>1 DEF UploadEnqueue
  <2>2. CASE UploadCommit(j)
    BY <2>2 DEF UploadCommit
  <2>3. CASE UploadRollback(j)
    BY <2>3 DEF UploadRollback
  <2> QED
    BY <1>1, <2>1, <2>2, <2>3 DEF UploadStep
<1>2. ASSUME NEW w \in Workers, WorkerStep(w) PROVE TypeInv'
  <2>1. CASE Dequeue(w)
    BY <2>1 DEF Dequeue
  <2>2. CASE Claim(w)
    BY <2>2 DEF Claim, Claimable
  <2>3. CASE DropMessage(w)
    BY <2>3 DEF DropMessage, Claimable
  <2>4. CASE StageValidate(w)
    <3>1. AdvanceStage(w, "validating") /\ pc[w] \in HoldingPCs /\ InRun /\ UNCHANGED docVars
      BY <2>4 DEF StageValidate
    <3>2. \/ EndRun(w, "failed") \/ Proceed(w, "scanning")
      BY <2>4 DEF StageValidate
    <3> QED
      BY <3>1, <3>2, AdvanceStageTypes, RunTypes DEF InRun
  <2>5. CASE StageScan(w)
    <3>1. AdvanceStage(w, "scanning") /\ pc[w] \in HoldingPCs /\ InRun /\ UNCHANGED docVars
      BY <2>5 DEF StageScan
    <3>2. \/ EndRun(w, "quarantined") \/ Proceed(w, "parsing")
      BY <2>5 DEF StageScan
    <3> QED
      BY <3>1, <3>2, AdvanceStageTypes, RunTypes DEF InRun
  <2>6. CASE StageParse(w)
    <3>1. AdvanceStage(w, "parsing") /\ pc[w] \in HoldingPCs /\ InRun /\ UNCHANGED docVars
      BY <2>6 DEF StageParse
    <3>2. \/ EndRun(w, "failed") \/ Proceed(w, "ocr")
      BY <2>6 DEF StageParse
    <3> QED
      BY <3>1, <3>2, AdvanceStageTypes, RunTypes DEF InRun
  <2>7. CASE StageOcr(w)
    BY <2>7 DEF StageOcr, AdvanceStage, Proceed, InRun
  <2>8. CASE PersistPages(w)
    BY <2>8 DEF PersistPages, Proceed, InRun
  <2>9. CASE StageChunk(w)
    <3>1. AdvanceStage(w, "chunking") /\ pc[w] \in HoldingPCs /\ InRun /\ UNCHANGED docVars
      BY <2>9 DEF StageChunk
    <3>2. \/ EndRun(w, "failed") \/ EndRun(w, "quarantined") \/ Proceed(w, "chunks")
      BY <2>9 DEF StageChunk
    <3> QED
      BY <3>1, <3>2, AdvanceStageTypes, RunTypes DEF InRun
  <2>10. CASE PersistChunks(w)
    BY <2>10 DEF PersistChunks, FreshChunks, Proceed, InRun
  <2>11. CASE StagePlaceholder(w)
    <3>1. /\ pc[w] \in Stages /\ AdvanceStage(w, pc[w])
          /\ pc[w] \in HoldingPCs /\ InRun /\ UNCHANGED docVars
      BY <2>11 DEF StagePlaceholder
    <3>2. \/ EndRun(w, "ready") \/ Proceed(w, "embedding") \/ Proceed(w, "indexing")
      BY <2>11 DEF StagePlaceholder, PlaceholderNext
    <3> QED
      BY <3>1, <3>2, AdvanceStageTypes, RunTypes DEF InRun
  <2>12. CASE RaiseTransient(w)
    <3>1. /\ \/ UNCHANGED jobVars
             \/ pc[w] \in Stages /\ AdvanceStage(w, pc[w])
          /\ pc[w] \in HoldingPCs /\ InRun /\ UNCHANGED docVars
      BY <2>12 DEF RaiseTransient
    <3>2. EndRun(w, "retry")
      BY <2>12 DEF RaiseTransient
    <3> QED
      BY SMTT(60), <3>1, <3>2, AdvanceStageTypes, RunTypes DEF InRun
  <2>13. CASE LoadRow(w)
    BY <2>13 DEF LoadRow, TargetStatus, RetriesLeft
  <2>14. CASE Finish(w)
    BY <2>14 DEF Finish, WriteStatus, WriteField, WriteDoc, Record, ReleaseWorker
  <2>15. CASE Quarantine(w)
    BY <2>15 DEF Quarantine, WriteStatus, WriteField, WriteDoc, Record, ReleaseWorker
  <2>16. CASE FailRetry(w)
    BY <2>16 DEF FailRetry, WriteStatus, WriteField
  <2>17. CASE FailTerminally(w)
    BY <2>17 DEF FailTerminally, WriteStatus, WriteField, WriteDoc, Record
  <2>18. CASE Publish(w)
    <3>1. msg[w] \in Jobs
      BY <2>18 DEF Publish
    <3>2. queue' \in Seq(Jobs) /\ dead' \in SUBSET Jobs
      <4>1. queue \in Seq(Jobs) /\ dead \in SUBSET Jobs
        OBVIOUS
      <4>2. \/ queue' = Append(queue, msg[w]) /\ dead' = dead
            \/ dead' = dead \cup {msg[w]} /\ queue' = queue
        BY <2>18 DEF Publish
      <4> HIDE DEF TypeInv, TypeOK
      <4> QED
        BY <3>1, <4>1, <4>2
    <3>3. ReleaseWorker(w) /\ UNCHANGED <<fileVars, jobVars, docVars, found, ghostVars>>
      BY <2>18 DEF Publish
    <3> QED
      BY <3>2, <3>3 DEF ReleaseWorker
  <2>19. CASE SelectStale(w)
    <3>1. StaleRunning \in SUBSET Jobs /\ StaleQueued \in SUBSET Jobs
      BY DEF StaleRunning, StaleQueued
    <3>2. found' \in [Workers -> [running : SUBSET Jobs, queued : SUBSET Jobs]]
      BY <2>19, <3>1 DEF SelectStale
    <3>3. pc' = [pc EXCEPT ![w] = "idle"] \/ pc' = [pc EXCEPT ![w] = "recover"]
      BY <2>19 DEF SelectStale
    <3> QED
      BY <2>19, <3>2, <3>3 DEF SelectStale
  <2>20. CASE RequeueStale(w)
    BY <2>20 DEF RequeueStale, Outstanding
  <2>21. CASE PublishStale(w)
    BY <2>21 DEF PublishStale, Outstanding
  <2> QED
    BY <1>2, <2>1, <2>2, <2>3, <2>4, <2>5, <2>6, <2>7, <2>8, <2>9, <2>10, <2>11, <2>12, <2>13, <2>14, <2>15, <2>16, <2>17, <2>18, <2>19, <2>20, <2>21 DEF WorkerStep
<1>3. ASSUME NEW j \in Jobs, Age(j) PROVE TypeInv'
  BY <1>3 DEF Age
<1>4. ASSUME NEW w \in Workers, Crash(w) PROVE TypeInv'
  BY <1>4 DEF Crash, ReleaseWorker, NothingFound
<1>5. CASE UNCHANGED vars
  BY <1>5 DEF vars
<1> QED
  BY <1>1, <1>2, <1>3, <1>4, <1>5 DEF Next

\* The rows, the two lists and every worker's locals keep their types in every
\* reachable state.
THEOREM TypeCorrect == Spec => []TypeOK
<1>1. TypeInv => TypeOK
  BY DEF TypeInv
<1> QED
  BY TypeInit, TypeStep, <1>1, PTL DEF Spec

-----------------------------------------------------------------------------
(* Screening.                                                               *)

\* What no step undoes: the file, its pages, its chunks, its audit records.
Grows ==
    /\ kind' = kind
    /\ \A j \in Jobs : /\ paged[j] => paged'[j]
                       /\ chunks[j] # 0 => chunks'[j] # 0
                       /\ audit[j] \subseteq audit'[j]

OthersKeep(w) ==
    \A x \in Workers \ {w} :
        pc'[x] = pc[x] /\ msg'[x] = msg[x] /\ verdict'[x] = verdict[x]

\* Nothing is stored or served that was not before.
ServedSame ==
    \A j \in Jobs :
        /\ chunks'[j] = chunks[j]
        /\ doc'[j] = "ready" => doc[j] = "ready"
        /\ status'[j] = "succeeded" => status[j] = "succeeded"

\* A worker's step leaves what the other workers know true.
LEMMA OthersPassed ==
  ASSUME TypeInv, ScreenInv, Grows, NEW w \in Workers, OthersKeep(w), Passed(w)'
  PROVE  \A x \in Workers : Passed(x)'
<1> SUFFICES ASSUME NEW x \in Workers \ {w} PROVE Passed(x)'
  OBVIOUS
<1>1. Passed(x) /\ WorkerOK(x)
  BY DEF ScreenInv, TypeInv
<1>2. pc'[x] = pc[x] /\ msg'[x] = msg[x] /\ verdict'[x] = verdict[x]
  BY DEF OthersKeep
<1> QED
  BY <1>1, <1>2 DEF Grows, Passed, Succeeding, WorkerOK, MessagePCs, HoldingPCs,
     StagePCs, AfterChunks, AfterGate, AfterPages, AfterParse, AfterScan, AfterValidate

\* A step that stores and serves nothing new keeps what is stored screened.
LEMMA ServedSameScreened ==
  ASSUME TypeInv, OnlyScreenedContent, Grows, ServedSame
  PROVE  OnlyScreenedContent'
  BY DEF OnlyScreenedContent, Grows, ServedSame, Admissible, TypeInv, TypeOK

\* Every step keeps stored content screened and every worker's knowledge true.
LEMMA ScreenStep == TypeInv /\ TypeInv' /\ ScreenInv /\ [Next]_vars => ScreenInv'
<1> SUFFICES ASSUME TypeInv, TypeInv', ScreenInv, [Next]_vars PROVE ScreenInv'
  OBVIOUS
<1> DEFINE Keeps(w) == Grows /\ OthersKeep(w) /\ Passed(w)'
<1> USE DEF fileVars, jobVars, docVars, redisVars, workerVars, ghostVars
<1>1. ASSUME NEW j \in Jobs, UploadStep(j) \/ Age(j) PROVE ScreenInv'
  BY <1>1 DEF UploadStep, UploadEnqueue, UploadCommit, UploadRollback, Age,
     ScreenInv, OnlyScreenedContent, Passed, Succeeding
<1>2. ASSUME NEW w \in Workers, WorkerStep(w) PROVE ScreenInv'
  <2> SUFFICES Keeps(w) /\ OnlyScreenedContent'
    BY OthersPassed DEF ScreenInv
  <2> USE DEF TypeInv, TypeOK, WorkerOK, MessagePCs, HoldingPCs, StagePCs
  <2>0. Passed(w) /\ WorkerOK(w) /\ OnlyScreenedContent
    BY DEF ScreenInv
  <2>1. CASE Dequeue(w)
    <3>1. Grows /\ OthersKeep(w)
      BY <2>1 DEF Dequeue, Grows, OthersKeep
    <3>2. Passed(w)'
      BY <2>1, <2>0 DEF Dequeue, Passed, Succeeding, AfterChunks, AfterGate,
         AfterPages, AfterParse, AfterScan, AfterValidate
    <3>3. ServedSame
      BY <2>1 DEF Dequeue, ServedSame
    <3> QED
      BY <3>1, <3>2, <3>3, <2>0, ServedSameScreened
  <2>2. CASE Claim(w)
    <3>1. Grows /\ OthersKeep(w)
      BY <2>2 DEF Claim, Grows, OthersKeep
    <3>2. Passed(w)'
      BY <2>2, <2>0 DEF Claim, Passed, Succeeding, AfterChunks, AfterGate,
         AfterPages, AfterParse, AfterScan, AfterValidate
    <3>3. ServedSame
      BY <2>2 DEF Claim, ServedSame
    <3> QED
      BY <3>1, <3>2, <3>3, <2>0, ServedSameScreened
  <2>3. CASE DropMessage(w)
    <3>1. Grows /\ OthersKeep(w)
      BY <2>3 DEF DropMessage, Grows, OthersKeep
    <3>2. Passed(w)'
      BY <2>3, <2>0 DEF DropMessage, Passed, Succeeding, AfterChunks, AfterGate,
         AfterPages, AfterParse, AfterScan, AfterValidate
    <3>3. ServedSame
      BY <2>3 DEF DropMessage, ServedSame
    <3> QED
      BY <3>1, <3>2, <3>3, <2>0, ServedSameScreened
  <2>4. CASE StageValidate(w)
    <3>1. Grows /\ OthersKeep(w)
      BY <2>4 DEF StageValidate, AdvanceStage, Proceed, EndRun, InRun, Grows, OthersKeep
    <3>2. Passed(w)'
      BY <2>4, <2>0 DEF StageValidate, AdvanceStage, Proceed, EndRun, InRun, Passed, Succeeding, AfterChunks, AfterGate,
         AfterPages, AfterParse, AfterScan, AfterValidate
    <3>3. ServedSame
      BY <2>4 DEF StageValidate, AdvanceStage, Proceed, EndRun, InRun, ServedSame
    <3> QED
      BY <3>1, <3>2, <3>3, <2>0, ServedSameScreened
  <2>5. CASE StageScan(w)
    <3>1. Grows /\ OthersKeep(w)
      BY <2>5 DEF StageScan, AdvanceStage, Proceed, EndRun, InRun, Grows, OthersKeep
    <3>2. Passed(w)'
      BY <2>5, <2>0 DEF StageScan, AdvanceStage, Proceed, EndRun, InRun, Passed, Succeeding, AfterChunks, AfterGate,
         AfterPages, AfterParse, AfterScan, AfterValidate
    <3>3. ServedSame
      BY <2>5 DEF StageScan, AdvanceStage, Proceed, EndRun, InRun, ServedSame
    <3> QED
      BY <3>1, <3>2, <3>3, <2>0, ServedSameScreened
  <2>6. CASE StageParse(w)
    <3>1. Grows /\ OthersKeep(w)
      BY <2>6 DEF StageParse, AdvanceStage, Proceed, EndRun, InRun, Grows, OthersKeep
    <3>2. Passed(w)'
      BY <2>6, <2>0 DEF StageParse, AdvanceStage, Proceed, EndRun, InRun, Passed, Succeeding, AfterChunks, AfterGate,
         AfterPages, AfterParse, AfterScan, AfterValidate
    <3>3. ServedSame
      BY <2>6 DEF StageParse, AdvanceStage, Proceed, EndRun, InRun, ServedSame
    <3> QED
      BY <3>1, <3>2, <3>3, <2>0, ServedSameScreened
  <2>7. CASE StageOcr(w)
    <3>1. Grows /\ OthersKeep(w)
      BY <2>7 DEF StageOcr, AdvanceStage, Proceed, InRun, Grows, OthersKeep
    <3>2. Passed(w)'
      BY <2>7, <2>0 DEF StageOcr, AdvanceStage, Proceed, InRun, Passed, Succeeding, AfterChunks, AfterGate,
         AfterPages, AfterParse, AfterScan, AfterValidate
    <3>3. ServedSame
      BY <2>7 DEF StageOcr, AdvanceStage, Proceed, InRun, ServedSame
    <3> QED
      BY <3>1, <3>2, <3>3, <2>0, ServedSameScreened
  <2>8. CASE PersistPages(w)
    <3>1. Grows /\ OthersKeep(w)
      BY <2>8 DEF PersistPages, Proceed, InRun, Grows, OthersKeep
    <3>2. Passed(w)'
      BY <2>8, <2>0 DEF PersistPages, Proceed, InRun, Passed, Succeeding, AfterChunks, AfterGate,
         AfterPages, AfterParse, AfterScan, AfterValidate
    <3>3. ServedSame
      BY <2>8 DEF PersistPages, Proceed, InRun, ServedSame
    <3> QED
      BY <3>1, <3>2, <3>3, <2>0, ServedSameScreened
  <2>9. CASE StageChunk(w)
    <3>1. Grows /\ OthersKeep(w)
      BY <2>9 DEF StageChunk, AdvanceStage, Proceed, EndRun, InRun, Grows, OthersKeep
    <3>2. Passed(w)'
      BY <2>9, <2>0 DEF StageChunk, AdvanceStage, Proceed, EndRun, InRun, Passed, Succeeding, AfterChunks, AfterGate,
         AfterPages, AfterParse, AfterScan, AfterValidate
    <3>3. ServedSame
      BY <2>9 DEF StageChunk, AdvanceStage, Proceed, EndRun, InRun, ServedSame
    <3> QED
      BY <3>1, <3>2, <3>3, <2>0, ServedSameScreened
  <2>10. CASE PersistChunks(w)
    <3>1. Grows /\ OthersKeep(w)
      BY <2>10 DEF PersistChunks, FreshChunks, Proceed, InRun, Grows, OthersKeep
    <3>2. Passed(w)'
      BY <2>10, <2>0 DEF PersistChunks, FreshChunks, Proceed, InRun, Passed, Succeeding, AfterChunks, AfterGate,
         AfterPages, AfterParse, AfterScan, AfterValidate
    <3>3. msg[w] \in Jobs /\ kind[msg[w]] \in Admissible /\ paged[msg[w]]
      BY <2>10, <2>0, KindsAssumption DEF PersistChunks, Passed, Admissible, AllKinds,
         AfterChunks, AfterGate, AfterPages, AfterParse, AfterScan, AfterValidate
    <3>4. OnlyScreenedContent'
      <4> SUFFICES ASSUME NEW j \in Jobs, j = msg[w]
                   PROVE  OnlyScreenedContent!(j)'
        BY <2>10, <2>0 DEF PersistChunks, Proceed, InRun, OnlyScreenedContent
      <4> QED
        BY <2>10, <2>0, <3>3 DEF PersistChunks, FreshChunks, Proceed, InRun
    <3> QED
      BY <3>1, <3>2, <3>4
  <2>11. CASE StagePlaceholder(w)
    <3>1. Grows /\ OthersKeep(w)
      BY <2>11 DEF StagePlaceholder, AdvanceStage, Proceed, EndRun, InRun, PlaceholderNext, Grows, OthersKeep
    <3>2. Passed(w)'
      BY <2>11, <2>0 DEF StagePlaceholder, AdvanceStage, Proceed, EndRun, InRun, PlaceholderNext, Passed, Succeeding, AfterChunks, AfterGate,
         AfterPages, AfterParse, AfterScan, AfterValidate
    <3>3. ServedSame
      BY <2>11 DEF StagePlaceholder, AdvanceStage, Proceed, EndRun, InRun, PlaceholderNext, ServedSame
    <3> QED
      BY <3>1, <3>2, <3>3, <2>0, ServedSameScreened
  <2>12. CASE RaiseTransient(w)
    <3>1. Grows /\ OthersKeep(w)
      BY <2>12 DEF RaiseTransient, AdvanceStage, EndRun, InRun, Grows, OthersKeep
    <3>2. Passed(w)'
      BY <2>12, <2>0 DEF RaiseTransient, AdvanceStage, EndRun, InRun, Passed, Succeeding, AfterChunks, AfterGate,
         AfterPages, AfterParse, AfterScan, AfterValidate
    <3>3. ServedSame
      BY <2>12 DEF RaiseTransient, AdvanceStage, EndRun, InRun, ServedSame
    <3> QED
      BY <3>1, <3>2, <3>3, <2>0, ServedSameScreened
  <2>13. CASE LoadRow(w)
    <3>1. Grows /\ OthersKeep(w)
      BY <2>13 DEF LoadRow, Grows, OthersKeep
    <3>2. Passed(w)'
      BY <2>13, <2>0 DEF LoadRow, Passed, Succeeding, AfterChunks, AfterGate,
         AfterPages, AfterParse, AfterScan, AfterValidate
    <3>3. ServedSame
      BY <2>13 DEF LoadRow, ServedSame
    <3> QED
      BY <3>1, <3>2, <3>3, <2>0, ServedSameScreened
  <2>14. CASE Finish(w)
    <3>1. Grows /\ OthersKeep(w)
      BY <2>14 DEF Finish, WriteStatus, WriteField, WriteDoc, Record, ReleaseWorker, Grows, OthersKeep
    <3>2. Passed(w)'
      BY <2>14, <2>0 DEF Finish, WriteStatus, WriteField, WriteDoc, Record, ReleaseWorker, Passed, Succeeding, AfterChunks, AfterGate,
         AfterPages, AfterParse, AfterScan, AfterValidate
    <3>3. OnlyScreenedContent'
      BY <2>14, <2>0 DEF Finish, WriteStatus, WriteField, WriteDoc, Record, ReleaseWorker, OnlyScreenedContent, Admissible, Passed, Succeeding,
         AfterChunks, AfterGate, AfterPages, AfterParse, AfterScan, AfterValidate
    <3> QED
      BY <3>1, <3>2, <3>3
  <2>15. CASE Quarantine(w)
    <3>1. Grows /\ OthersKeep(w)
      BY <2>15 DEF Quarantine, WriteStatus, WriteField, WriteDoc, Record, ReleaseWorker, Grows, OthersKeep
    <3>2. Passed(w)'
      BY <2>15, <2>0 DEF Quarantine, WriteStatus, WriteField, WriteDoc, Record, ReleaseWorker, Passed, Succeeding, AfterChunks, AfterGate,
         AfterPages, AfterParse, AfterScan, AfterValidate
    <3>3. ServedSame
      BY <2>15 DEF Quarantine, WriteStatus, WriteField, WriteDoc, Record, ReleaseWorker, ServedSame
    <3> QED
      BY <3>1, <3>2, <3>3, <2>0, ServedSameScreened
  <2>16. CASE FailRetry(w)
    <3>1. Grows /\ OthersKeep(w)
      BY <2>16 DEF FailRetry, WriteStatus, WriteField, Grows, OthersKeep
    <3>2. Passed(w)'
      BY <2>16, <2>0 DEF FailRetry, WriteStatus, WriteField, Passed, Succeeding, AfterChunks, AfterGate,
         AfterPages, AfterParse, AfterScan, AfterValidate
    <3>3. ServedSame
      BY <2>16 DEF FailRetry, WriteStatus, WriteField, ServedSame
    <3> QED
      BY <3>1, <3>2, <3>3, <2>0, ServedSameScreened
  <2>17. CASE FailTerminally(w)
    <3>1. Grows /\ OthersKeep(w)
      BY <2>17 DEF FailTerminally, WriteStatus, WriteField, WriteDoc, Record, Grows, OthersKeep
    <3>2. Passed(w)'
      BY <2>17, <2>0 DEF FailTerminally, WriteStatus, WriteField, WriteDoc, Record, Passed, Succeeding, AfterChunks, AfterGate,
         AfterPages, AfterParse, AfterScan, AfterValidate
    <3>3. ServedSame
      BY <2>17 DEF FailTerminally, WriteStatus, WriteField, WriteDoc, Record, ServedSame
    <3> QED
      BY <3>1, <3>2, <3>3, <2>0, ServedSameScreened
  <2>18. CASE Publish(w)
    <3>1. Grows /\ OthersKeep(w)
      BY <2>18 DEF Publish, ReleaseWorker, Grows, OthersKeep
    <3>2. Passed(w)'
      BY <2>18, <2>0 DEF Publish, ReleaseWorker, Passed, Succeeding, AfterChunks, AfterGate,
         AfterPages, AfterParse, AfterScan, AfterValidate
    <3>3. ServedSame
      BY <2>18 DEF Publish, ReleaseWorker, ServedSame
    <3> QED
      BY <3>1, <3>2, <3>3, <2>0, ServedSameScreened
  <2>19. CASE SelectStale(w)
    <3>1. Grows /\ OthersKeep(w)
      BY <2>19 DEF SelectStale, Grows, OthersKeep
    <3>2. Passed(w)'
      BY <2>19, <2>0 DEF SelectStale, Passed, Succeeding, AfterChunks, AfterGate,
         AfterPages, AfterParse, AfterScan, AfterValidate
    <3>3. ServedSame
      BY <2>19 DEF SelectStale, ServedSame
    <3> QED
      BY <3>1, <3>2, <3>3, <2>0, ServedSameScreened
  <2>20. CASE RequeueStale(w)
    <3>1. Grows /\ OthersKeep(w)
      BY <2>20 DEF RequeueStale, Grows, OthersKeep
    <3>2. Passed(w)'
      BY <2>20, <2>0 DEF RequeueStale, Passed, Succeeding, AfterChunks, AfterGate,
         AfterPages, AfterParse, AfterScan, AfterValidate
    <3>3. ServedSame
      BY <2>20 DEF RequeueStale, ServedSame
    <3> QED
      BY <3>1, <3>2, <3>3, <2>0, ServedSameScreened
  <2>21. CASE PublishStale(w)
    <3>1. Grows /\ OthersKeep(w)
      BY <2>21 DEF PublishStale, Grows, OthersKeep
    <3>2. Passed(w)'
      BY <2>21, <2>0 DEF PublishStale, Passed, Succeeding, AfterChunks, AfterGate,
         AfterPages, AfterParse, AfterScan, AfterValidate
    <3>3. ServedSame
      BY <2>21 DEF PublishStale, ServedSame
    <3> QED
      BY <3>1, <3>2, <3>3, <2>0, ServedSameScreened
  <2> QED
    BY <1>2, <2>1, <2>2, <2>3, <2>4, <2>5, <2>6, <2>7, <2>8, <2>9, <2>10, <2>11, <2>12, <2>13, <2>14, <2>15, <2>16, <2>17, <2>18, <2>19, <2>20, <2>21 DEF WorkerStep
<1>3. ASSUME NEW w \in Workers, Crash(w) PROVE ScreenInv'
  <2>1. Grows /\ OthersKeep(w)
    BY <1>3 DEF Crash, ReleaseWorker, Grows, OthersKeep, TypeInv, TypeOK
  <2>2. Passed(w)'
    BY <1>3 DEF Crash, ReleaseWorker, Passed, Succeeding, AfterChunks, AfterGate,
       AfterPages, AfterParse, AfterScan, AfterValidate, TypeInv, TypeOK
  <2>3. ServedSame
    BY <1>3 DEF Crash, ServedSame
  <2> QED
    BY <2>1, <2>2, <2>3, ServedSameScreened, OthersPassed DEF ScreenInv
<1>4. CASE UNCHANGED vars
  BY <1>4 DEF vars, ScreenInv, OnlyScreenedContent, Passed, Succeeding
<1> QED
  BY <1>1, <1>2, <1>3, <1>4 DEF Next

\* Initially nothing is stored and no worker is past a gate.
LEMMA ScreenInit == Init => ScreenInv
  BY DEF Init, ScreenInv, OnlyScreenedContent, Passed, Succeeding, AfterChunks,
     AfterGate, AfterPages, AfterParse, AfterScan, AfterValidate

\* No chunk of a rejected file is ever stored, flagged chunks come with their
\* audit record, and only a fully indexed document is READY, whatever crashes,
\* duplicate deliveries and recoveries happen.
THEOREM ScreenedContent == Spec => []OnlyScreenedContent
<1>1. ScreenInv => OnlyScreenedContent
  BY DEF ScreenInv
<1> QED
  BY TypeInit, TypeStep, ScreenInit, ScreenStep, <1>1, PTL DEF Spec

-----------------------------------------------------------------------------
(* Exclusiveness.                                                           *)

RowKeeps(j) ==
    /\ status'[j] = status[j] /\ stage'[j] = stage[j]
    /\ attempts'[j] = attempts[j] /\ doc'[j] = doc[j] /\ audit'[j] = audit[j]

\* Nobody new holds j, and those who do have not moved.
HoldersKeep(j) ==
    \A x \in Workers : Holds(x, j)' =>
        /\ Holds(x, j)
        /\ pc'[x] = pc[x] /\ verdict'[x] = verdict[x] /\ skip'[x] = skip[x]

\* Sole(j) only speaks of j's row and of j's holders.
LEMMA UntouchedSole ==
  ASSUME NEW j \in Jobs, Sole(j), RowKeeps(j), HoldersKeep(j)
  PROVE  Sole(j)'
<1>1. \A x \in Workers : Holds(x, j)' =>
        /\ Holds(x, j)
        /\ pc'[x] = pc[x] /\ verdict'[x] = verdict[x] /\ skip'[x] = skip[x]
  BY DEF HoldersKeep
<1>2. RowsAgree(j)'
  BY DEF Sole, RowKeeps, RowsAgree
<1> QED
  BY <1>1, <1>2 DEF Sole, RowKeeps

\* A worker that holds a job moves on within the run: the row stays RUNNING.
LEMMA RunningSole ==
  ASSUME TypeInv, NEW w \in Workers, Sole(msg[w]), pc[w] \in StagePCs,
         msg' = msg, \A x \in Workers \ {w} : pc'[x] = pc[x],
         verdict' \in [Workers -> Verdicts], pc'[w] \in StagePCs \cup {"settle"},
         status' = status, attempts' = attempts, doc' = doc,
         \A j \in Jobs : audit[j] \subseteq audit'[j],
         stage'[msg[w]] # "ready"
  PROVE  Sole(msg[w])'
<1> DEFINE j == msg[w]
<1>1. j \in Jobs /\ Holds(w, j)
  BY DEF TypeInv, WorkerOK, MessagePCs, HoldingPCs, Holds
<1>2. status[j] = "running" /\ \A x \in Workers : Holds(x, j) => x = w
  BY <1>1 DEF Sole
<1>3. \A x \in Workers : Holds(x, j)' => x = w
  BY <1>2 DEF Holds
<1>4. pc'[w] # "settling"
  BY DEF StagePCs
<1>5. RowsAgree(j)'
  BY <1>1, <1>2 DEF RowsAgree, Sole
<1> QED
  BY <1>1, <1>2, <1>3, <1>4, <1>5 DEF Sole

\* Every step keeps what a job that was never recovered guarantees.
LEMMA SoleStep == TypeInv /\ TypeInv' /\ SoleInv /\ [Next]_vars => SoleInv'
<1> SUFFICES ASSUME TypeInv, TypeInv', SoleInv, [Next]_vars,
                    NEW j \in Jobs, recoveries'[j] = 0
             PROVE  Sole(j)'
  BY DEF SoleInv
<1> USE DEF fileVars, jobVars, docVars, redisVars, workerVars, ghostVars
<1>0. recoveries[j] = 0 => Sole(j)
  BY DEF SoleInv
<1>1. ASSUME NEW i \in Jobs, UploadStep(i) \/ Age(i) PROVE Sole(j)'
  <2>1. RowKeeps(j) /\ HoldersKeep(j) /\ recoveries[j] = 0
    BY <1>1 DEF UploadStep, UploadEnqueue, UploadCommit, UploadRollback, Age,
       RowKeeps, HoldersKeep, Holds
  <2> QED
    BY <1>0, <2>1, UntouchedSole
<1>2. ASSUME NEW w \in Workers, WorkerStep(w) PROVE Sole(j)'
  <2> USE DEF TypeInv, TypeOK, WorkerOK, MessagePCs, HoldingPCs, StagePCs
  <2>0. ASSUME recoveries[j] = 0, RowKeeps(j), HoldersKeep(j) PROVE Sole(j)'
    BY <1>0, <2>0, UntouchedSole
  <2>1. CASE Dequeue(w)
    <3>1. recoveries[j] = 0 /\ RowKeeps(j) /\ HoldersKeep(j)
      BY <2>1 DEF Dequeue, RowKeeps, HoldersKeep, Holds
    <3> QED
      BY <3>1, <2>0
  <2>2. CASE DropMessage(w)
    <3>1. recoveries[j] = 0 /\ RowKeeps(j) /\ HoldersKeep(j)
      BY <2>2 DEF DropMessage, RowKeeps, HoldersKeep, Holds
    <3> QED
      BY <3>1, <2>0
  <2>3. CASE Publish(w)
    <3>1. recoveries[j] = 0 /\ RowKeeps(j) /\ HoldersKeep(j)
      BY <2>3 DEF Publish, ReleaseWorker, RowKeeps, HoldersKeep, Holds
    <3> QED
      BY <3>1, <2>0
  <2>4. CASE SelectStale(w)
    <3>1. recoveries[j] = 0 /\ RowKeeps(j) /\ HoldersKeep(j)
      BY <2>4 DEF SelectStale, RowKeeps, HoldersKeep, Holds
    <3> QED
      BY <3>1, <2>0
  <2>5. CASE RequeueStale(w)
    <3>1. recoveries[j] = 0 /\ RowKeeps(j) /\ HoldersKeep(j)
      BY <2>5 DEF RequeueStale, RowKeeps, HoldersKeep, Holds
    <3> QED
      BY <3>1, <2>0
  <2>6. CASE PublishStale(w)
    <3>1. recoveries[j] = 0 /\ RowKeeps(j) /\ HoldersKeep(j)
      BY <2>6 DEF PublishStale, RowKeeps, HoldersKeep, Holds
    <3> QED
      BY <3>1, <2>0
  <2>7. CASE Claim(w)
    <3>1. CASE j # msg[w]
      <4>1. recoveries[j] = 0 /\ RowKeeps(j) /\ HoldersKeep(j)
        BY <2>7, <3>1 DEF Claim, RowKeeps, HoldersKeep, Holds
      <4> QED
        BY <4>1, <2>0
    <3>2. CASE j = msg[w]
      <4>1. Sole(j) /\ status[j] = "queued"
        BY <1>0, <2>7, <3>2 DEF Claim, Claimable
      <4>2. \A x \in Workers : ~Holds(x, j)
        BY <4>1 DEF Sole
      <4>3. \A x \in Workers : Holds(x, j)' => x = w
        BY <2>7, <4>2 DEF Claim, Holds
      <4>4. /\ status'[j] = "running" /\ attempts'[j] = attempts[j] + 1
            /\ stage' = stage /\ doc'[j] = "processing" /\ pc'[w] = "validating"
        BY <2>7, <3>2 DEF Claim
      <4>5. RowsAgree(j)'
        BY <4>4 DEF RowsAgree
      <4>6. attempts[j] \in Nat /\ attempts[j] < MaxAttempts /\ stage[j] # "ready"
        BY <4>1 DEF Sole
      <4> QED
        BY <4>3, <4>4, <4>5, <4>6, MaxAttemptsAssumption DEF Sole
    <3> QED
      BY <3>1, <3>2
  <2>8. CASE StageValidate(w)
    <3>1. CASE j # msg[w]
      <4>1. recoveries[j] = 0 /\ RowKeeps(j) /\ HoldersKeep(j)
        BY <2>8, <3>1 DEF StageValidate, AdvanceStage, Proceed, EndRun, InRun, RowKeeps, HoldersKeep, Holds
      <4> QED
        BY <4>1, <2>0
    <3>2. CASE j = msg[w]
      <4>1. recoveries[j] = 0 /\ Sole(j)
        BY <1>0, <2>8 DEF StageValidate, InRun
      <4>2. stage[j] # "ready"
        BY <4>1, <2>8, <3>2 DEF Sole, Holds, StageValidate
      <4>3. /\ status' = status /\ attempts' = attempts /\ doc' = doc
            /\ audit' = audit /\ msg' = msg
            /\ pc[w] \in StagePCs /\ stage'[msg[w]] # "ready"
        BY <2>8, <3>2 DEF StageValidate, AdvanceStage, InRun
      <4>4. \/ EndRun(w, "ready") \/ EndRun(w, "failed") \/ EndRun(w, "quarantined")
            \/ \E next \in StagePCs : Proceed(w, next)
        BY <2>8 DEF StageValidate
      <4>5. /\ \A x \in Workers \ {w} : pc'[x] = pc[x]
            /\ pc'[w] \in StagePCs \cup {"settle"}
        BY <4>4 DEF EndRun, Proceed
      <4>6. verdict' \in [Workers -> Verdicts]
        OBVIOUS
      <4> QED
        BY <3>2, <4>1, <4>3, <4>5, <4>6, RunningSole
    <3> QED
      BY <3>1, <3>2
  <2>9. CASE StageScan(w)
    <3>1. CASE j # msg[w]
      <4>1. recoveries[j] = 0 /\ RowKeeps(j) /\ HoldersKeep(j)
        BY <2>9, <3>1 DEF StageScan, AdvanceStage, Proceed, EndRun, InRun, RowKeeps, HoldersKeep, Holds
      <4> QED
        BY <4>1, <2>0
    <3>2. CASE j = msg[w]
      <4>1. recoveries[j] = 0 /\ Sole(j)
        BY <1>0, <2>9 DEF StageScan, InRun
      <4>2. stage[j] # "ready"
        BY <4>1, <2>9, <3>2 DEF Sole, Holds, StageScan
      <4>3. /\ status' = status /\ attempts' = attempts /\ doc' = doc
            /\ audit' = audit /\ msg' = msg
            /\ pc[w] \in StagePCs /\ stage'[msg[w]] # "ready"
        BY <2>9, <3>2 DEF StageScan, AdvanceStage, InRun
      <4>4. \/ EndRun(w, "ready") \/ EndRun(w, "failed") \/ EndRun(w, "quarantined")
            \/ \E next \in StagePCs : Proceed(w, next)
        BY <2>9 DEF StageScan
      <4>5. /\ \A x \in Workers \ {w} : pc'[x] = pc[x]
            /\ pc'[w] \in StagePCs \cup {"settle"}
        BY <4>4 DEF EndRun, Proceed
      <4>6. verdict' \in [Workers -> Verdicts]
        OBVIOUS
      <4> QED
        BY <3>2, <4>1, <4>3, <4>5, <4>6, RunningSole
    <3> QED
      BY <3>1, <3>2
  <2>10. CASE StageParse(w)
    <3>1. CASE j # msg[w]
      <4>1. recoveries[j] = 0 /\ RowKeeps(j) /\ HoldersKeep(j)
        BY <2>10, <3>1 DEF StageParse, AdvanceStage, Proceed, EndRun, InRun, RowKeeps, HoldersKeep, Holds
      <4> QED
        BY <4>1, <2>0
    <3>2. CASE j = msg[w]
      <4>1. recoveries[j] = 0 /\ Sole(j)
        BY <1>0, <2>10 DEF StageParse, InRun
      <4>2. stage[j] # "ready"
        BY <4>1, <2>10, <3>2 DEF Sole, Holds, StageParse
      <4>3. /\ status' = status /\ attempts' = attempts /\ doc' = doc
            /\ audit' = audit /\ msg' = msg
            /\ pc[w] \in StagePCs /\ stage'[msg[w]] # "ready"
        BY <2>10, <3>2 DEF StageParse, AdvanceStage, InRun
      <4>4. \/ EndRun(w, "ready") \/ EndRun(w, "failed") \/ EndRun(w, "quarantined")
            \/ \E next \in StagePCs : Proceed(w, next)
        BY <2>10 DEF StageParse
      <4>5. /\ \A x \in Workers \ {w} : pc'[x] = pc[x]
            /\ pc'[w] \in StagePCs \cup {"settle"}
        BY <4>4 DEF EndRun, Proceed
      <4>6. verdict' \in [Workers -> Verdicts]
        OBVIOUS
      <4> QED
        BY <3>2, <4>1, <4>3, <4>5, <4>6, RunningSole
    <3> QED
      BY <3>1, <3>2
  <2>11. CASE StageOcr(w)
    <3>1. CASE j # msg[w]
      <4>1. recoveries[j] = 0 /\ RowKeeps(j) /\ HoldersKeep(j)
        BY <2>11, <3>1 DEF StageOcr, AdvanceStage, Proceed, InRun, RowKeeps, HoldersKeep, Holds
      <4> QED
        BY <4>1, <2>0
    <3>2. CASE j = msg[w]
      <4>1. recoveries[j] = 0 /\ Sole(j)
        BY <1>0, <2>11 DEF StageOcr, InRun
      <4>2. stage[j] # "ready"
        BY <4>1, <2>11, <3>2 DEF Sole, Holds, StageOcr
      <4> QED
        BY <2>11, <3>2, <4>1, <4>2, RunningSole DEF StageOcr, AdvanceStage, Proceed, InRun
    <3> QED
      BY <3>1, <3>2
  <2>12. CASE PersistPages(w)
    <3>1. CASE j # msg[w]
      <4>1. recoveries[j] = 0 /\ RowKeeps(j) /\ HoldersKeep(j)
        BY <2>12, <3>1 DEF PersistPages, Proceed, InRun, RowKeeps, HoldersKeep, Holds
      <4> QED
        BY <4>1, <2>0
    <3>2. CASE j = msg[w]
      <4>1. recoveries[j] = 0 /\ Sole(j)
        BY <1>0, <2>12 DEF PersistPages, InRun
      <4>2. stage[j] # "ready"
        BY <4>1, <2>12, <3>2 DEF Sole, Holds, PersistPages
      <4> QED
        BY <2>12, <3>2, <4>1, <4>2, RunningSole DEF PersistPages, Proceed, InRun
    <3> QED
      BY <3>1, <3>2
  <2>13. CASE StageChunk(w)
    <3>1. CASE j # msg[w]
      <4>1. recoveries[j] = 0 /\ RowKeeps(j) /\ HoldersKeep(j)
        BY <2>13, <3>1 DEF StageChunk, AdvanceStage, Proceed, EndRun, InRun, RowKeeps, HoldersKeep, Holds
      <4> QED
        BY <4>1, <2>0
    <3>2. CASE j = msg[w]
      <4>1. recoveries[j] = 0 /\ Sole(j)
        BY <1>0, <2>13 DEF StageChunk, InRun
      <4>2. stage[j] # "ready"
        BY <4>1, <2>13, <3>2 DEF Sole, Holds, StageChunk
      <4> QED
        BY <2>13, <3>2, <4>1, <4>2, RunningSole DEF StageChunk, AdvanceStage, Proceed, EndRun, InRun
    <3> QED
      BY <3>1, <3>2
  <2>14. CASE PersistChunks(w)
    <3>1. CASE j # msg[w]
      <4>1. recoveries[j] = 0 /\ RowKeeps(j) /\ HoldersKeep(j)
        BY <2>14, <3>1 DEF PersistChunks, Proceed, InRun, RowKeeps, HoldersKeep, Holds
      <4> QED
        BY <4>1, <2>0
    <3>2. CASE j = msg[w]
      <4>1. recoveries[j] = 0 /\ Sole(j)
        BY <1>0, <2>14 DEF PersistChunks, InRun
      <4>2. stage[j] # "ready"
        BY <4>1, <2>14, <3>2 DEF Sole, Holds, PersistChunks
      <4> QED
        BY <2>14, <3>2, <4>1, <4>2, RunningSole DEF PersistChunks, Proceed, InRun
    <3> QED
      BY <3>1, <3>2
  <2>15. CASE StagePlaceholder(w)
    <3>1. CASE j # msg[w]
      <4>1. recoveries[j] = 0 /\ RowKeeps(j) /\ HoldersKeep(j)
        BY <2>15, <3>1 DEF StagePlaceholder, AdvanceStage, Proceed, EndRun, InRun, PlaceholderNext, RowKeeps, HoldersKeep, Holds
      <4> QED
        BY <4>1, <2>0
    <3>2. CASE j = msg[w]
      <4>1. recoveries[j] = 0 /\ Sole(j)
        BY <1>0, <2>15 DEF StagePlaceholder, InRun
      <4>2. stage[j] # "ready"
        BY <4>1, <2>15, <3>2 DEF Sole, Holds, StagePlaceholder
      <4>3. /\ status' = status /\ attempts' = attempts /\ doc' = doc
            /\ audit' = audit /\ msg' = msg
            /\ pc[w] \in StagePCs /\ stage'[msg[w]] # "ready"
        BY <2>15, <3>2 DEF StagePlaceholder, AdvanceStage, InRun
      <4>4. \/ EndRun(w, "ready") \/ EndRun(w, "failed") \/ EndRun(w, "quarantined")
            \/ \E next \in StagePCs : Proceed(w, next)
        BY <2>15 DEF StagePlaceholder, PlaceholderNext
      <4>5. /\ \A x \in Workers \ {w} : pc'[x] = pc[x]
            /\ pc'[w] \in StagePCs \cup {"settle"}
        BY <4>4 DEF EndRun, Proceed
      <4>6. verdict' \in [Workers -> Verdicts]
        OBVIOUS
      <4> QED
        BY <3>2, <4>1, <4>3, <4>5, <4>6, RunningSole
    <3> QED
      BY <3>1, <3>2
  <2>16. CASE RaiseTransient(w)
    <3>1. CASE j # msg[w]
      <4>1. recoveries[j] = 0 /\ RowKeeps(j) /\ HoldersKeep(j)
        BY <2>16, <3>1 DEF RaiseTransient, AdvanceStage, EndRun, InRun, RowKeeps, HoldersKeep, Holds
      <4> QED
        BY <4>1, <2>0
    <3>2. CASE j = msg[w]
      <4>1. recoveries[j] = 0 /\ Sole(j)
        BY <1>0, <2>16 DEF RaiseTransient, InRun
      <4>2. stage[j] # "ready"
        BY <4>1, <2>16, <3>2 DEF Sole, Holds, RaiseTransient
      <4> QED
        BY <2>16, <3>2, <4>1, <4>2, RunningSole DEF RaiseTransient, AdvanceStage, EndRun, InRun
    <3> QED
      BY <3>1, <3>2
  <2>17. CASE LoadRow(w)
    <3>1. CASE j # msg[w]
      <4>1. recoveries[j] = 0 /\ RowKeeps(j) /\ HoldersKeep(j)
        BY <2>17, <3>1 DEF LoadRow, TargetStatus, RetriesLeft, RowKeeps, HoldersKeep, Holds
      <4> QED
        BY <4>1, <2>0
    <3>2. CASE j = msg[w]
      <4>1. Sole(j) /\ Holds(w, j)
        BY <1>0, <2>17, <3>2 DEF LoadRow, Holds
      <4>2. /\ status[j] = "running" /\ doc[j] = "processing" /\ stage[j] # "ready"
            /\ attempts[j] > 0 /\ attempts[j] <= MaxAttempts
            /\ \A x \in Workers : Holds(x, j) => x = w
        BY <4>1 DEF Sole, RowsAgree
      <4>3. \A x \in Workers : Holds(x, j)' => x = w
        BY <2>17, <4>2 DEF LoadRow, TargetStatus, RetriesLeft, Holds
      <4>4. pc[w] = "settling" => skip[w] = {}
        BY <4>1 DEF Sole
      <4>5. /\ status' = status /\ stage' = stage /\ attempts' = attempts
            /\ doc' = doc /\ audit' = audit /\ msg' = msg
            /\ pc'[w] = "settling"
        BY <2>17 DEF LoadRow
      <4>6. verdict'[w] = "retry" => attempts[j] < MaxAttempts
        BY <2>17, <3>2 DEF LoadRow, RetriesLeft
      <4>7. verdict'[w] \in Verdicts /\ verdict'[w] # "none"
        BY <4>5
      <4>8. verdict'[w] \in {"ready", "quarantined", "retry", "failed"}
        BY <4>7 DEF Verdicts
      <4>9. skip'[w] = {}
        BY <2>17, <3>2, <4>2, <4>8 DEF LoadRow, TargetStatus
      <4>10. RowsAgree(j)'
        BY <4>1, <4>5 DEF Sole, RowsAgree
      <4> QED
        BY <4>2, <4>3, <4>5, <4>6, <4>9, <4>10 DEF Sole
    <3> QED
      BY <3>1, <3>2
  <2>18. CASE Finish(w)
    <3>1. CASE j # msg[w]
      <4>1. recoveries[j] = 0 /\ RowKeeps(j) /\ HoldersKeep(j)
        BY <2>18, <3>1 DEF Finish, WriteStatus, WriteField, WriteDoc, Record, ReleaseWorker, RowKeeps, HoldersKeep, Holds
      <4> QED
        BY <4>1, <2>0
    <3>2. CASE j = msg[w]
      <4>1. Sole(j) /\ Holds(w, j)
        BY <1>0, <2>18, <3>2 DEF Finish, Holds
      <4>2. /\ status[j] = "running" /\ doc[j] = "processing" /\ stage[j] # "ready"
            /\ attempts[j] > 0 /\ attempts[j] <= MaxAttempts
            /\ \A x \in Workers : Holds(x, j) => x = w
        BY <4>1 DEF Sole, RowsAgree
      <4>3. \A x \in Workers : Holds(x, j)' => x = w
        BY <2>18, <4>2 DEF Finish, WriteStatus, WriteField, WriteDoc, Record, ReleaseWorker, Holds
      <4>4. pc[w] = "settling" => skip[w] = {}
        BY <4>1 DEF Sole
      <4> QED
        BY <2>18, <3>2, <4>1, <4>2, <4>3, <4>4
        DEF Finish, WriteStatus, WriteField, WriteDoc, Record, ReleaseWorker, Sole, RowsAgree, Holds
    <3> QED
      BY <3>1, <3>2
  <2>19. CASE Quarantine(w)
    <3>1. CASE j # msg[w]
      <4>1. recoveries[j] = 0 /\ RowKeeps(j) /\ HoldersKeep(j)
        BY <2>19, <3>1 DEF Quarantine, WriteStatus, WriteField, WriteDoc, Record, ReleaseWorker, RowKeeps, HoldersKeep, Holds
      <4> QED
        BY <4>1, <2>0
    <3>2. CASE j = msg[w]
      <4>1. Sole(j) /\ Holds(w, j)
        BY <1>0, <2>19, <3>2 DEF Quarantine, Holds
      <4>2. /\ status[j] = "running" /\ doc[j] = "processing" /\ stage[j] # "ready"
            /\ attempts[j] > 0 /\ attempts[j] <= MaxAttempts
            /\ \A x \in Workers : Holds(x, j) => x = w
        BY <4>1 DEF Sole, RowsAgree
      <4>3. \A x \in Workers : Holds(x, j)' => x = w
        BY <2>19, <4>2 DEF Quarantine, WriteStatus, WriteField, WriteDoc, Record, ReleaseWorker, Holds
      <4>4. pc[w] = "settling" => skip[w] = {}
        BY <4>1 DEF Sole
      <4> QED
        BY <2>19, <3>2, <4>1, <4>2, <4>3, <4>4
        DEF Quarantine, WriteStatus, WriteField, WriteDoc, Record, ReleaseWorker, Sole, RowsAgree, Holds
    <3> QED
      BY <3>1, <3>2
  <2>20. CASE FailRetry(w)
    <3>1. CASE j # msg[w]
      <4>1. recoveries[j] = 0 /\ RowKeeps(j) /\ HoldersKeep(j)
        BY <2>20, <3>1 DEF FailRetry, WriteStatus, WriteField, RowKeeps, HoldersKeep, Holds
      <4> QED
        BY <4>1, <2>0
    <3>2. CASE j = msg[w]
      <4>1. Sole(j) /\ Holds(w, j)
        BY <1>0, <2>20, <3>2 DEF FailRetry, Holds
      <4>2. /\ status[j] = "running" /\ doc[j] = "processing" /\ stage[j] # "ready"
            /\ attempts[j] > 0 /\ attempts[j] <= MaxAttempts
            /\ \A x \in Workers : Holds(x, j) => x = w
        BY <4>1 DEF Sole, RowsAgree
      <4>3. \A x \in Workers : Holds(x, j)' => x = w
        BY <2>20, <4>2 DEF FailRetry, WriteStatus, WriteField, Holds
      <4>4. pc[w] = "settling" => skip[w] = {}
        BY <4>1 DEF Sole
      <4> QED
        BY <2>20, <3>2, <4>1, <4>2, <4>3, <4>4
        DEF FailRetry, WriteStatus, WriteField, Sole, RowsAgree, Holds
    <3> QED
      BY <3>1, <3>2
  <2>21. CASE FailTerminally(w)
    <3>1. CASE j # msg[w]
      <4>1. recoveries[j] = 0 /\ RowKeeps(j) /\ HoldersKeep(j)
        BY <2>21, <3>1 DEF FailTerminally, WriteStatus, WriteField, WriteDoc, Record, RowKeeps, HoldersKeep, Holds
      <4> QED
        BY <4>1, <2>0
    <3>2. CASE j = msg[w]
      <4>1. Sole(j) /\ Holds(w, j)
        BY <1>0, <2>21, <3>2 DEF FailTerminally, Holds
      <4>2. /\ status[j] = "running" /\ doc[j] = "processing" /\ stage[j] # "ready"
            /\ attempts[j] > 0 /\ attempts[j] <= MaxAttempts
            /\ \A x \in Workers : Holds(x, j) => x = w
        BY <4>1 DEF Sole, RowsAgree
      <4>3. \A x \in Workers : Holds(x, j)' => x = w
        BY <2>21, <4>2 DEF FailTerminally, WriteStatus, WriteField, WriteDoc, Record, Holds
      <4>4. pc[w] = "settling" => skip[w] = {}
        BY <4>1 DEF Sole
      <4> QED
        BY <2>21, <3>2, <4>1, <4>2, <4>3, <4>4
        DEF FailTerminally, WriteStatus, WriteField, WriteDoc, Record, Sole, RowsAgree, Holds
    <3> QED
      BY <3>1, <3>2
  <2> QED
    BY <1>2, <2>1, <2>2, <2>3, <2>4, <2>5, <2>6, <2>7, <2>8, <2>9, <2>10, <2>11, <2>12, <2>13, <2>14, <2>15, <2>16, <2>17, <2>18, <2>19, <2>20, <2>21 DEF WorkerStep
<1>3. ASSUME NEW w \in Workers, Crash(w) PROVE Sole(j)'
  <2>1. RowKeeps(j) /\ HoldersKeep(j) /\ recoveries[j] = 0
    BY <1>3 DEF Crash, ReleaseWorker, RowKeeps, HoldersKeep, Holds, TypeInv, TypeOK,
       HoldingPCs, StagePCs
  <2> QED
    BY <1>0, <2>1, UntouchedSole
<1>4. CASE UNCHANGED vars
  <2>1. RowKeeps(j) /\ HoldersKeep(j) /\ recoveries[j] = 0
    BY <1>4 DEF vars, RowKeeps, HoldersKeep, Holds
  <2> QED
    BY <1>0, <2>1, UntouchedSole
<1> QED
  BY <1>1, <1>2, <1>3, <1>4 DEF Next

\* Initially nobody holds anything and no job has been started.
LEMMA SoleInit == Init => SoleInv
  BY MaxAttemptsAssumption
  DEF Init, SoleInv, Sole, Holds, HoldingPCs, StagePCs, RowsAgree

\* TypeInv and SoleInv hold in every reachable state.
LEMMA SoleCorrect == Spec => [](TypeInv /\ SoleInv)
  BY TypeInit, TypeStep, SoleInit, SoleStep, PTL DEF Spec

\* _claim admits one worker per claim: until requeue_stale takes a job from its
\* worker, no duplicate message, retry or crash lets a second worker onto it or
\* changes its status under the worker that runs it.
THEOREM ExclusiveWhileUnrecovered == Spec => []ExclusiveUnlessRecovered
<1>1. SoleInv => ExclusiveUnlessRecovered
  BY DEF SoleInv, Sole, ExclusiveUnlessRecovered
<1> QED
  BY SoleCorrect, <1>1, PTL

\* The job row, the document row and the audit log of a job that was never
\* recovered tell the same story in every state.
THEOREM RowsTellTheSame == Spec => []RowsAgreeUnlessRecovered
<1>1. SoleInv => RowsAgreeUnlessRecovered
  BY DEF SoleInv, Sole, RowsAgreeUnlessRecovered
<1> QED
  BY SoleCorrect, <1>1, PTL

-----------------------------------------------------------------------------
(* Finality.                                                                *)

Final(j) ==
    /\ Settled(j) => status'[j] = status[j] /\ doc'[j] = doc[j]
    /\ doc[j] = "ready" => chunks'[j] = chunks[j]

\* The row of a finished job that was never recovered, or of a READY document,
\* is neither claimable nor in any worker's hands.
LEMMA OverUnheld ==
  ASSUME TypeInv, NEW j \in Jobs, Sole(j), Settled(j) \/ doc[j] = "ready"
  PROVE  status[j] \in Terminal /\ \A w \in Workers : ~Holds(w, j)
<1>1. status[j] \in Terminal
  BY DEF Settled, Terminal, Sole, RowsAgree, TypeInv, TypeOK, Statuses
<1> QED
  BY <1>1 DEF Terminal, Sole

\* No step takes a job that was never recovered out of a terminal state or
\* replaces the chunks of its READY document.
LEMMA FinalStep ==
  ASSUME TypeInv, SoleInv, [Next]_vars, NEW j \in Jobs, recoveries'[j] = 0
  PROVE  Final(j)
<1> SUFFICES ASSUME Settled(j) \/ doc[j] = "ready" PROVE Final(j)
  BY DEF Final
<1> USE DEF fileVars, jobVars, docVars, redisVars, workerVars, ghostVars
<1> DEFINE Kept == status'[j] = status[j] /\ doc'[j] = doc[j] /\ chunks'[j] = chunks[j]
<1>0. ASSUME recoveries[j] = 0
      PROVE  status[j] \in Terminal /\ \A w \in Workers : ~Holds(w, j)
  BY <1>0, OverUnheld DEF SoleInv
<1>1. ASSUME NEW i \in Jobs, UploadStep(i) \/ Age(i) PROVE Kept
  BY <1>1 DEF UploadStep, UploadEnqueue, UploadCommit, UploadRollback, Age
<1>2. ASSUME NEW w \in Workers, WorkerStep(w) PROVE Kept
  <2> USE DEF TypeInv, TypeOK, WorkerOK, MessagePCs, HoldingPCs, StagePCs
  <2>1. CASE Dequeue(w) \/ DropMessage(w) \/ Publish(w) \/ SelectStale(w) \/ PublishStale(w)
    BY <2>1 DEF Dequeue, DropMessage, Publish, SelectStale, PublishStale
  <2>2. CASE Claim(w)
    <3>1. status[j] # "queued"
      BY <1>0, <2>2 DEF Claim, Terminal
    <3>2. msg[w] # j
      BY <2>2, <3>1 DEF Claim, Claimable
    <3> QED
      BY <2>2, <3>2 DEF Claim
  <2>3. CASE RequeueStale(w)
    <3>1. j \notin found[w].running
      BY <2>3 DEF RequeueStale
    <3> QED
      BY <2>3, <3>1 DEF RequeueStale
  <2>4. CASE StageValidate(w)
    <3>1. msg[w] # j
      BY <1>0, <2>4 DEF StageValidate, InRun, Holds
    <3> QED
      BY <2>4, <3>1 DEF StageValidate, AdvanceStage, InRun
  <2>5. CASE StageScan(w)
    <3>1. msg[w] # j
      BY <1>0, <2>5 DEF StageScan, InRun, Holds
    <3> QED
      BY <2>5, <3>1 DEF StageScan, AdvanceStage, InRun
  <2>6. CASE StageParse(w)
    <3>1. msg[w] # j
      BY <1>0, <2>6 DEF StageParse, InRun, Holds
    <3> QED
      BY <2>6, <3>1 DEF StageParse, AdvanceStage, InRun
  <2>7. CASE StageOcr(w)
    <3>1. msg[w] # j
      BY <1>0, <2>7 DEF StageOcr, InRun, Holds
    <3> QED
      BY <2>7, <3>1 DEF StageOcr, AdvanceStage, InRun
  <2>8. CASE PersistPages(w)
    <3>1. msg[w] # j
      BY <1>0, <2>8 DEF PersistPages, InRun, Holds
    <3> QED
      BY <2>8, <3>1 DEF PersistPages, InRun
  <2>9. CASE StageChunk(w)
    <3>1. msg[w] # j
      BY <1>0, <2>9 DEF StageChunk, InRun, Holds
    <3> QED
      BY <2>9, <3>1 DEF StageChunk, AdvanceStage, InRun
  <2>10. CASE PersistChunks(w)
    <3>1. msg[w] # j
      BY <1>0, <2>10 DEF PersistChunks, InRun, Holds
    <3> QED
      BY <2>10, <3>1 DEF PersistChunks, InRun
  <2>11. CASE StagePlaceholder(w)
    <3>1. msg[w] # j
      BY <1>0, <2>11 DEF StagePlaceholder, InRun, Holds
    <3> QED
      BY <2>11, <3>1 DEF StagePlaceholder, AdvanceStage, InRun
  <2>12. CASE RaiseTransient(w)
    <3>1. msg[w] # j
      BY <1>0, <2>12 DEF RaiseTransient, InRun, Holds
    <3> QED
      BY <2>12, <3>1 DEF RaiseTransient, AdvanceStage, InRun
  <2>13. CASE LoadRow(w)
    <3>1. msg[w] # j
      BY <1>0, <2>13 DEF LoadRow, Holds
    <3> QED
      BY <2>13, <3>1 DEF LoadRow
  <2>14. CASE Finish(w)
    <3>1. msg[w] # j
      BY <1>0, <2>14 DEF Finish, Holds
    <3> QED
      BY <2>14, <3>1 DEF Finish, WriteStatus, WriteField, WriteDoc, Record, ReleaseWorker
  <2>15. CASE Quarantine(w)
    <3>1. msg[w] # j
      BY <1>0, <2>15 DEF Quarantine, Holds
    <3> QED
      BY <2>15, <3>1 DEF Quarantine, WriteStatus, WriteField, WriteDoc, Record, ReleaseWorker
  <2>16. CASE FailRetry(w)
    <3>1. msg[w] # j
      BY <1>0, <2>16 DEF FailRetry, Holds
    <3> QED
      BY <2>16, <3>1 DEF FailRetry, WriteStatus, WriteField
  <2>17. CASE FailTerminally(w)
    <3>1. msg[w] # j
      BY <1>0, <2>17 DEF FailTerminally, Holds
    <3> QED
      BY <2>17, <3>1 DEF FailTerminally, WriteStatus, WriteField, WriteDoc, Record
  <2> QED
    BY <1>2, <2>1, <2>2, <2>3, <2>4, <2>5, <2>6, <2>7, <2>8, <2>9, <2>10, <2>11, <2>12, <2>13, <2>14, <2>15, <2>16, <2>17 DEF WorkerStep
<1>3. ASSUME NEW w \in Workers, Crash(w) PROVE Kept
  BY <1>3 DEF Crash
<1>4. CASE UNCHANGED vars
  BY <1>4 DEF vars, Final
<1> QED
  BY <1>1, <1>2, <1>3, <1>4 DEF Next, Final

\* Terminal states are final, and a READY document keeps the chunk rows that
\* citations point to, as long as requeue_stale never took the job from its
\* worker.
THEOREM TerminalFinal == Spec => TerminalUnlessRecovered
<1>1. TypeInv /\ SoleInv /\ [Next]_vars =>
        [\A j \in Jobs : recoveries'[j] = 0 =>
           /\ Settled(j) => status'[j] = status[j] /\ doc'[j] = doc[j]
           /\ doc[j] = "ready" => chunks'[j] = chunks[j]]_vars
  BY FinalStep DEF Final
<1> QED
  BY SoleCorrect, <1>1, PTL DEF Spec, TerminalUnlessRecovered

-----------------------------------------------------------------------------
(* Counting workers and starts.                                             *)

Holders(j) == {w \in Workers : Holds(w, j)}

\* Workers about to put j back: the retry was granted when they loaded the row.
Granted(j) == {w \in Workers : pc[w] = "settling" /\ verdict[w] = "retry" /\ msg[w] = j}

\* One more claim may follow while the row is QUEUED.
Claims(j) == IF status[j] = "queued" THEN 1 ELSE 0

\* Of the first upload and each recovery comes one claim, which a worker holds and
\* gives back for a retry; and of the starts that max_attempts allows, one is left
\* when a retry is granted, whatever other workers claim in the meantime.
Counted(j) ==
    /\ IsFiniteSet(Holders(j))
    /\ Cardinality(Holders(j)) + Claims(j) <= 1 + recoveries[j]
    /\ attempts[j] + Cardinality(Granted(j)) + Claims(j) <= MaxAttempts + recoveries[j]

CountInv == \A j \in Jobs : Counted(j)

\* Granted workers are holders, so both are counted.
LEMMA GrantedHold ==
  ASSUME NEW j \in Jobs, Counted(j)
  PROVE  /\ Granted(j) \subseteq Holders(j) /\ IsFiniteSet(Granted(j))
         /\ Cardinality(Holders(j)) \in Nat /\ Cardinality(Granted(j)) \in Nat
<1>1. Granted(j) \subseteq Holders(j)
  BY DEF Granted, Holders, Holds, HoldingPCs
<1> QED
  BY <1>1, FS_Subset, FS_CardinalityType DEF Counted

\* A step that gives a job no holder, grant, claim or start keeps the account, and
\* so does a recovery, which may add one claim.
LEMMA NothingAdded ==
  ASSUME TypeInv, NEW j \in Jobs, Counted(j),
         Holders(j)' \subseteq Holders(j), Granted(j)' \subseteq Granted(j),
         attempts'[j] = attempts[j],
         \/ recoveries'[j] = recoveries[j] /\ Claims(j)' <= Claims(j)
         \/ recoveries'[j] = recoveries[j] + 1
  PROVE  Counted(j)'
<1>1. /\ IsFiniteSet(Holders(j)') /\ Cardinality(Holders(j)') <= Cardinality(Holders(j))
      /\ Cardinality(Granted(j)') <= Cardinality(Granted(j))
  BY GrantedHold, FS_Subset DEF Counted
<1>2. Cardinality(Holders(j)') \in Nat /\ Cardinality(Granted(j)') \in Nat
  BY <1>1, GrantedHold, FS_Subset, FS_CardinalityType
<1>3. /\ Cardinality(Holders(j)) \in Nat /\ Cardinality(Granted(j)) \in Nat
      /\ attempts[j] \in Nat /\ recoveries[j] \in Nat /\ MaxAttempts \in Nat
      /\ Claims(j) \in {0, 1} /\ Claims(j)' \in {0, 1}
  BY GrantedHold, MaxAttemptsAssumption DEF TypeInv, TypeOK, Claims
<1> QED
  BY <1>1, <1>2, <1>3 DEF Counted

\* A claim turns the QUEUED row into a holder and a start.
LEMMA ClaimCounted ==
  ASSUME TypeInv, CountInv, NEW w \in Workers, Claim(w), NEW j \in Jobs
  PROVE  Counted(j)'
<1>0. Counted(j)
  BY DEF CountInv
<1>1. CASE j # msg[w]
  <2>1. /\ Holders(j)' \subseteq Holders(j) /\ Granted(j)' \subseteq Granted(j)
        /\ attempts'[j] = attempts[j] /\ recoveries'[j] = recoveries[j]
        /\ status'[j] = status[j]
    BY <1>1 DEF Claim, Holders, Granted, Holds, HoldingPCs, TypeInv, TypeOK, ghostVars
  <2> QED
    BY <1>0, <2>1, NothingAdded DEF Claims
<1>2. CASE j = msg[w]
  <2>1. /\ Holders(j)' = Holders(j) \cup {w} /\ Granted(j)' = Granted(j)
        /\ attempts'[j] = attempts[j] + 1 /\ recoveries'[j] = recoveries[j]
        /\ Claims(j) = 1 /\ Claims(j)' = 0
    BY <1>2 DEF Claim, Claimable, Holders, Granted, Holds, HoldingPCs, StagePCs, Claims,
       TypeInv, TypeOK, ghostVars
  <2>2. /\ IsFiniteSet(Holders(j)')
        /\ Cardinality(Holders(j)') <= Cardinality(Holders(j)) + 1
        /\ Cardinality(Holders(j)) \in Nat /\ Cardinality(Granted(j)) \in Nat
        /\ Cardinality(Holders(j)') \in Nat
    BY SMTT(60), <1>0, <2>1, GrantedHold, FS_AddElement, FS_CardinalityType DEF Counted
  <2>3. attempts[j] \in Nat /\ recoveries[j] \in Nat /\ MaxAttempts \in Nat
    BY MaxAttemptsAssumption DEF TypeInv, TypeOK
  <2> QED
    BY <1>0, <2>1, <2>2, <2>3 DEF Counted
<1> QED
  BY <1>1, <1>2

\* A retry is granted only with attempts left, and its worker holds the job already.
LEMMA LoadCounted ==
  ASSUME TypeInv, CountInv, NEW w \in Workers, LoadRow(w), NEW j \in Jobs
  PROVE  Counted(j)'
<1>0. Counted(j)
  BY DEF CountInv
<1>1. /\ attempts' = attempts /\ recoveries' = recoveries /\ status' = status /\ msg' = msg
      /\ pc[w] = "settle" /\ pc' = [pc EXCEPT ![w] = "settling"]
      /\ pc \in [Workers -> PCs] /\ verdict \in [Workers -> Verdicts]
      /\ verdict' = [verdict EXCEPT ![w] =
            IF verdict[w] = "retry" /\ ~RetriesLeft(msg[w]) THEN "failed" ELSE verdict[w]]
  BY DEF LoadRow, TypeInv, TypeOK, jobVars, ghostVars
<1>2. Holders(j)' = Holders(j) /\ Claims(j)' = Claims(j)
  BY <1>1 DEF Holders, Holds, HoldingPCs, Claims
<1>3. CASE j = msg[w] /\ verdict[w] = "retry" /\ RetriesLeft(j)
  <2>1. Granted(j)' = Granted(j) \cup {w} /\ w \notin Granted(j) /\ w \in Holders(j)
    BY <1>1, <1>3 DEF Granted, Holders, Holds, HoldingPCs
  <2>2. /\ Cardinality(Granted(j)') = Cardinality(Granted(j)) + 1
        /\ Cardinality(Granted(j)') <= Cardinality(Holders(j))
    BY <1>0, <2>1, GrantedHold, FS_AddElement, FS_Subset DEF Counted
  <2>3. /\ Cardinality(Holders(j)) \in Nat /\ Cardinality(Granted(j)) \in Nat
        /\ attempts[j] \in Nat /\ recoveries[j] \in Nat /\ MaxAttempts \in Nat
        /\ Claims(j) \in {0, 1} /\ attempts[j] < MaxAttempts
    BY <1>0, <1>3, GrantedHold, MaxAttemptsAssumption DEF TypeInv, TypeOK, Claims, RetriesLeft
  <2> QED
    BY <1>0, <1>1, <1>2, <2>2, <2>3 DEF Counted
<1>4. CASE ~(j = msg[w] /\ verdict[w] = "retry" /\ RetriesLeft(j))
  <2>1. Granted(j)' \subseteq Granted(j)
    BY <1>1, <1>4 DEF Granted
  <2> QED
    BY <1>0, <1>1, <1>2, <2>1, NothingAdded DEF Claims
<1> QED
  BY <1>3, <1>4

\* Putting a job back gives up a holder and a grant for a claim.
LEMMA RetryCounted ==
  ASSUME TypeInv, CountInv, NEW w \in Workers, FailRetry(w), NEW j \in Jobs
  PROVE  Counted(j)'
<1>0. Counted(j)
  BY DEF CountInv
<1>1. /\ attempts' = attempts /\ recoveries' = recoveries /\ msg' = msg /\ verdict' = verdict
      /\ pc[w] = "settling" /\ verdict[w] = "retry" /\ pc' = [pc EXCEPT ![w] = "publish"]
      /\ pc \in [Workers -> PCs]
      /\ \A i \in Jobs : i # msg[w] => status'[i] = status[i]
  BY DEF FailRetry, WriteStatus, TypeInv, TypeOK, ghostVars
<1>2. CASE j # msg[w]
  <2>1. /\ Holders(j)' \subseteq Holders(j) /\ Granted(j)' \subseteq Granted(j)
        /\ status'[j] = status[j]
    BY <1>1, <1>2 DEF Holders, Granted, Holds, HoldingPCs
  <2> QED
    BY <1>0, <1>1, <2>1, NothingAdded DEF Claims
<1>3. CASE j = msg[w]
  <2>1. /\ Holders(j)' = Holders(j) \ {w} /\ Granted(j)' = Granted(j) \ {w}
        /\ w \in Holders(j) /\ w \in Granted(j)
    BY <1>1, <1>3 DEF Holders, Granted, Holds, HoldingPCs, StagePCs
  <2>2. /\ IsFiniteSet(Holders(j)')
        /\ Cardinality(Holders(j)') = Cardinality(Holders(j)) - 1
        /\ Cardinality(Granted(j)') = Cardinality(Granted(j)) - 1
    <3>1. IsFiniteSet(Holders(j)) /\ IsFiniteSet(Granted(j))
      BY <1>0, GrantedHold DEF Counted
    <3> QED
      BY <2>1, <3>1, FS_RemoveElement
  <2>3. /\ Cardinality(Holders(j)) \in Nat /\ Cardinality(Granted(j)) \in Nat
        /\ attempts[j] \in Nat /\ recoveries[j] \in Nat /\ MaxAttempts \in Nat
        /\ Claims(j) \in {0, 1} /\ Claims(j)' \in {0, 1}
    BY <1>0, GrantedHold, MaxAttemptsAssumption DEF TypeInv, TypeOK, Claims
  <2> QED
    BY <1>0, <1>1, <2>2, <2>3 DEF Counted
<1> QED
  BY <1>2, <1>3

\* Every step keeps the account.
LEMMA CountStep == TypeInv /\ CountInv /\ [Next]_vars => CountInv'
<1> SUFFICES ASSUME TypeInv, CountInv, [Next]_vars, NEW j \in Jobs PROVE Counted(j)'
  BY DEF CountInv
<1>0. Counted(j)
  BY DEF CountInv
<1> DEFINE Less == /\ Holders(j)' \subseteq Holders(j) /\ Granted(j)' \subseteq Granted(j)
                   /\ attempts'[j] = attempts[j]
           Same == recoveries'[j] = recoveries[j] /\ (status'[j] = "queued" => status[j] = "queued")
<1>a. Less /\ Same => Counted(j)'
  BY <1>0, NothingAdded DEF Claims
<1> USE DEF fileVars, jobVars, docVars, redisVars, workerVars, ghostVars
<1>1. ASSUME NEW i \in Jobs, UploadStep(i) \/ Age(i) PROVE Counted(j)'
  <2>1. Less /\ Same
    BY <1>1 DEF UploadStep, UploadEnqueue, UploadCommit, UploadRollback, Age, Holders,
       Granted, Holds
  <2> QED
    BY <1>a, <2>1
<1>2. ASSUME NEW w \in Workers, WorkerStep(w) PROVE Counted(j)'
  <2> USE DEF Holders, Granted, Holds, HoldingPCs, StagePCs, TypeInv, TypeOK
  <2>1. CASE Dequeue(w) \/ DropMessage(w) \/ Publish(w) \/ SelectStale(w) \/ PublishStale(w)
    <3>1. Less /\ Same
      BY <2>1 DEF Dequeue, DropMessage, Publish, SelectStale, PublishStale, ReleaseWorker
    <3> QED
      BY <1>a, <3>1
  <2>2. CASE \/ StageValidate(w) \/ StageScan(w) \/ StageParse(w) \/ StageOcr(w)
             \/ PersistPages(w) \/ StageChunk(w) \/ PersistChunks(w)
             \/ StagePlaceholder(w) \/ RaiseTransient(w)
    <3>1. /\ pc[w] \in StagePCs /\ msg' = msg /\ status' = status /\ attempts' = attempts
          /\ recoveries' = recoveries /\ \A x \in Workers \ {w} : pc'[x] = pc[x] /\ verdict'[x] = verdict[x]
          /\ pc'[w] # "settling"
      BY <2>2 DEF StageValidate, StageScan, StageParse, StageOcr, PersistPages, StageChunk,
         PersistChunks, StagePlaceholder, RaiseTransient, AdvanceStage, Proceed, EndRun,
         PlaceholderNext, InRun
    <3>2. Less /\ Same
      BY <3>1
    <3> QED
      BY <1>a, <3>2
  <2>3. CASE Finish(w) \/ Quarantine(w) \/ FailTerminally(w)
    <3>1. Less
      BY <2>3 DEF Finish, Quarantine, FailTerminally, ReleaseWorker
    <3>2. Same
      BY <2>3 DEF Finish, Quarantine, FailTerminally, WriteStatus, WriteField
    <3> QED
      BY <1>a, <3>1, <3>2
  <2>4. CASE RequeueStale(w)
    <3>1. Less
      BY <2>4 DEF RequeueStale
    <3>2. \/ Same
          \/ recoveries'[j] = recoveries[j] + 1
      BY <2>4 DEF RequeueStale
    <3> QED
      BY <1>0, <1>a, <3>1, <3>2, NothingAdded
  <2> QED
    BY <1>2, <2>1, <2>2, <2>3, <2>4, ClaimCounted, LoadCounted, RetryCounted DEF WorkerStep
<1>3. ASSUME NEW w \in Workers, Crash(w) PROVE Counted(j)'
  <2>1. Less /\ Same
    BY <1>3 DEF Crash, ReleaseWorker, Holders, Granted, Holds, HoldingPCs, StagePCs,
       TypeInv, TypeOK
  <2> QED
    BY <1>a, <2>1
<1>4. CASE UNCHANGED vars
  BY <1>4, <1>0, <1>a DEF vars, Holders, Granted, Holds
<1> QED
  BY <1>1, <1>2, <1>3, <1>4 DEF Next

\* Nobody holds a job before it is uploaded.
LEMMA CountInit == Init => CountInv
<1> SUFFICES ASSUME Init, NEW j \in Jobs PROVE Counted(j)
  BY DEF CountInv
<1>1. Holders(j) = {} /\ Granted(j) = {}
  BY DEF Init, Holders, Granted, Holds, HoldingPCs, StagePCs
<1> QED
  BY <1>1, FS_EmptySet, MaxAttemptsAssumption DEF Init, Counted, Claims

LEMMA CountCorrect == Spec => [](TypeInv /\ CountInv)
  BY TypeInit, TypeStep, CountInit, CountStep, PTL DEF Spec

\* Every worker on a job, and the claim its row invites, comes from the upload or from one
\* recovery: duplicated messages, retries and overtaken workers add none.
THEOREM EveryHolderAccountedFor == Spec => []HoldersAccountedFor
<1>1. TypeInv /\ CountInv => HoldersAccountedFor
  <2> SUFFICES ASSUME TypeInv, CountInv, NEW j \in Jobs
               PROVE  Cardinality({w \in Workers : Holds(w, j)})
                        + (IF status[j] = "queued" THEN 1 ELSE 0) <= 1 + recoveries[j]
    BY DEF HoldersAccountedFor
  <2>1. Counted(j) /\ Cardinality(Holders(j)) \in Nat /\ Claims(j) \in {0, 1}
    BY GrantedHold DEF CountInv, Claims
  <2> QED
    BY <2>1 DEF Counted, Holders, Claims
<1> QED
  BY CountCorrect, <1>1, PTL

\* A job is started at most max_attempts times and once more per recovery, however
\* stale the attempts are on which _fail grants its retries.
THEOREM StartsBounded == Spec => []AttemptsBounded
<1>1. TypeInv /\ CountInv => AttemptsBounded
  <2> SUFFICES ASSUME TypeInv, CountInv, NEW j \in Jobs
               PROVE  attempts[j] <= MaxAttempts + recoveries[j]
    BY DEF AttemptsBounded
  <2>1. Counted(j) /\ Cardinality(Granted(j)) \in Nat /\ Claims(j) \in {0, 1}
    BY GrantedHold DEF CountInv, Claims
  <2> QED
    BY <2>1, MaxAttemptsAssumption DEF Counted, TypeInv, TypeOK
<1> QED
  BY CountCorrect, <1>1, PTL
-----------------------------------------------------------------------------
(* Ingestion implements Corpus, for any number of jobs and workers, with    *)
(* any crashes and any recoveries: what module Library is told about the    *)
(* documents it reads is what the workers really do to them.                *)
(*                                                                         *)
(* TypeInv and ScreenInv say what has passed each gate.  Missing is what a  *)
(* worker that still holds a job knows of its document: it has left         *)
(* PENDING, and a verdict of quarantine was due.                            *)

HeldKnown(w) ==
    /\ pc[w] \in HoldingPCs => doc[msg[w]] # "pending"
    /\ pc[w] \in {"settle", "settling"} /\ verdict[w] = "quarantined" =>
          kind[msg[w]] \notin Admissible

HeldInv == \A w \in Workers : HeldKnown(w)

CorpusInv == TypeInv /\ ScreenInv /\ HeldInv

\* What no step undoes.
Moved ==
    /\ kind' = kind
    /\ \A j \in Jobs : doc[j] # "pending" => doc'[j] # "pending"

Unseen == kind' = kind /\ doc' = doc /\ chunks' = chunks

\* A worker's step leaves what the others know of their documents true.
LEMMA OthersKnow ==
  ASSUME TypeInv, HeldInv, Moved, NEW w \in Workers, OthersKeep(w), HeldKnown(w)'
  PROVE  HeldInv'
<1> SUFFICES ASSUME NEW x \in Workers \ {w} PROVE HeldKnown(x)'
  BY DEF HeldInv
<1>1. HeldKnown(x) /\ WorkerOK(x)
  BY DEF HeldInv, TypeInv
<1>2. pc'[x] = pc[x] /\ msg'[x] = msg[x] /\ verdict'[x] = verdict[x]
  BY DEF OthersKeep
<1> QED
  BY <1>1, <1>2 DEF Moved, HeldKnown, WorkerOK, MessagePCs, HoldingPCs, StagePCs, Admissible

\* A stage works on a document that has been taken up, and reports a quarantine
\* only of a file that is not to be served.
LEMMA StageHeld ==
  ASSUME CorpusInv, NEW w \in Workers,
         \/ StageValidate(w) \/ StageScan(w) \/ StageParse(w) \/ StageOcr(w)
         \/ PersistPages(w) \/ StageChunk(w) \/ PersistChunks(w)
         \/ StagePlaceholder(w) \/ RaiseTransient(w)
  PROVE  HeldInv'
<1>1. HeldKnown(w) /\ Passed(w) /\ msg' = msg /\ doc' = doc /\ Moved /\ OthersKeep(w)
      /\ pc[w] \in HoldingPCs /\ w \in DOMAIN pc /\ w \in DOMAIN verdict
  BY DEF CorpusInv, HeldInv, ScreenInv, StageValidate, StageScan, StageParse, StageOcr,
     PersistPages, StageChunk, PersistChunks, StagePlaceholder, RaiseTransient, AdvanceStage,
     Proceed, EndRun, InRun, Moved, OthersKeep, fileVars, docVars, redisVars, ghostVars,
     HoldingPCs, StagePCs, TypeInv, TypeOK
<1>2. pc'[w] \in {"settle", "settling"} /\ verdict'[w] = "quarantined"
        => kind[msg[w]] \notin Admissible
  BY <1>1 DEF HeldKnown, StageValidate, StageScan, StageParse, StageOcr, PersistPages,
     StageChunk, PersistChunks, StagePlaceholder, RaiseTransient, Proceed, EndRun,
     PlaceholderNext, HoldingPCs, StagePCs, Admissible, TypeInv, TypeOK
<1>3. HeldKnown(w)'
  BY <1>1, <1>2 DEF HeldKnown, Moved, Admissible
<1> QED
  BY <1>1, <1>3, OthersKnow DEF CorpusInv

\* Ending a run keeps what is known of held documents: nobody writes PENDING.
LEMMA EndHeld ==
  ASSUME CorpusInv, NEW w \in Workers,
         \/ LoadRow(w) \/ Finish(w) \/ Quarantine(w) \/ FailRetry(w) \/ FailTerminally(w)
  PROVE  HeldInv'
<1>1. HeldKnown(w) /\ w \in DOMAIN pc /\ w \in DOMAIN verdict /\ pc[w] \in HoldingPCs
      /\ doc \in [Jobs -> DocStates] /\ msg[w] \in Jobs
  BY DEF CorpusInv, HeldInv, LoadRow, Finish, Quarantine, FailRetry, FailTerminally,
     HoldingPCs, StagePCs, TypeInv, TypeOK, WorkerOK, MessagePCs
<1>2. Moved /\ OthersKeep(w)
  <2> USE DEF Moved, OthersKeep, fileVars, docVars, jobVars
  <2>1. CASE LoadRow(w)
    BY <2>1 DEF LoadRow
  <2>2. CASE Finish(w)
    BY <1>1, <2>2 DEF Finish, WriteDoc, WriteField, ReleaseWorker
  <2>3. CASE Quarantine(w)
    BY <1>1, <2>3 DEF Quarantine, WriteDoc, WriteField, ReleaseWorker
  <2>4. CASE FailRetry(w)
    BY <2>4 DEF FailRetry
  <2>5. CASE FailTerminally(w)
    BY <1>1, <2>5 DEF FailTerminally, WriteDoc, WriteField
  <2> QED
    BY <2>1, <2>2, <2>3, <2>4, <2>5
<1>3. CASE LoadRow(w)
  BY <1>1, <1>2, <1>3, OthersKnow
     DEF CorpusInv, LoadRow, HeldKnown, Moved, Admissible, fileVars, docVars, HoldingPCs
<1>4. CASE ~LoadRow(w)
  <2>1. pc'[w] \in {"idle", "publish"}
    BY <1>1, <1>4 DEF Finish, Quarantine, FailRetry, FailTerminally, ReleaseWorker
  <2> QED
    BY <1>2, <2>1, OthersKnow DEF CorpusInv, HeldKnown, HoldingPCs, StagePCs
<1> QED
  BY <1>3, <1>4

\* Every step keeps what the workers know.
LEMMA HeldStep == CorpusInv /\ [Next]_vars => HeldInv'
<1> SUFFICES ASSUME CorpusInv, [Next]_vars PROVE HeldInv'
  OBVIOUS
<1> USE DEF CorpusInv, TypeInv, TypeOK, WorkerOK, MessagePCs, fileVars, jobVars, docVars,
        redisVars, workerVars, ghostVars
<1>1. ASSUME NEW j \in Jobs, UploadStep(j) \/ Age(j) PROVE HeldInv'
  BY <1>1 DEF UploadStep, UploadEnqueue, UploadCommit, UploadRollback, Age, HeldInv,
     HeldKnown, Admissible
<1>2. ASSUME NEW w \in Workers, WorkerStep(w) PROVE HeldInv'
  <2>1. CASE Dequeue(w) \/ DropMessage(w) \/ Publish(w) \/ SelectStale(w)
             \/ RequeueStale(w) \/ PublishStale(w)
    <3>1. Moved /\ OthersKeep(w)
      BY <2>1 DEF Dequeue, DropMessage, Publish, SelectStale, RequeueStale, PublishStale,
         ReleaseWorker, Moved, OthersKeep
    <3>2. pc'[w] \in {"idle", "claim", "recover", "republish"}
      BY <2>1 DEF Dequeue, DropMessage, Publish, SelectStale, RequeueStale, PublishStale,
         ReleaseWorker
    <3> QED
      BY <3>1, <3>2, OthersKnow DEF HeldKnown, HoldingPCs, StagePCs
  <2>2. CASE Claim(w)
    <3>1. Moved /\ OthersKeep(w) /\ pc'[w] = "validating" /\ doc'[msg'[w]] = "processing"
      BY <2>2 DEF Claim, Moved, OthersKeep
    <3> QED
      BY <3>1, OthersKnow DEF HeldKnown
  <2>3. CASE \/ StageValidate(w) \/ StageScan(w) \/ StageParse(w) \/ StageOcr(w)
             \/ PersistPages(w) \/ StageChunk(w) \/ PersistChunks(w)
             \/ StagePlaceholder(w) \/ RaiseTransient(w)
    BY <2>3, StageHeld
  <2>4. CASE \/ LoadRow(w) \/ Finish(w) \/ Quarantine(w) \/ FailRetry(w)
             \/ FailTerminally(w)
    BY <2>4, EndHeld
  <2> QED
    BY <1>2, <2>1, <2>2, <2>3, <2>4 DEF WorkerStep
<1>3. ASSUME NEW w \in Workers, Crash(w) PROVE HeldInv'
  <2>1. Moved /\ OthersKeep(w) /\ pc'[w] = "idle"
    BY <1>3 DEF Crash, ReleaseWorker, Moved, OthersKeep
  <2> QED
    BY <2>1, OthersKnow DEF HeldKnown, HoldingPCs, StagePCs
<1>4. CASE UNCHANGED vars
  BY <1>4 DEF vars, HeldInv, HeldKnown, Admissible
<1> QED
  BY <1>1, <1>2, <1>3, <1>4 DEF Next

-----------------------------------------------------------------------------
(* Steps of Ingestion as steps of Corpus.                                   *)

\* What changes neither the files, the document states nor the chunk rows is
\* not seen by readers.
LEMMA UnseenStutters == ASSUME Unseen PROVE UNCHANGED Published!corpus
  BY DEF Unseen, Published!corpus, Admissible

\* A worker takes up a document that was not being processed, or repeats a claim.
LEMMA ClaimTakesUp ==
  ASSUME CorpusInv, NEW w \in Workers, Claim(w)
  PROVE  [Published!CorpusNext]_(Published!corpus)
<1>1. msg[w] \in Jobs /\ doc' = [doc EXCEPT ![msg[w]] = "processing"]
      /\ kind' = kind /\ chunks' = chunks /\ doc \in [Jobs -> DocStates]
  BY DEF CorpusInv, TypeInv, TypeOK, WorkerOK, MessagePCs, Claim, fileVars
<1>2. CASE doc[msg[w]] = "processing"
  BY <1>1, <1>2, UnseenStutters DEF Unseen
<1>3. CASE doc[msg[w]] # "processing"
  BY <1>1, <1>3 DEF Published!CorpusNext, Published!TakeUp, Admissible
<1> QED
  BY <1>2, <1>3

\* Storing chunk rows replaces the rows of a screened document.
LEMMA PersistReplaces ==
  ASSUME CorpusInv, NEW w \in Workers, PersistChunks(w)
  PROVE  Published!CorpusNext
<1>1. msg[w] \in Jobs /\ kind' = kind /\ doc' = doc /\ doc[msg[w]] # "pending"
  BY DEF CorpusInv, TypeInv, TypeOK, WorkerOK, MessagePCs, HoldingPCs, StagePCs, HeldInv,
     HeldKnown, PersistChunks, InRun, fileVars
<1>2. kind[msg[w]] \in Admissible
  BY <1>1, KindsAssumption
  DEF CorpusInv, TypeInv, TypeOK, ScreenInv, Passed, PersistChunks, Admissible, AllKinds,
      AfterGate, AfterPages, AfterParse, AfterScan, AfterValidate, AfterChunks
<1>3. PICK new \in {1, 2} :
          new # chunks[msg[w]] /\ chunks' = [chunks EXCEPT ![msg[w]] = new]
  <2>1. FreshChunks(chunks[msg[w]]) \in {1, 2}
        /\ FreshChunks(chunks[msg[w]]) # chunks[msg[w]]
    BY <1>1 DEF CorpusInv, TypeInv, TypeOK, FreshChunks
  <2> QED
    BY <2>1 DEF PersistChunks
<1>4. Published!ReplaceRows(msg[w], new)
  BY <1>1, <1>2, <1>3 DEF Published!ReplaceRows, Admissible
<1> QED
  BY <1>1, <1>4 DEF Published!CorpusNext

\* A committed outcome settles the document, unless the UPDATE leaves its row out.
LEMMA OutcomeSettles ==
  ASSUME CorpusInv, NEW w \in Workers, Finish(w) \/ Quarantine(w) \/ FailTerminally(w)
  PROVE  [Published!CorpusNext]_(Published!corpus)
<1> DEFINE j == msg[w]
           v == verdict[w]
<1>1. j \in Jobs /\ pc[w] = "settling" /\ v \in {"ready", "quarantined", "failed"}
      /\ kind' = kind /\ chunks' = chunks /\ doc \in [Jobs -> DocStates]
      /\ doc' = [doc EXCEPT ![j] = IF "doc" \in skip[w] THEN doc[j] ELSE v]
  BY DEF CorpusInv, TypeInv, TypeOK, WorkerOK, MessagePCs, HoldingPCs, Finish, Quarantine,
     FailTerminally, WriteDoc, WriteField, fileVars
<1>2. doc[j] # "pending" /\ (v = "quarantined" => kind[j] \notin Admissible)
  BY <1>1 DEF CorpusInv, HeldInv, HeldKnown, HoldingPCs
<1>3. v = "ready" => chunks[j] # 0
  BY <1>1 DEF CorpusInv, ScreenInv, Passed, Succeeding
<1>4. CASE "doc" \in skip[w]
  BY <1>1, <1>4, UnseenStutters DEF Unseen
<1>5. CASE "doc" \notin skip[w]
  <2>1. Published!Settle(j, v)
    BY <1>1, <1>2, <1>3, <1>5 DEF Published!Settle, Admissible
  <2> QED
    BY <1>1, <2>1 DEF Published!CorpusNext
<1> QED
  BY <1>4, <1>5

\* Every other step of a worker is unseen.
LEMMA OtherStepsUnseen ==
  ASSUME NEW w \in Workers, WorkerStep(w), ~Claim(w), ~PersistChunks(w),
         ~(Finish(w) \/ Quarantine(w) \/ FailTerminally(w))
  PROVE  Unseen
  BY DEF WorkerStep, Unseen, Dequeue, DropMessage, StageValidate, StageScan, StageParse,
     StageOcr, PersistPages, StageChunk, StagePlaceholder, RaiseTransient, LoadRow,
     FailRetry, Publish, SelectStale, RequeueStale, PublishStale, InRun, fileVars, docVars

LEMMA CorpusStep == CorpusInv /\ [Next]_vars => [Published!CorpusNext]_(Published!corpus)
<1> SUFFICES ASSUME CorpusInv, [Next]_vars
             PROVE  [Published!CorpusNext]_(Published!corpus)
  OBVIOUS
<1>1. ASSUME NEW j \in Jobs, UploadStep(j) \/ Age(j)
      PROVE  [Published!CorpusNext]_(Published!corpus)
  BY <1>1, UnseenStutters DEF UploadStep, UploadEnqueue, UploadCommit, UploadRollback, Age,
     Unseen, fileVars, docVars
<1>2. ASSUME NEW w \in Workers, WorkerStep(w)
      PROVE  [Published!CorpusNext]_(Published!corpus)
  BY <1>2, ClaimTakesUp, PersistReplaces, OutcomeSettles, OtherStepsUnseen, UnseenStutters
<1>3. ASSUME NEW w \in Workers, Crash(w)
      PROVE  [Published!CorpusNext]_(Published!corpus)
  BY <1>3, UnseenStutters DEF Crash, Unseen, fileVars, docVars
<1>4. CASE UNCHANGED vars
  BY <1>4, UnseenStutters DEF Unseen, vars, fileVars, docVars
<1> QED
  BY <1>1, <1>2, <1>3, <1>4 DEF Next

LEMMA CorpusStart == Init => HeldInv /\ Published!CorpusInit
  BY DEF Init, HeldInv, HeldKnown, HoldingPCs, StagePCs, Published!CorpusInit

\* Whatever overtakes whatever, ingestion changes what readers see only as module
\* Corpus says: rows of screened files only, replaced all at once and never just
\* removed, READY only with rows, QUARANTINED only if a gate said so.
THEOREM IngestionImplementsCorpus == Spec => ImplementsCorpus
<1>1. Init => CorpusInv
  BY TypeInit, ScreenInit, CorpusStart DEF CorpusInv
<1>2. CorpusInv /\ [Next]_vars => CorpusInv'
  BY TypeStep, ScreenStep, HeldStep DEF CorpusInv
<1> QED
  BY <1>1, <1>2, CorpusStart, CorpusStep, PTL DEF Spec, ImplementsCorpus, Published!CorpusSpec

-----------------------------------------------------------------------------
(* A single worker implements JobLifecycle.                                 *)
(*                                                                         *)
(* With one worker a recovery never takes a job from anybody: whoever looks *)
(* for stale jobs holds none, so a RUNNING row it finds was lost in a crash.*)
(* Hence recoveries are paid for by crashes, whoever holds a job sees its   *)
(* row RUNNING, and no UPDATE leaves the status or the document row out.    *)

OneWorker == \A v, w \in Workers : v = w

\* RUNNING in the database, and its worker has died.
Lost(j) == status[j] = "running" /\ \A w \in Workers : ~Holds(w, j)

SoloWorker(w) ==
    /\ pc[w] \in HoldingPCs => upload[msg[w]] = "committed" /\ status[msg[w]] = "running"
    /\ pc[w] = "settling" => "status" \notin skip[w] /\ "doc" \notin skip[w]
    /\ pc[w] = "recover" => \A j \in found[w].running : status[j] = "running"

RowsMatch(j) ==
    /\ upload[j] # "committed" => status[j] = "queued"
    /\ status[j] = "queued" => doc[j] \in {"pending", "processing"}
    /\ status[j] = "running" => doc[j] = "processing"
    /\ status[j] = "succeeded" => doc[j] = "ready"
    /\ status[j] = "failed" => doc[j] \in {"quarantined", "failed"}

PaidFor(j) == recoveries[j] <= crashes /\ (Lost(j) => recoveries[j] < crashes)

SoloInv ==
    /\ crashes <= MaxCrashes
    /\ \A w \in Workers : SoloWorker(w)
    /\ \A j \in Jobs : RowsMatch(j) /\ PaidFor(j)

\* A step that touches no row, recovers nothing and loses no job.
LEMMA RowsUntouched ==
  ASSUME SoloInv, status' = status, doc' = doc, upload' = upload,
         recoveries' = recoveries, crashes' = crashes,
         \A j \in Jobs : Lost(j)' => Lost(j)
  PROVE  \A j \in Jobs : RowsMatch(j)' /\ PaidFor(j)'
<1> SUFFICES ASSUME NEW j \in Jobs PROVE RowsMatch(j)' /\ PaidFor(j)'
  OBVIOUS
<1>1. RowsMatch(j) /\ PaidFor(j)
  BY DEF SoloInv
<1> QED
  BY <1>1 DEF RowsMatch, PaidFor

\* The stages leave the status alone and keep the job.
LEMMA StageSolo ==
  ASSUME TypeInv, SoloInv, OneWorker, NEW w \in Workers,
         \/ StageValidate(w) \/ StageScan(w) \/ StageParse(w) \/ StageOcr(w)
         \/ PersistPages(w) \/ StageChunk(w) \/ PersistChunks(w)
         \/ StagePlaceholder(w) \/ RaiseTransient(w)
  PROVE  SoloInv'
<1>1. /\ status' = status /\ doc' = doc /\ upload' = upload /\ recoveries' = recoveries
      /\ crashes' = crashes /\ msg' = msg
      /\ pc[w] \in StagePCs /\ pc'[w] \in StagePCs \cup {"settle"}
  BY DEF StageValidate, StageScan, StageParse, StageOcr, PersistPages, StageChunk,
     PersistChunks, StagePlaceholder, RaiseTransient, AdvanceStage, Proceed, EndRun, InRun,
     PlaceholderNext, StagePCs, fileVars, docVars, jobVars, ghostVars, TypeInv, TypeOK
<1>2. SoloWorker(w)'
  BY <1>1 DEF SoloInv, SoloWorker, HoldingPCs, StagePCs
<1>3. \A j \in Jobs : Lost(j)' => Lost(j)
  BY <1>1 DEF OneWorker, Lost, Holds, HoldingPCs
<1> QED
  BY <1>1, <1>2, <1>3, RowsUntouched DEF SoloInv, OneWorker

\* What is loaded differs from what will be written: the row is RUNNING and its
\* document in PROCESSING, which no outcome is.
LEMMA LoadSolo ==
  ASSUME TypeInv, SoloInv, OneWorker, NEW w \in Workers, LoadRow(w)
  PROVE  SoloInv'
<1>1. /\ status' = status /\ doc' = doc /\ upload' = upload /\ recoveries' = recoveries
      /\ crashes' = crashes /\ msg' = msg /\ msg[w] \in Jobs
      /\ pc[w] = "settle" /\ pc'[w] = "settling" /\ verdict[w] \in Verdicts \ {"none"}
  BY DEF LoadRow, fileVars, docVars, jobVars, ghostVars, TypeInv, TypeOK, WorkerOK,
     MessagePCs, HoldingPCs
<1>2. status[msg[w]] = "running" /\ doc[msg[w]] = "processing" /\ upload[msg[w]] = "committed"
  BY <1>1 DEF SoloInv, SoloWorker, RowsMatch, HoldingPCs
<1>3. "status" \notin skip'[w] /\ "doc" \notin skip'[w]
  BY <1>1, <1>2 DEF LoadRow, TargetStatus, Verdicts, TypeInv, TypeOK
<1>4. SoloWorker(w)'
  BY <1>1, <1>2, <1>3 DEF SoloWorker
<1>5. \A j \in Jobs : Lost(j)' => Lost(j)
  BY <1>1 DEF OneWorker, Lost, Holds, HoldingPCs
<1> QED
  BY <1>1, <1>4, <1>5, RowsUntouched DEF SoloInv, OneWorker

\* What the end of a run writes, once nothing is left out of its UPDATE.
LEMMA OutcomeWrites ==
  ASSUME TypeInv, SoloInv, NEW w \in Workers,
         Finish(w) \/ Quarantine(w) \/ FailRetry(w) \/ FailTerminally(w)
  PROVE  /\ pc[w] = "settling" /\ pc'[w] \in {"idle", "publish"} /\ msg[w] \in Jobs
         /\ verdict[w] \in Verdicts \ {"none"}
         /\ status[msg[w]] = "running" /\ doc[msg[w]] = "processing"
         /\ upload[msg[w]] = "committed"
         /\ status' = [status EXCEPT ![msg[w]] = TargetStatus(verdict[w])]
         /\ doc' = IF verdict[w] = "retry" THEN doc ELSE [doc EXCEPT ![msg[w]] = verdict[w]]
         /\ UNCHANGED <<upload, kind, attempts, chunks, recoveries, crashes>>
<1>1. /\ pc[w] = "settling" /\ msg[w] \in Jobs /\ verdict[w] \in Verdicts \ {"none"}
      /\ pc'[w] \in {"idle", "publish"}
      /\ UNCHANGED <<upload, kind, attempts, chunks, recoveries, crashes>>
  BY DEF Finish, Quarantine, FailRetry, FailTerminally, ReleaseWorker, TypeInv, TypeOK,
     WorkerOK, MessagePCs, HoldingPCs, fileVars, docVars, ghostVars
<1>2. /\ status[msg[w]] = "running" /\ doc[msg[w]] = "processing"
      /\ upload[msg[w]] = "committed" /\ "status" \notin skip[w] /\ "doc" \notin skip[w]
  BY <1>1 DEF SoloInv, SoloWorker, RowsMatch, HoldingPCs
<1>3. status' = [status EXCEPT ![msg[w]] = TargetStatus(verdict[w])]
  BY <1>1, <1>2 DEF Finish, Quarantine, FailRetry, FailTerminally, WriteStatus, WriteField,
     TargetStatus
<1>4. doc' = IF verdict[w] = "retry" THEN doc ELSE [doc EXCEPT ![msg[w]] = verdict[w]]
  BY <1>1, <1>2 DEF Finish, Quarantine, FailRetry, FailTerminally, WriteDoc, WriteField,
     docVars
<1> QED
  BY <1>1, <1>2, <1>3, <1>4

LEMMA OutcomeSolo ==
  ASSUME TypeInv, SoloInv, OneWorker, NEW w \in Workers,
         Finish(w) \/ Quarantine(w) \/ FailRetry(w) \/ FailTerminally(w)
  PROVE  SoloInv'
<1>1. /\ pc[w] = "settling" /\ pc'[w] \in {"idle", "publish"} /\ msg[w] \in Jobs
      /\ verdict[w] \in Verdicts \ {"none"}
      /\ status[msg[w]] = "running" /\ doc[msg[w]] = "processing"
      /\ upload[msg[w]] = "committed"
      /\ status' = [status EXCEPT ![msg[w]] = TargetStatus(verdict[w])]
      /\ doc' = IF verdict[w] = "retry" THEN doc ELSE [doc EXCEPT ![msg[w]] = verdict[w]]
      /\ UNCHANGED <<upload, recoveries, crashes>>
  BY OutcomeWrites
<1>2. SoloWorker(w)'
  BY <1>1 DEF SoloWorker, HoldingPCs, StagePCs
<1>3. ASSUME NEW j \in Jobs PROVE RowsMatch(j)' /\ PaidFor(j)'
  <2>1. RowsMatch(j) /\ PaidFor(j) /\ status \in [Jobs -> Statuses] /\ doc \in [Jobs -> DocStates]
    BY DEF SoloInv, TypeInv, TypeOK
  <2>2. RowsMatch(j)'
    BY <1>1, <2>1 DEF RowsMatch, TargetStatus, Verdicts
  <2>3. Lost(j)' => Lost(j)
    BY <1>1, <2>1 DEF Lost, Holds, HoldingPCs, OneWorker, TargetStatus, Verdicts
  <2> QED
    BY <1>1, <2>1, <2>2, <2>3 DEF PaidFor
<1> QED
  BY <1>1, <1>2, <1>3 DEF SoloInv, OneWorker

\* A claim finds the row QUEUED, and the worker holds the job from then on.
LEMMA ClaimSolo ==
  ASSUME TypeInv, SoloInv, OneWorker, NEW w \in Workers, Claim(w)
  PROVE  SoloInv'
<1>1. /\ msg[w] \in Jobs /\ upload[msg[w]] = "committed" /\ status[msg[w]] = "queued"
      /\ status' = [status EXCEPT ![msg[w]] = "running"]
      /\ doc' = [doc EXCEPT ![msg[w]] = "processing"]
      /\ status \in [Jobs -> Statuses] /\ doc \in [Jobs -> DocStates]
      /\ pc[w] = "claim" /\ pc'[w] = "validating"
      /\ UNCHANGED <<msg, upload, recoveries, crashes>>
  BY DEF Claim, Claimable, TypeInv, TypeOK, WorkerOK, MessagePCs, fileVars, ghostVars
<1>2. SoloWorker(w)'
  BY <1>1 DEF SoloWorker
<1>3. ASSUME NEW j \in Jobs PROVE RowsMatch(j)' /\ PaidFor(j)'
  <2>1. RowsMatch(j) /\ PaidFor(j)
    BY DEF SoloInv
  <2>2. Lost(j)' => Lost(j)
    BY <1>1 DEF Lost, Holds, HoldingPCs, StagePCs, OneWorker
  <2> QED
    BY <1>1, <2>1, <2>2 DEF RowsMatch, PaidFor
<1> QED
  BY <1>1, <1>2, <1>3 DEF SoloInv, OneWorker

\* A worker that holds no job and takes none loses none.
LEMMA QuietSolo ==
  ASSUME TypeInv, SoloInv, OneWorker, NEW w \in Workers,
         \/ Dequeue(w) \/ DropMessage(w) \/ Publish(w) \/ SelectStale(w) \/ PublishStale(w)
  PROVE  SoloInv'
<1>1. /\ UNCHANGED <<status, doc, upload, recoveries, crashes>>
      /\ pc[w] \in {"idle", "claim", "publish", "republish"}
      /\ pc'[w] \in {"claim", "idle", "recover", "republish"}
  BY DEF Dequeue, DropMessage, Publish, SelectStale, PublishStale, ReleaseWorker, fileVars,
     docVars, jobVars, ghostVars, TypeInv, TypeOK
<1>2. pc'[w] = "recover" => \A j \in found'[w].running : status[j] = "running"
  BY DEF Dequeue, DropMessage, Publish, SelectStale, PublishStale, ReleaseWorker, StaleRunning,
     TypeInv, TypeOK
<1>3. SoloWorker(w)'
  BY <1>1, <1>2 DEF SoloWorker, HoldingPCs, StagePCs
<1>4. \A j \in Jobs : Lost(j)' => Lost(j)
  BY <1>1 DEF Lost, Holds, HoldingPCs, StagePCs, OneWorker
<1> QED
  BY <1>1, <1>3, <1>4, RowsUntouched DEF SoloInv, OneWorker

\* Every job that a recovery puts back was lost, and its crash pays for it.
LEMMA RecoverSolo ==
  ASSUME TypeInv, SoloInv, OneWorker, NEW w \in Workers, RequeueStale(w)
  PROVE  SoloInv'
<1>1. /\ pc[w] = "recover" /\ pc'[w] = "republish"
      /\ status' = [j \in Jobs |-> IF j \in found[w].running THEN "queued" ELSE status[j]]
      /\ recoveries' = [j \in Jobs |-> IF j \in found[w].running
                                       THEN recoveries[j] + 1 ELSE recoveries[j]]
      /\ UNCHANGED <<msg, doc, upload, crashes>>
  BY DEF RequeueStale, TypeInv, TypeOK, fileVars, docVars
<1>2. \A j \in found[w].running : status[j] = "running"
  BY <1>1 DEF SoloInv, SoloWorker
<1>3. SoloWorker(w)'
  BY <1>1 DEF SoloWorker, HoldingPCs, StagePCs
<1>4. ASSUME NEW j \in Jobs PROVE RowsMatch(j)' /\ PaidFor(j)'
  <2>1. RowsMatch(j) /\ PaidFor(j)
    BY DEF SoloInv
  <2>2. RowsMatch(j)'
    BY <1>1, <1>2, <2>1 DEF RowsMatch
  <2>3. CASE j \in found[w].running
    <3>1. Lost(j)
      BY <1>1, <1>2, <2>3 DEF Lost, Holds, HoldingPCs, StagePCs, OneWorker
    <3>2. ~Lost(j)' /\ recoveries'[j] = recoveries[j] + 1
      BY <1>1, <2>3 DEF Lost
    <3> QED
      BY <1>1, <2>1, <2>2, <3>1, <3>2 DEF PaidFor, TypeInv, TypeOK
  <2>4. CASE j \notin found[w].running
    <3>1. (Lost(j)' => Lost(j)) /\ recoveries'[j] = recoveries[j]
      BY <1>1, <2>4 DEF Lost, Holds, HoldingPCs, StagePCs, OneWorker
    <3> QED
      BY <1>1, <2>1, <2>2, <3>1 DEF PaidFor
  <2> QED
    BY <2>3, <2>4
<1> QED
  BY <1>1, <1>3, <1>4 DEF SoloInv, OneWorker

\* A crash loses the job that was held, if any.
LEMMA CrashSolo ==
  ASSUME TypeInv, SoloInv, OneWorker, NEW w \in Workers, Crash(w)
  PROVE  SoloInv'
<1>1. /\ crashes < MaxCrashes /\ crashes' = crashes + 1 /\ pc'[w] = "idle"
      /\ UNCHANGED <<status, doc, upload, recoveries>>
  BY DEF Crash, ReleaseWorker, TypeInv, TypeOK, fileVars, docVars, jobVars
<1>2. crashes \in Nat /\ MaxCrashes \in Nat /\ recoveries \in [Jobs -> Nat]
  BY BoundsAssumption DEF TypeInv, TypeOK
<1>3. SoloWorker(w)'
  BY <1>1 DEF SoloWorker, HoldingPCs, StagePCs
<1>4. ASSUME NEW j \in Jobs PROVE RowsMatch(j)' /\ PaidFor(j)'
  <2>1. RowsMatch(j) /\ PaidFor(j) /\ recoveries[j] \in Nat
    BY <1>2 DEF SoloInv
  <2> QED
    BY <1>1, <1>2, <2>1 DEF RowsMatch, PaidFor
<1> QED
  BY <1>1, <1>2, <1>3, <1>4 DEF SoloInv, OneWorker

LEMMA SoloStep ==
  ASSUME OneWorker
  PROVE  TypeInv /\ SoloInv /\ [Next]_vars => SoloInv'
<1> SUFFICES ASSUME TypeInv, SoloInv, [Next]_vars PROVE SoloInv'
  OBVIOUS
<1>1. ASSUME NEW j \in Jobs, UploadStep(j) \/ Age(j) PROVE SoloInv'
  <2>1. /\ UNCHANGED <<status, doc, recoveries, crashes, pc, msg, skip, found>>
        /\ \A k \in Jobs : upload[k] = "committed" => upload'[k] = "committed"
    BY <1>1 DEF UploadStep, UploadEnqueue, UploadCommit, UploadRollback, Age, jobVars, docVars,
       workerVars, ghostVars, fileVars, TypeInv, TypeOK
  <2>2. \A w \in Workers : SoloWorker(w)'
    BY <2>1 DEF SoloInv, SoloWorker, TypeInv, WorkerOK, MessagePCs
  <2>3. ASSUME NEW k \in Jobs PROVE RowsMatch(k)' /\ PaidFor(k)'
    <3>1. RowsMatch(k) /\ PaidFor(k) /\ (Lost(k)' => Lost(k))
      BY <2>1 DEF SoloInv, Lost, Holds
    <3> QED
      BY <2>1, <3>1 DEF RowsMatch, PaidFor
  <2> QED
    BY <2>1, <2>2, <2>3 DEF SoloInv
<1>2. ASSUME NEW w \in Workers, WorkerStep(w) PROVE SoloInv'
  BY <1>2, StageSolo, LoadSolo, OutcomeSolo, ClaimSolo, QuietSolo, RecoverSolo DEF WorkerStep
<1>3. ASSUME NEW w \in Workers, Crash(w) PROVE SoloInv'
  BY <1>3, CrashSolo
<1>4. CASE UNCHANGED vars
  <2>1. UNCHANGED <<status, doc, upload, recoveries, crashes, pc, msg, skip, found>>
    BY <1>4 DEF vars, fileVars, jobVars, docVars, workerVars, ghostVars
  <2>2. \A w \in Workers : SoloWorker(w)'
    BY <2>1 DEF SoloInv, SoloWorker
  <2>3. \A j \in Jobs : Lost(j)' => Lost(j)
    BY <2>1 DEF Lost, Holds
  <2> QED
    BY <2>1, <2>2, <2>3, RowsUntouched DEF SoloInv
<1> QED
  BY <1>1, <1>2, <1>3, <1>4 DEF Next

LifecycleInv == CorpusInv /\ CountInv /\ SoloInv

LEMMA SoloInit == Init => SoloInv
  BY BoundsAssumption DEF Init, SoloInv, SoloWorker, RowsMatch, PaidFor, Lost, HoldingPCs, StagePCs

\* A job that waits or was lost may be started again.
LEMMA StartsLeft ==
  ASSUME LifecycleInv, NEW j \in Jobs,
         status[j] = "queued" \/ Lost(j) \/ Granted(j) # {}
  PROVE  attempts[j] < MaxAttempts + MaxCrashes
<1>1. /\ attempts[j] \in Nat /\ recoveries[j] \in Nat /\ crashes \in Nat
      /\ MaxAttempts \in Nat /\ MaxCrashes \in Nat /\ Cardinality(Granted(j)) \in Nat
      /\ IsFiniteSet(Granted(j))
  BY GrantedHold, MaxAttemptsAssumption, BoundsAssumption
  DEF LifecycleInv, CorpusInv, TypeInv, TypeOK, CountInv
<1>2. /\ attempts[j] + Cardinality(Granted(j)) + Claims(j) <= MaxAttempts + recoveries[j]
      /\ recoveries[j] <= crashes /\ (Lost(j) => recoveries[j] < crashes)
      /\ crashes <= MaxCrashes
  BY DEF LifecycleInv, CountInv, Counted, SoloInv, PaidFor
<1>3. Claims(j) \in {0, 1} /\ (status[j] = "queued" => Claims(j) = 1)
  BY DEF Claims
<1>4. Granted(j) # {} => Cardinality(Granted(j)) >= 1
  BY <1>1, FS_EmptySet
<1> QED
  BY <1>1, <1>2, <1>3, <1>4

\* What the lifecycle shows of a state.
LEMMA Shown ==
  ASSUME LifecycleInv, NEW j \in Jobs
  PROVE  /\ Phase(j) = "waiting" <=> upload[j] = "committed" /\ status[j] = "queued"
         /\ Phase(j) = "working" <=> status[j] = "running"
         /\ doc[j] = "ready" <=> status[j] = "succeeded"
  BY DEF LifecycleInv, SoloInv, RowsMatch, Phase, CorpusInv, TypeInv, TypeOK, Statuses

LEMMA CommitSubmits ==
  ASSUME LifecycleInv, NEW j \in Jobs, UploadCommit(j)
  PROVE  Lifecycle!Next
<1>1. /\ upload[j] = "open" /\ upload' = [upload EXCEPT ![j] = "committed"]
      /\ UNCHANGED <<kind, status, doc, attempts, chunks>> /\ upload \in [Jobs -> Uploads]
  BY DEF UploadCommit, jobVars, docVars, LifecycleInv, CorpusInv, TypeInv, TypeOK
<1>2. status[j] = "queued"
  BY <1>1 DEF LifecycleInv, SoloInv, RowsMatch
<1>3. Lifecycle!Submit(j)
  BY <1>1, <1>2 DEF Lifecycle!Submit, Phase, Admissible
<1> QED
  BY <1>3 DEF Lifecycle!Next

LEMMA ClaimStarts ==
  ASSUME LifecycleInv, NEW w \in Workers, Claim(w)
  PROVE  Lifecycle!Next
<1> DEFINE j == msg[w]
<1>1. /\ j \in Jobs /\ upload[j] = "committed" /\ status[j] = "queued"
      /\ status' = [status EXCEPT ![j] = "running"]
      /\ attempts' = [attempts EXCEPT ![j] = @ + 1]
      /\ doc' = [doc EXCEPT ![j] = "processing"]
      /\ UNCHANGED <<upload, kind, chunks>>
      /\ status \in [Jobs -> Statuses] /\ doc \in [Jobs -> DocStates]
      /\ attempts \in [Jobs -> Nat]
  BY DEF Claim, Claimable, fileVars, LifecycleInv, CorpusInv, TypeInv, TypeOK, WorkerOK,
     MessagePCs
<1>2. attempts[j] < MaxAttempts + MaxCrashes /\ doc[j] # "ready"
  BY <1>1, StartsLeft, Shown
<1>3. Lifecycle!Start(j)
  BY <1>1, <1>2 DEF Lifecycle!Start, Phase, Admissible
<1> QED
  BY <1>1, <1>3 DEF Lifecycle!Next

\* The outcome is seen in the document's status; it is sound because every gate was
\* passed, or one was not.
LEMMA OutcomeConcludes ==
  ASSUME LifecycleInv, NEW w \in Workers, Finish(w) \/ Quarantine(w) \/ FailTerminally(w)
  PROVE  Lifecycle!Next
<1> DEFINE v == verdict[w]
<1>0. PICK j \in Jobs : j = msg[w]
  BY OutcomeWrites DEF LifecycleInv, CorpusInv
<1>1. /\ pc[w] = "settling" /\ v \in {"ready", "quarantined", "failed"}
      /\ status[j] = "running" /\ doc[j] = "processing" /\ upload[j] = "committed"
      /\ status' = [status EXCEPT ![j] = TargetStatus(v)]
      /\ doc' = [doc EXCEPT ![j] = v]
      /\ UNCHANGED <<upload, kind, attempts, chunks>>
      /\ status \in [Jobs -> Statuses] /\ doc \in [Jobs -> DocStates]
      /\ chunks \in [Jobs -> 0..2]
  BY <1>0, OutcomeWrites DEF LifecycleInv, CorpusInv, TypeInv, TypeOK, Finish, Quarantine,
     FailTerminally
<1>2. /\ v = "quarantined" => kind[j] \notin Admissible
      /\ v = "ready" => chunks[j] \in {1, 2} /\ kind[j] \in Admissible
  <2>1. v = "quarantined" => kind[j] \notin Admissible
    BY <1>0, <1>1 DEF LifecycleInv, CorpusInv, HeldInv, HeldKnown
  <2>2. v = "ready" => chunks[j] # 0
    BY <1>0, <1>1 DEF LifecycleInv, CorpusInv, ScreenInv, Passed, Succeeding
  <2> QED
    BY <1>1, <2>1, <2>2 DEF LifecycleInv, CorpusInv, ScreenInv, OnlyScreenedContent
<1>3. /\ TargetStatus(v) \in {"succeeded", "failed"} /\ v \in Lifecycle!Outcomes
      /\ Phase(j) = "working"
  BY <1>1 DEF TargetStatus, Lifecycle!Outcomes, Phase
<1>4. [k \in Jobs |-> Phase(k)]' = [[k \in Jobs |-> Phase(k)] EXCEPT ![j] = v]
  BY <1>1, <1>3 DEF Phase
<1>5. IF v = "ready"
      THEN \E rows \in {1, 2} :
             [k \in Jobs |-> IF doc[k] = "ready" THEN chunks[k] ELSE 0]'
               = [[k \in Jobs |-> IF doc[k] = "ready" THEN chunks[k] ELSE 0]
                    EXCEPT ![j] = rows]
      ELSE UNCHANGED [k \in Jobs |-> IF doc[k] = "ready" THEN chunks[k] ELSE 0]
  BY <1>1, <1>2
<1>6. Lifecycle!Conclude(j)
  BY <1>1, <1>2, <1>3, <1>4, <1>5 DEF Lifecycle!Conclude, Admissible
<1> QED
  BY <1>6 DEF Lifecycle!Next

\* A retry that the attempts allow gives the job back.
LEMMA RetryGivesBack ==
  ASSUME LifecycleInv, NEW w \in Workers, FailRetry(w)
  PROVE  Lifecycle!Next
<1> DEFINE j == msg[w]
<1>1. /\ j \in Jobs /\ pc[w] = "settling" /\ verdict[w] = "retry"
      /\ status[j] = "running" /\ doc[j] = "processing" /\ upload[j] = "committed"
      /\ status' = [status EXCEPT ![j] = "queued"] /\ doc' = doc
      /\ UNCHANGED <<upload, kind, attempts, chunks>>
      /\ status \in [Jobs -> Statuses]
  BY OutcomeWrites DEF LifecycleInv, CorpusInv, TypeInv, TypeOK, FailRetry, TargetStatus
<1>2. attempts[j] < MaxAttempts + MaxCrashes
  <2>1. Granted(j) # {}
    BY <1>1 DEF Granted
  <2> QED
    BY <1>1, <2>1, StartsLeft
<1>3. /\ Phase(j) = "working"
      /\ [k \in Jobs |-> Phase(k)]'
           = [k \in Jobs |-> IF k \in {j} THEN "waiting" ELSE [i \in Jobs |-> Phase(i)][k]]
  BY <1>1 DEF Phase
<1>4. Lifecycle!GiveBack
  BY <1>1, <1>2, <1>3 DEF Lifecycle!GiveBack, Admissible
<1> QED
  BY <1>4 DEF Lifecycle!Next

\* A recovery gives back every job it found lost.
LEMMA RecoveryGivesBack ==
  ASSUME LifecycleInv, OneWorker, NEW w \in Workers, RequeueStale(w)
  PROVE  Lifecycle!Next
<1> DEFINE S == found[w].running
<1>1. /\ pc[w] = "recover" /\ S \subseteq Jobs
      /\ status' = [j \in Jobs |-> IF j \in S THEN "queued" ELSE status[j]]
      /\ UNCHANGED <<upload, kind, attempts, doc, chunks>>
  BY DEF RequeueStale, fileVars, docVars, LifecycleInv, CorpusInv, TypeInv, TypeOK
<1>2. ASSUME NEW j \in S
      PROVE  /\ Phase(j) = "working" /\ upload[j] = "committed"
             /\ attempts[j] < MaxAttempts + MaxCrashes
  <2>1. status[j] = "running" /\ upload[j] = "committed"
    BY <1>1 DEF LifecycleInv, SoloInv, SoloWorker, RowsMatch
  <2>2. Lost(j)
    BY <1>1, <2>1 DEF Lost, Holds, HoldingPCs, StagePCs, OneWorker
  <2> QED
    BY <1>1, <2>1, <2>2, StartsLeft DEF Phase
<1>3. [k \in Jobs |-> Phase(k)]'
        = [k \in Jobs |-> IF k \in S THEN "waiting" ELSE [i \in Jobs |-> Phase(i)][k]]
  BY <1>1, <1>2 DEF Phase
<1>4. Lifecycle!GiveBack
  <2>1. S \in SUBSET {k \in Jobs : [i \in Jobs |-> Phase(i)][k] = "working"}
    BY <1>1, <1>2
  <2>2. UNCHANGED <<{k \in Jobs : kind[k] \in Admissible}, attempts,
                    [k \in Jobs |-> IF doc[k] = "ready" THEN chunks[k] ELSE 0]>>
    BY <1>1 DEF Admissible
  <2> QED
    BY <1>2, <1>3, <2>1, <2>2 DEF Lifecycle!GiveBack
<1> QED
  BY <1>4 DEF Lifecycle!Next

\* Chunk rows are replaced only while the document is in PROCESSING.
LEMMA PersistUnserved ==
  ASSUME LifecycleInv, NEW w \in Workers, PersistChunks(w)
  PROVE  UNCHANGED Lifecycle!jobLifecycleVars
<1>1. /\ msg[w] \in Jobs /\ UNCHANGED <<upload, kind, status, doc, attempts>>
      /\ chunks' = [chunks EXCEPT ![msg[w]] = FreshChunks(@)]
      /\ chunks \in [Jobs -> 0..2] /\ pc[w] \in HoldingPCs
  BY DEF PersistChunks, InRun, fileVars, jobVars, LifecycleInv, CorpusInv, TypeInv, TypeOK,
     WorkerOK, MessagePCs, HoldingPCs, StagePCs
<1>2. doc[msg[w]] = "processing"
  BY <1>1 DEF LifecycleInv, SoloInv, SoloWorker, RowsMatch
<1> QED
  BY <1>1, <1>2 DEF Lifecycle!jobLifecycleVars, Phase, Admissible

LEMMA LifecycleStep ==
  ASSUME OneWorker
  PROVE  LifecycleInv /\ [Next]_vars => [Lifecycle!Next]_(Lifecycle!jobLifecycleVars)
<1> SUFFICES ASSUME LifecycleInv, [Next]_vars
             PROVE  [Lifecycle!Next]_(Lifecycle!jobLifecycleVars)
  OBVIOUS
<1>0. ASSUME UNCHANGED <<status, doc, attempts, chunks, kind>>,
             \A j \in Jobs : upload[j] = "committed" <=> upload'[j] = "committed"
      PROVE  UNCHANGED Lifecycle!jobLifecycleVars
  BY <1>0 DEF Lifecycle!jobLifecycleVars, Phase, Admissible
<1>1. ASSUME NEW j \in Jobs, UploadStep(j) \/ Age(j)
      PROVE  [Lifecycle!Next]_(Lifecycle!jobLifecycleVars)
  <2>1. CASE UploadCommit(j)
    BY <2>1, CommitSubmits
  <2>2. CASE UploadEnqueue(j) \/ UploadRollback(j) \/ Age(j)
    BY <1>0, <2>2 DEF UploadEnqueue, UploadRollback, Age, jobVars, docVars, fileVars,
       LifecycleInv, CorpusInv, TypeInv, TypeOK
  <2> QED
    BY <1>1, <2>1, <2>2 DEF UploadStep
<1>2. ASSUME NEW w \in Workers, WorkerStep(w)
      PROVE  [Lifecycle!Next]_(Lifecycle!jobLifecycleVars)
  <2>1. CASE \/ Claim(w) \/ Finish(w) \/ Quarantine(w) \/ FailTerminally(w)
             \/ FailRetry(w) \/ RequeueStale(w) \/ PersistChunks(w)
    BY <2>1, ClaimStarts, OutcomeConcludes, RetryGivesBack, RecoveryGivesBack,
       PersistUnserved
  <2>2. CASE \/ Dequeue(w) \/ DropMessage(w) \/ StageValidate(w) \/ StageScan(w)
             \/ StageParse(w) \/ StageOcr(w) \/ PersistPages(w) \/ StageChunk(w)
             \/ StagePlaceholder(w) \/ RaiseTransient(w) \/ LoadRow(w)
             \/ Publish(w) \/ SelectStale(w) \/ PublishStale(w)
    <3>1. UNCHANGED <<status, doc, attempts, chunks, kind, upload>>
      BY <2>2 DEF Dequeue, DropMessage, StageValidate, StageScan, StageParse, StageOcr,
         PersistPages, StageChunk, StagePlaceholder, RaiseTransient, LoadRow, Publish,
         SelectStale, PublishStale, AdvanceStage, InRun, fileVars, jobVars, docVars
    <3> QED
      BY <1>0, <3>1
  <2> QED
    BY <1>2, <2>1, <2>2 DEF WorkerStep
<1>3. ASSUME NEW w \in Workers, Crash(w) PROVE UNCHANGED Lifecycle!jobLifecycleVars
  BY <1>0, <1>3 DEF Crash, fileVars, jobVars, docVars
<1>4. CASE UNCHANGED vars
  BY <1>0, <1>4 DEF vars, fileVars, jobVars, docVars
<1> QED
  BY <1>1, <1>2, <1>3, <1>4 DEF Next

LEMMA LifecycleStart == Init => Lifecycle!Init
  BY DEF Init, Lifecycle!Init, Phase, Admissible

\* A single worker implements the lifecycle, through any crashes, duplicates and
\* recoveries: a job ends READY, QUARANTINED or FAILED for good, READY only if every
\* gate let its file through, it serves one set of chunk rows, and it is started at
\* most max_attempts times and once per crash.
THEOREM SoleWorkerKeepsLifecycle ==
  ASSUME OneWorker
  PROVE  Spec => KeepsLifecycle
<1>1. Init => LifecycleInv
  BY TypeInit, ScreenInit, CorpusStart, CountInit, SoloInit DEF LifecycleInv, CorpusInv
<1>2. LifecycleInv /\ [Next]_vars => LifecycleInv'
  BY TypeStep, ScreenStep, HeldStep, CountStep, SoloStep DEF LifecycleInv, CorpusInv
<1> QED
  BY <1>1, <1>2, LifecycleStart, LifecycleStep, PTL DEF Spec, KeepsLifecycle, Lifecycle!Spec

\* What a single worker writes to the status of a job, it writes to one that it claims
\* or holds, or to one that was lost: never to one that is over.
LEMMA SoleWorkerRespectsOutcomes ==
  ASSUME OneWorker
  PROVE  LifecycleInv /\ [Next]_vars => \A j \in Jobs : Settled(j) => status'[j] = status[j]
<1> SUFFICES ASSUME LifecycleInv, [Next]_vars, NEW j \in Jobs, Settled(j)
             PROVE  status'[j] = status[j]
  OBVIOUS
<1>0. status[j] \in {"succeeded", "failed"} /\ status \in [Jobs -> Statuses]
  BY DEF Settled, Terminal, LifecycleInv, CorpusInv, TypeInv, TypeOK
<1>1. ASSUME NEW w \in Workers, Claim(w) PROVE status'[j] = status[j]
  BY <1>0, <1>1 DEF Claim, Claimable
<1>2. ASSUME NEW w \in Workers,
             Finish(w) \/ Quarantine(w) \/ FailRetry(w) \/ FailTerminally(w)
      PROVE  status'[j] = status[j]
  <2>1. status[msg[w]] = "running" /\ status' = [status EXCEPT ![msg[w]] = TargetStatus(verdict[w])]
    BY <1>2, OutcomeWrites DEF LifecycleInv, CorpusInv
  <2> QED
    BY <1>0, <2>1
<1>3. ASSUME NEW w \in Workers, RequeueStale(w) PROVE status'[j] = status[j]
  <2>1. j \notin found[w].running
    BY <1>0, <1>3 DEF RequeueStale, LifecycleInv, SoloInv, SoloWorker
  <2> QED
    BY <1>3, <2>1 DEF RequeueStale
<1>4. ASSUME NEW w \in Workers, WorkerStep(w)
      PROVE  \/ UNCHANGED status
             \/ Claim(w) \/ RequeueStale(w)
             \/ Finish(w) \/ Quarantine(w) \/ FailRetry(w) \/ FailTerminally(w)
  <2>1. CASE \/ StageValidate(w) \/ StageScan(w) \/ StageParse(w) \/ StageOcr(w)
             \/ PersistPages(w) \/ StageChunk(w) \/ PersistChunks(w)
             \/ StagePlaceholder(w) \/ RaiseTransient(w)
    BY <2>1 DEF StageValidate, StageScan, StageParse, StageOcr, PersistPages, StageChunk,
       PersistChunks, StagePlaceholder, RaiseTransient, AdvanceStage, jobVars
  <2>2. CASE \/ Dequeue(w) \/ DropMessage(w) \/ LoadRow(w) \/ Publish(w)
             \/ SelectStale(w) \/ PublishStale(w)
    BY <2>2 DEF Dequeue, DropMessage, LoadRow, Publish, SelectStale, PublishStale, jobVars
  <2> QED
    BY <1>4, <2>1, <2>2 DEF WorkerStep
<1>5. ASSUME \/ \E i \in Jobs : UploadStep(i) \/ Age(i)
             \/ \E w \in Workers : Crash(w)
             \/ UNCHANGED vars
      PROVE  UNCHANGED status
  BY <1>5 DEF UploadStep, UploadEnqueue, UploadCommit, UploadRollback, Age, Crash, vars, jobVars
<1> QED
  BY <1>1, <1>2, <1>3, <1>4, <1>5 DEF Next

\* With a single worker "terminal states are never reprocessed" (app/ingestion/worker.py)
\* as it is written, through any crashes, duplicates and recoveries, early ones included:
\* what run reprocessed shows takes two workers.
THEOREM SoleWorkerNeverReprocesses ==
  ASSUME OneWorker
  PROVE  Spec => TerminalForever
<1>1. Init => LifecycleInv
  BY TypeInit, ScreenInit, CorpusStart, CountInit, SoloInit DEF LifecycleInv, CorpusInv
<1>2. LifecycleInv /\ [Next]_vars => LifecycleInv'
  BY TypeStep, ScreenStep, HeldStep, CountStep, SoloStep DEF LifecycleInv, CorpusInv
<1> QED
  BY <1>1, <1>2, SoleWorkerRespectsOutcomes, PTL DEF Spec, TerminalForever

-----------------------------------------------------------------------------
(* What only a crash can lose.                                              *)

\* A message for j that its next claim will not drop, or that is about to be sent.
CarriedBy(w, j) ==
    \/ msg[w] = j /\ pc[w] = "claim"
    \/ msg[w] = j /\ pc[w] = "publish" /\ verdict[w] = "retry"
    \/ pc[w] = "republish" /\ j \in Outstanding(w)
Carried(j) == InQueue(j) \/ \E w \in Workers : CarriedBy(w, j)

\* A worker runs j, and ending the run will write the job's status.
OwnedBy(w, j) == Holds(w, j) /\ (pc[w] = "settling" => "status" \notin skip[w])
Owned(j) == \E w \in Workers : OwnedBy(w, j)

\* Somebody is at a job that was ever claimed: a RUNNING row has a worker that will end the
\* run, and a row put back to QUEUED has a message.
Attended(j) ==
    /\ status[j] = "running" => Owned(j)
    /\ status[j] = "queued" /\ attempts[j] > 0 => Carried(j)

AttendedInv == crashes = 0 => \A j \in Jobs : Attended(j)

\* Only what is committed is claimed, given back or recovered.
InHand(w) == pc[w] \in HoldingPCs \cup {"publish"}
CommittedInv ==
    /\ \A j \in Jobs : upload[j] # "committed" =>
                         status[j] = "queued" /\ attempts[j] = 0 /\ j \notin aged
    /\ \A w \in Workers : /\ InHand(w) => upload[msg[w]] = "committed"
                          /\ \A j \in Outstanding(w) : upload[j] = "committed"

\* What workers other than w are doing is not touched.
OthersGoOn(w) ==
    \A x \in Workers \ {w} : /\ pc'[x] = pc[x] /\ msg'[x] = msg[x] /\ verdict'[x] = verdict[x]
                             /\ skip'[x] = skip[x] /\ found'[x] = found[x]

LEMMA OthersAttend ==
  ASSUME NEW w \in Workers, OthersGoOn(w), NEW x \in Workers \ {w}, NEW j
  PROVE  (CarriedBy(x, j) => CarriedBy(x, j)') /\ (OwnedBy(x, j) => OwnedBy(x, j)')
  BY DEF OthersGoOn, CarriedBy, OwnedBy, Holds, Outstanding

\* A message that is sent waits behind the others, and one is taken from the front.
LEMMA Sent ==
  ASSUME queue \in Seq(Jobs), NEW i \in Jobs, queue' = Append(queue, i)
  PROVE  InQueue(i)' /\ \A j \in Jobs : InQueue(j) => InQueue(j)'
<1>1. /\ DOMAIN queue' = 1..(Len(queue) + 1) /\ Len(queue) \in Nat
      /\ DOMAIN queue = 1..Len(queue)
      /\ queue'[Len(queue) + 1] = i /\ \A k \in 1..Len(queue) : queue'[k] = queue[k]
  OBVIOUS
<1> QED
  BY <1>1 DEF InQueue

LEMMA Taken ==
  ASSUME queue \in Seq(Jobs), queue # <<>>, queue' = Tail(queue)
  PROVE  \A j \in Jobs : InQueue(j) => j = Head(queue) \/ InQueue(j)'
<1> SUFFICES ASSUME NEW j \in Jobs, NEW k \in DOMAIN queue, queue[k] = j, j # Head(queue)
             PROVE  \E i \in DOMAIN queue' : queue'[i] = j
  BY DEF InQueue
<1>1. /\ DOMAIN queue = 1..Len(queue) /\ Len(queue) \in Nat /\ Head(queue) = queue[1]
      /\ DOMAIN queue' = 1..(Len(queue) - 1)
      /\ \A i \in 1..(Len(queue) - 1) : queue'[i] = queue[i + 1]
  OBVIOUS
<1>2. k - 1 \in 1..(Len(queue) - 1) /\ (k - 1) + 1 = k
  BY <1>1
<1> QED
  BY <1>1, <1>2

\* A worker touches only jobs that are committed.
LEMMA TouchesCommitted ==
  ASSUME CommittedInv, NEW w \in Workers, OthersGoOn(w), upload' = upload,
         InHand(w)' => upload[msg'[w]] = "committed",
         \A j \in Outstanding(w)' : upload[j] = "committed",
         \A j \in Jobs : upload[j] # "committed" =>
            status'[j] = status[j] /\ attempts'[j] = attempts[j] /\ (j \in aged' => j \in aged)
  PROVE  CommittedInv'
<1>1. \A x \in Workers \ {w} : (InHand(x)' => InHand(x)) /\ Outstanding(x)' = Outstanding(x)
  BY DEF OthersGoOn, InHand, Outstanding
<1>2. \A x \in Workers \ {w} : msg'[x] = msg[x]
  BY DEF OthersGoOn
<1> QED
  BY <1>1, <1>2 DEF CommittedInv

LEMMA CommittedStep == TypeInv /\ CommittedInv /\ [Next]_vars => CommittedInv'
<1> SUFFICES ASSUME TypeInv, CommittedInv, [Next]_vars PROVE CommittedInv'
  OBVIOUS
<1> USE DEF fileVars, jobVars, docVars, redisVars, workerVars, ghostVars
<1>1. ASSUME NEW j \in Jobs, UploadStep(j) \/ Age(j) PROVE CommittedInv'
  <2>1. /\ UNCHANGED <<status, attempts, workerVars>>
        /\ \A k \in Jobs : upload[k] = "committed" => upload'[k] = "committed"
        /\ \A k \in Jobs : k \in aged' => k \in aged \/ upload[k] = "committed"
    BY <1>1 DEF UploadStep, UploadEnqueue, UploadCommit, UploadRollback, Age, TypeInv, TypeOK
  <2>2. \A w \in Workers : (InHand(w)' <=> InHand(w)) /\ Outstanding(w)' = Outstanding(w)
                            /\ (InHand(w) => msg[w] \in Jobs) /\ Outstanding(w) \subseteq Jobs
    BY <2>1 DEF InHand, Outstanding, TypeInv, TypeOK, WorkerOK, MessagePCs
  <2> QED
    BY <2>1, <2>2 DEF CommittedInv
<1>2. ASSUME NEW w \in Workers, WorkerStep(w) PROVE CommittedInv'
  <2>0. /\ InHand(w) => upload[msg[w]] = "committed"
        /\ \A j \in Outstanding(w) : upload[j] = "committed"
        /\ \A j \in aged : upload[j] = "committed"
    <3>1. aged \subseteq Jobs
      BY DEF TypeInv, TypeOK
    <3> QED
      BY <3>1 DEF CommittedInv
  <2> USE DEF InHand, Outstanding, OthersGoOn
  <2>1. CASE Dequeue(w) \/ DropMessage(w) \/ Publish(w)
    <3>1. /\ OthersGoOn(w) /\ UNCHANGED <<upload, status, attempts, aged, found>>
          /\ pc'[w] \in {"idle", "claim"}
      BY <2>1 DEF Dequeue, DropMessage, Publish, ReleaseWorker, TypeInv, TypeOK
    <3> QED
      BY <2>0, <3>1, TouchesCommitted DEF HoldingPCs, StagePCs
  <2>2. CASE Claim(w)
    <3>1. /\ OthersGoOn(w) /\ UNCHANGED <<upload, found, msg>> /\ upload[msg[w]] = "committed"
          /\ aged' \subseteq aged
          /\ \A j \in Jobs \ {msg[w]} : status'[j] = status[j] /\ attempts'[j] = attempts[j]
      BY <2>2 DEF Claim, Claimable, TypeInv, TypeOK
    <3> QED
      BY <2>0, <3>1, TouchesCommitted
  <2>3. CASE \/ StageValidate(w) \/ StageScan(w) \/ StageParse(w) \/ StageOcr(w)
             \/ PersistPages(w) \/ StageChunk(w) \/ PersistChunks(w)
             \/ StagePlaceholder(w) \/ RaiseTransient(w) \/ LoadRow(w)
    <3>1. /\ OthersGoOn(w) /\ UNCHANGED <<upload, status, attempts, found, msg>>
          /\ pc[w] \in HoldingPCs /\ aged' \subseteq aged
      BY <2>3 DEF StageValidate, StageScan, StageParse, StageOcr, PersistPages, StageChunk,
         PersistChunks, StagePlaceholder, RaiseTransient, AdvanceStage, Proceed, EndRun, InRun,
         LoadRow, HoldingPCs, StagePCs, TypeInv, TypeOK
    <3> QED
      BY <2>0, <3>1, TouchesCommitted
  <2>4. CASE Finish(w) \/ Quarantine(w) \/ FailRetry(w) \/ FailTerminally(w)
    <3>1. /\ OthersGoOn(w) /\ UNCHANGED <<upload, attempts, found>>
          /\ pc[w] = "settling" /\ aged' \subseteq aged
          /\ pc'[w] = "idle" \/ (pc'[w] = "publish" /\ msg' = msg)
          /\ \A j \in Jobs \ {msg[w]} : status'[j] = status[j]
      BY <2>4 DEF Finish, Quarantine, FailRetry, FailTerminally, WriteStatus, ReleaseWorker,
         TypeInv, TypeOK
    <3> QED
      BY <2>0, <3>1, TouchesCommitted DEF HoldingPCs, StagePCs
  <2>5. CASE SelectStale(w)
    <3>1. /\ OthersGoOn(w) /\ UNCHANGED <<upload, status, attempts, aged, msg>>
          /\ Outstanding(w)' \subseteq aged /\ pc'[w] \in {"idle", "recover"}
      BY <2>5 DEF SelectStale, StaleRunning, StaleQueued, TypeInv, TypeOK
    <3> QED
      BY <2>0, <3>1, TouchesCommitted DEF HoldingPCs, StagePCs
  <2>6. CASE RequeueStale(w)
    <3>1. /\ OthersGoOn(w) /\ UNCHANGED <<upload, attempts, msg, found>>
          /\ aged' \subseteq aged /\ pc'[w] = "republish"
          /\ \A j \in Jobs : status'[j] = status[j] \/ j \in Outstanding(w)
      BY <2>6 DEF RequeueStale, TypeInv, TypeOK
    <3> QED
      BY <2>0, <3>1, TouchesCommitted DEF HoldingPCs, StagePCs
  <2>7. CASE PublishStale(w)
    <3>1. /\ OthersGoOn(w) /\ UNCHANGED <<upload, status, attempts, aged, msg>>
          /\ Outstanding(w)' \subseteq Outstanding(w) /\ pc'[w] \in {"idle", "republish"}
      BY <2>7 DEF PublishStale, TypeInv, TypeOK
    <3> QED
      BY <2>0, <3>1, TouchesCommitted DEF HoldingPCs, StagePCs
  <2> QED
    BY <1>2, <2>1, <2>2, <2>3, <2>4, <2>5, <2>6, <2>7 DEF WorkerStep
<1>3. ASSUME NEW w \in Workers, Crash(w) PROVE CommittedInv'
  <2>1. /\ OthersGoOn(w) /\ UNCHANGED <<upload, status, attempts, aged>>
        /\ Outstanding(w)' = {} /\ pc'[w] = "idle"
    BY <1>3 DEF Crash, ReleaseWorker, NothingFound, Outstanding, OthersGoOn, TypeInv, TypeOK
  <2> QED
    BY <2>1, TouchesCommitted DEF InHand, HoldingPCs, StagePCs
<1>4. CASE UNCHANGED vars
  BY <1>4 DEF vars, CommittedInv, InHand, Outstanding
<1> QED
  BY <1>1, <1>2, <1>3, <1>4 DEF Next

\* A step of the environment leaves every job as attended as it was.
LEMMA EnvironmentAttends ==
  ASSUME TypeInv, AttendedInv, NEW i \in Jobs, UploadStep(i) \/ Age(i)
  PROVE  AttendedInv'
<1> USE DEF fileVars, jobVars, docVars, redisVars, workerVars, ghostVars
<1>1. UNCHANGED <<status, attempts, crashes, pc, msg, verdict, skip, found>>
  BY DEF UploadStep, UploadEnqueue, UploadCommit, UploadRollback, Age
<1>3. \A j \in Jobs : InQueue(j) => InQueue(j)'
  <2>1. queue' = queue \/ queue' = Append(queue, i)
    BY DEF UploadStep, UploadEnqueue, UploadCommit, UploadRollback, Age
  <2> QED
    BY <2>1, Sent DEF InQueue, TypeInv, TypeOK
<1> QED
  BY <1>1, <1>3 DEF AttendedInv, Attended, Carried, CarriedBy, Owned, OwnedBy, Holds,
     Outstanding

\* A worker that goes on with its run, or reads the row to end it, still owns what it owned.
LEMMA RunAttends ==
  ASSUME TypeInv, AttendedInv, NEW w \in Workers,
         UNCHANGED <<upload, status, attempts, crashes, queue, msg, found>>,
         OthersGoOn(w), pc[w] \in HoldingPCs, pc'[w] \in HoldingPCs,
         pc'[w] = "settling" /\ status[msg[w]] = "running" => "status" \notin skip'[w]
  PROVE  AttendedInv'
<1> SUFFICES ASSUME crashes = 0, NEW j \in Jobs PROVE Attended(j)'
  BY DEF AttendedInv
<1>1. Attended(j)
  BY DEF AttendedInv
<1>2. ~CarriedBy(w, j)
  BY DEF CarriedBy, HoldingPCs, StagePCs
<1>3. Carried(j) => Carried(j)'
  BY <1>2, OthersAttend DEF Carried, InQueue
<1>4. status[j] = "running" /\ OwnedBy(w, j) => OwnedBy(w, j)'
  BY DEF OwnedBy, Holds
<1>5. status[j] = "running" /\ Owned(j) => Owned(j)'
  BY <1>4, OthersAttend DEF Owned
<1> QED
  BY <1>1, <1>3, <1>5 DEF Attended

\* A run that ends takes its job to the status it writes, or leaves the status alone; then
\* another worker owns the job, or carries its message.
LEMMA OutcomeAttends ==
  ASSUME TypeInv, AttendedInv, NEW w \in Workers,
         Finish(w) \/ Quarantine(w) \/ FailRetry(w) \/ FailTerminally(w)
  PROVE  AttendedInv'
<1> SUFFICES ASSUME crashes = 0, NEW j \in Jobs PROVE Attended(j)'
  BY DEF AttendedInv, Finish, Quarantine, FailRetry, FailTerminally, ghostVars
<1> DEFINE new == IF verdict[w] = "ready" THEN "succeeded"
                  ELSE IF verdict[w] = "retry" THEN "queued" ELSE "failed"
<1> USE DEF fileVars, redisVars, docVars, ghostVars
<1>1. Attended(j)
  BY DEF AttendedInv, Finish, Quarantine, FailRetry, FailTerminally
<1>2. /\ pc[w] = "settling" /\ OthersGoOn(w) /\ UNCHANGED <<upload, attempts, queue, found>>
      /\ status' = [status EXCEPT ![msg[w]] = WriteField(w, "status", @, new)]
  BY DEF Finish, Quarantine, FailRetry, FailTerminally, WriteStatus, ReleaseWorker, OthersGoOn,
     TypeInv, TypeOK
<1>3. verdict[w] = "retry" => pc'[w] = "publish" /\ msg' = msg /\ verdict' = verdict
  <2> SUFFICES ASSUME verdict[w] = "retry" PROVE FailRetry(w) /\ w \in DOMAIN pc
    BY DEF FailRetry
  <2> QED
    BY DEF Finish, Quarantine, FailTerminally, TypeInv, TypeOK
<1>4. ~CarriedBy(w, j)
  BY <1>2 DEF CarriedBy
<1>5. Carried(j) => Carried(j)'
  BY <1>2, <1>4, OthersAttend DEF Carried, InQueue
<1>6. status \in [Jobs -> Statuses] /\ pc \in [Workers -> PCs]
  BY DEF TypeInv, TypeOK
<1>7. ASSUME status'[j] = "running" PROVE Owned(j)'
  <2>1. status[j] = "running" /\ ~OwnedBy(w, j)
    BY <1>2, <1>6, <1>7 DEF WriteField, OwnedBy, Holds
  <2> QED
    BY <1>1, <1>2, <2>1, OthersAttend DEF Attended, Owned
<1>8. ASSUME status'[j] = "queued", attempts'[j] > 0 PROVE Carried(j)'
  <2>1. CASE status[j] = "queued"
    BY <1>1, <1>2, <1>5, <1>8, <2>1 DEF Attended
  <2>2. CASE status[j] # "queued"
    <3>1. j = msg[w] /\ verdict[w] = "retry"
      BY <1>2, <1>6, <1>8, <2>2 DEF WriteField
    <3>2. CarriedBy(w, j)'
      BY <1>3, <1>6, <3>1 DEF CarriedBy
    <3> QED
      BY <3>2 DEF Carried
  <2> QED
    BY <2>1, <2>2
<1> QED
  BY <1>7, <1>8 DEF Attended

\* Taking a message, claiming it, or dropping it: the one that is dropped was sent for
\* a job that is running, over, or not there.
LEMMA MessageAttends ==
  ASSUME TypeInv, CommittedInv, AttendedInv, NEW w \in Workers,
         Dequeue(w) \/ Claim(w) \/ DropMessage(w) \/ Publish(w)
  PROVE  AttendedInv'
<1> USE DEF fileVars, jobVars, docVars, redisVars, workerVars, ghostVars
<1>0. OthersGoOn(w) /\ UNCHANGED <<crashes, found>>
  BY DEF Dequeue, Claim, DropMessage, Publish, ReleaseWorker, OthersGoOn, TypeInv, TypeOK
<1> SUFFICES ASSUME crashes = 0, NEW j \in Jobs PROVE Attended(j)'
  BY <1>0 DEF AttendedInv
<1>1. Attended(j) /\ queue \in Seq(Jobs) /\ w \in DOMAIN pc /\ w \in DOMAIN msg
  BY DEF AttendedInv, TypeInv, TypeOK
<1>2. ~OwnedBy(w, j)
  BY DEF OwnedBy, Holds, HoldingPCs, StagePCs, Dequeue, Claim, DropMessage, Publish
<1>3. Owned(j) => Owned(j)'
  BY <1>0, <1>2, OthersAttend DEF Owned
<1>4. CASE Dequeue(w)
  <2>1. InQueue(j) => CarriedBy(w, j)' \/ InQueue(j)'
    BY <1>1, <1>4, Taken DEF Dequeue, CarriedBy
  <2>2. Carried(j) => Carried(j)'
    BY <1>0, <1>4, <2>1, OthersAttend DEF Carried, CarriedBy, Dequeue
  <2> QED
    BY <1>1, <1>3, <1>4, <2>2 DEF Attended, Dequeue
<1>5. CASE Claim(w)
  <2>1. CASE j = msg[w]
    <3>1. OwnedBy(w, j)' /\ status'[j] = "running"
      BY <1>1, <1>5, <2>1 DEF Claim, OwnedBy, Holds, HoldingPCs, StagePCs, TypeInv, TypeOK
    <3> QED
      BY <3>1 DEF Attended, Owned
  <2>2. CASE j # msg[w]
    <3>1. status'[j] = status[j] /\ attempts'[j] = attempts[j] /\ queue' = queue
          /\ ~CarriedBy(w, j)
      BY <1>5, <2>2 DEF Claim, CarriedBy, TypeInv, TypeOK
    <3>2. Carried(j) => Carried(j)'
      BY <1>0, <3>1, OthersAttend DEF Carried, InQueue
    <3> QED
      BY <1>1, <1>3, <3>1, <3>2 DEF Attended
  <2> QED
    BY <2>1, <2>2
<1>6. CASE DropMessage(w)
  <2>1. status[j] = "queued" /\ attempts[j] > 0 => ~CarriedBy(w, j)
    BY <1>6 DEF DropMessage, Claimable, CarriedBy, CommittedInv, TypeInv, TypeOK
  <2>2. status[j] = "queued" /\ attempts[j] > 0 /\ Carried(j) => Carried(j)'
    BY <1>0, <1>6, <2>1, OthersAttend DEF Carried, InQueue, DropMessage
  <2> QED
    BY <1>1, <1>3, <1>6, <2>2 DEF Attended, DropMessage
<1>7. CASE Publish(w)
  <2>1. /\ verdict[w] = "retry" => queue' = Append(queue, msg[w])
        /\ verdict[w] # "retry" => queue' = queue
        /\ msg[w] \in Jobs
    BY <1>7 DEF Publish, TypeInv, WorkerOK, MessagePCs
  <2>2. InQueue(j) \/ CarriedBy(w, j) => InQueue(j)'
    BY <1>1, <1>7, <2>1, Sent DEF CarriedBy, InQueue, Publish
  <2>3. Carried(j) => Carried(j)'
    BY <1>0, <2>2, OthersAttend DEF Carried
  <2> QED
    BY <1>1, <1>3, <1>7, <2>3 DEF Attended, Publish
<1> QED
  BY <1>4, <1>5, <1>6, <1>7

\* A scan takes RUNNING jobs from their workers only to send them a message each.
LEMMA ScanAttends ==
  ASSUME TypeInv, AttendedInv, NEW w \in Workers,
         SelectStale(w) \/ RequeueStale(w) \/ PublishStale(w)
  PROVE  AttendedInv'
<1> USE DEF fileVars, jobVars, docVars, redisVars, workerVars, ghostVars
<1>0. OthersGoOn(w) /\ UNCHANGED <<crashes, attempts>>
  BY DEF SelectStale, RequeueStale, PublishStale, OthersGoOn, TypeInv, TypeOK
<1> SUFFICES ASSUME crashes = 0, NEW j \in Jobs PROVE Attended(j)'
  BY <1>0 DEF AttendedInv
<1>1. Attended(j) /\ queue \in Seq(Jobs) /\ w \in DOMAIN pc /\ w \in DOMAIN found
  BY DEF AttendedInv, TypeInv, TypeOK
<1>2. ~OwnedBy(w, j)
  BY DEF OwnedBy, Holds, HoldingPCs, StagePCs, SelectStale, RequeueStale, PublishStale
<1>3. Owned(j) => Owned(j)'
  BY <1>0, <1>2, OthersAttend DEF Owned
<1>4. CASE SelectStale(w) \/ RequeueStale(w)
  <2>1. queue' = queue /\ ~CarriedBy(w, j)
    BY <1>4 DEF SelectStale, RequeueStale, CarriedBy
  <2>2. Carried(j) => Carried(j)'
    BY <1>0, <2>1, OthersAttend DEF Carried, InQueue
  <2>3. status'[j] = status[j] \/ (status'[j] = "queued" /\ CarriedBy(w, j)')
    BY <1>1, <1>4 DEF SelectStale, RequeueStale, CarriedBy, Outstanding
  <2> QED
    BY <1>0, <1>1, <1>3, <2>2, <2>3 DEF Attended, Carried
<1>5. CASE PublishStale(w)
  <2>1. PICK i \in Outstanding(w) :
          /\ queue' = Append(queue, i)
          /\ found' = [found EXCEPT ![w] = [running |-> @.running \ {i}, queued |-> @.queued \ {i}]]
          /\ pc' = [pc EXCEPT ![w] = IF Outstanding(w) = {i} THEN "idle" ELSE "republish"]
          /\ msg' = msg /\ status' = status
    BY <1>5 DEF PublishStale
  <2>2. i \in Jobs
    BY DEF Outstanding, TypeInv, TypeOK
  <2>3. InQueue(i)' /\ (InQueue(j) => InQueue(j)')
    BY <1>1, <2>1, <2>2, Sent
  <2>4. CarriedBy(w, j) => InQueue(j)' \/ CarriedBy(w, j)'
    BY <1>1, <1>5, <2>1, <2>3 DEF CarriedBy, Outstanding, PublishStale
  <2>5. Carried(j) => Carried(j)'
    BY <1>0, <2>3, <2>4, OthersAttend DEF Carried
  <2> QED
    BY <1>0, <1>1, <1>3, <2>1, <2>5 DEF Attended
<1> QED
  BY <1>4, <1>5

LEMMA AttendedStep ==
  TypeInv /\ CommittedInv /\ AttendedInv /\ [Next]_vars => AttendedInv'
<1> SUFFICES ASSUME TypeInv, CommittedInv, AttendedInv, [Next]_vars PROVE AttendedInv'
  OBVIOUS
<1> USE DEF fileVars, jobVars, docVars, redisVars, workerVars, ghostVars
<1>1. ASSUME NEW w \in Workers, WorkerStep(w) PROVE AttendedInv'
  <2>1. CASE \/ StageValidate(w) \/ StageScan(w) \/ StageParse(w) \/ StageOcr(w)
             \/ PersistPages(w) \/ StageChunk(w) \/ PersistChunks(w)
             \/ StagePlaceholder(w) \/ RaiseTransient(w) \/ LoadRow(w)
    <3>1. /\ UNCHANGED <<upload, status, attempts, crashes, queue, msg, found>>
          /\ OthersGoOn(w) /\ pc[w] \in HoldingPCs
      BY <2>1 DEF StageValidate, StageScan, StageParse, StageOcr, PersistPages, StageChunk,
         PersistChunks, StagePlaceholder, RaiseTransient, AdvanceStage, Proceed, EndRun, InRun,
         LoadRow, OthersGoOn, HoldingPCs, StagePCs, TypeInv, TypeOK
    <3>2. /\ pc'[w] \in HoldingPCs
          /\ pc'[w] = "settling" => LoadRow(w)
      BY <2>1 DEF StageValidate, StageScan, StageParse, StageOcr, PersistPages, StageChunk,
         PersistChunks, StagePlaceholder, RaiseTransient, Proceed, EndRun, PlaceholderNext,
         LoadRow, HoldingPCs, StagePCs, TypeInv, TypeOK
    <3>3. LoadRow(w) /\ status[msg[w]] = "running" => "status" \notin skip'[w]
      BY DEF LoadRow, TargetStatus, TypeInv, TypeOK
    <3> QED
      BY <3>1, <3>2, <3>3, RunAttends
  <2> QED
    BY <1>1, <2>1, OutcomeAttends, MessageAttends, ScanAttends DEF WorkerStep
<1>2. ASSUME NEW w \in Workers, Crash(w) PROVE AttendedInv'
  BY <1>2 DEF Crash, AttendedInv, TypeInv, TypeOK
<1>3. CASE UNCHANGED vars
  BY <1>3 DEF vars, AttendedInv, Attended, Carried, CarriedBy, Owned, OwnedBy, Holds,
     Outstanding, InQueue
<1> QED
  BY <1>1, <1>2, <1>3, EnvironmentAttends DEF Next

\* A job with no message and no worker, whose row says that it is not over.
Stranded(j) == upload[j] = "committed" /\ ~Settled(j) /\ ~InFlight(j)

\* The one way to strand a job without a crash: its message was taken before its row.
StrandedByTheEnqueue ==
    crashes = 0 => \A j \in Jobs : Stranded(j) => status[j] = "queued" /\ attempts[j] = 0

\* As long as no worker crashes, whatever exceptions, duplicates, retries and recoveries -
\* early ones included - there are, only a message that was dequeued before its upload
\* committed leaves a job to the recovery scan: a job that was ever claimed is carried to
\* its end by the workers and messages it has.
THEOREM OnlyTheEnqueueStrands == Spec => []StrandedByTheEnqueue
<1> DEFINE Inv == TypeInv /\ CommittedInv /\ AttendedInv
<1>1. Init => Inv
  <2> SUFFICES ASSUME Init PROVE CommittedInv /\ AttendedInv
    BY TypeInit
  <2>1. \A j \in Jobs : status[j] = "queued" /\ attempts[j] = 0 /\ j \notin aged
    BY DEF Init
  <2>2. \A w \in Workers : ~InHand(w) /\ Outstanding(w) = {}
    BY DEF Init, InHand, HoldingPCs, StagePCs, Outstanding, NothingFound
  <2> QED
    BY <2>1, <2>2 DEF CommittedInv, AttendedInv, Attended
<1>2. Inv /\ [Next]_vars => Inv'
  BY TypeStep, CommittedStep, AttendedStep
<1>3. Inv => StrandedByTheEnqueue
  <2> SUFFICES ASSUME Inv, crashes = 0, NEW j \in Jobs, Stranded(j)
               PROVE  status[j] = "queued" /\ attempts[j] = 0
    BY DEF StrandedByTheEnqueue
  <2>1. Attended(j) /\ status[j] \in {"queued", "running"} /\ attempts[j] \in Nat
    BY DEF AttendedInv, Stranded, Settled, Terminal, TypeInv, TypeOK, Statuses
  <2>2. ~Owned(j) /\ ~Carried(j)
    BY DEF Stranded, InFlight, Owned, OwnedBy, Holds, Carried, CarriedBy
  <2> QED
    BY <2>1, <2>2 DEF Attended
<1> HIDE DEF Inv
<1> QED
  BY <1>1, <1>2, <1>3, PTL DEF Spec

-----------------------------------------------------------------------------
(* Dead letters.                                                            *)

\* A worker is about to put j on the dead-letter list.
Listing(w, j) == pc[w] = "publish" /\ verdict[w] = "failed" /\ msg[w] = j
Listed(j) == j \in dead \/ \E w \in Workers : Listing(w, j)
Unlisted == {j \in Jobs : doc[j] = "failed" /\ ~Listed(j)}

\* Failed documents are on the dead-letter list, or about to be, up to one for each crash.
DeadLettersAccountedFor == IsFiniteSet(Unlisted) /\ Cardinality(Unlisted) <= crashes

\* Only a crash keeps a failed document from the list, and only the one in hand.
LEMMA UnlistedStep ==
  ASSUME TypeInv, [Next]_vars
  PROVE  \/ Unlisted' \subseteq Unlisted /\ crashes' = crashes
         \/ /\ crashes' = crashes + 1
            /\ \E w \in Workers : Unlisted' \subseteq Unlisted \cup {msg[w]}
<1> USE DEF fileVars, jobVars, docVars, redisVars, workerVars, ghostVars
<1>0. doc \in [Jobs -> DocStates] /\ pc \in [Workers -> PCs] /\ verdict \in [Workers -> Verdicts]
      /\ msg \in [Workers -> Jobs \cup {NoJob}]
  BY DEF TypeInv, TypeOK
<1> DEFINE others(w) == \A x \in Workers \ {w} : pc'[x] = pc[x] /\ msg'[x] = msg[x]
                                                 /\ verdict'[x] = verdict[x]
           kept(j) == doc'[j] = "failed" => doc[j] = "failed" \/ Listed(j)'
           listed(j) == Listed(j) => Listed(j)'
<1>a. (\A j \in Jobs : kept(j) /\ listed(j)) => Unlisted' \subseteq Unlisted
  BY DEF Unlisted
<1>1. ASSUME NEW i \in Jobs, UploadStep(i) \/ Age(i)
      PROVE  crashes' = crashes /\ \A j \in Jobs : kept(j) /\ listed(j)
  BY <1>1 DEF UploadStep, UploadEnqueue, UploadCommit, UploadRollback, Age, Listed, Listing
<1>2. ASSUME NEW w \in Workers, WorkerStep(w)
      PROVE  crashes' = crashes /\ \A j \in Jobs : kept(j) /\ listed(j)
  <2>0. crashes' = crashes
    BY <1>2 DEF WorkerStep, Dequeue, Claim, DropMessage, StageValidate, StageScan, StageParse,
       StageOcr, PersistPages, StageChunk, PersistChunks, StagePlaceholder, RaiseTransient, InRun,
       LoadRow, Finish, Quarantine, FailRetry, FailTerminally, Publish, SelectStale,
       RequeueStale, PublishStale
  <2> SUFFICES ASSUME NEW j \in Jobs PROVE kept(j) /\ listed(j)
    BY <2>0
  <2>1. CASE \/ StageValidate(w) \/ StageScan(w) \/ StageParse(w) \/ StageOcr(w)
             \/ PersistPages(w) \/ StageChunk(w) \/ PersistChunks(w)
             \/ StagePlaceholder(w) \/ RaiseTransient(w) \/ LoadRow(w)
    <3>1. /\ others(w) /\ UNCHANGED <<doc, dead>> /\ pc[w] \in HoldingPCs
      BY <1>0, <2>1 DEF StageValidate, StageScan, StageParse, StageOcr, PersistPages, StageChunk,
         PersistChunks, StagePlaceholder, RaiseTransient, AdvanceStage, Proceed, EndRun, InRun,
         LoadRow, HoldingPCs, StagePCs
    <3>2. ~Listing(w, j)
      BY <3>1 DEF Listing, HoldingPCs, StagePCs
    <3> QED
      BY <3>1, <3>2 DEF Listed, Listing
  <2>2. CASE \/ Dequeue(w) \/ Claim(w) \/ DropMessage(w)
             \/ SelectStale(w) \/ RequeueStale(w) \/ PublishStale(w)
    <3>1. /\ others(w) /\ UNCHANGED dead
          /\ doc'[j] = "failed" => doc[j] = "failed"
      BY <1>0, <2>2 DEF Dequeue, Claim, DropMessage, SelectStale, RequeueStale, PublishStale
    <3>2. ~Listing(w, j)
      BY <2>2 DEF Listing, Dequeue, Claim, DropMessage, SelectStale, RequeueStale, PublishStale
    <3> QED
      BY <3>1, <3>2 DEF Listed, Listing
  <2>3. CASE Finish(w) \/ Quarantine(w) \/ FailRetry(w)
    <3>1. /\ others(w) /\ UNCHANGED dead
          /\ doc'[j] = "failed" => doc[j] = "failed"
      BY <1>0, <2>3 DEF Finish, Quarantine, FailRetry, WriteDoc, WriteField, ReleaseWorker
    <3>2. ~Listing(w, j)
      BY <2>3 DEF Listing, Finish, Quarantine, FailRetry
    <3> QED
      BY <3>1, <3>2 DEF Listed, Listing
  <2>4. CASE FailTerminally(w)
    <3>1. /\ others(w) /\ UNCHANGED dead
          /\ j # msg[w] => doc'[j] = doc[j]
          /\ pc'[w] = "publish" /\ verdict'[w] = "failed" /\ msg' = msg /\ pc[w] = "settling"
      BY <1>0, <2>4 DEF FailTerminally, WriteDoc
    <3>2. ~Listing(w, j)
      BY <3>1 DEF Listing
    <3>3. listed(j)
      BY <3>1, <3>2 DEF Listed, Listing
    <3>4. j = msg[w] => Listed(j)'
      BY <3>1 DEF Listed, Listing
    <3> QED
      BY <3>1, <3>3, <3>4
  <2>5. CASE Publish(w)
    <3>1. /\ others(w) /\ UNCHANGED doc
          /\ dead \subseteq dead'
          /\ verdict[w] = "failed" => msg[w] \in dead'
      BY <1>0, <2>5 DEF Publish, ReleaseWorker
    <3> QED
      BY <3>1 DEF Listed, Listing
  <2> QED
    BY <1>2, <2>1, <2>2, <2>3, <2>4, <2>5 DEF WorkerStep
<1>3. ASSUME NEW w \in Workers, Crash(w)
      PROVE  crashes' = crashes + 1 /\ Unlisted' \subseteq Unlisted \cup {msg[w]}
  <2>1. others(w) /\ UNCHANGED <<doc, dead>> /\ crashes' = crashes + 1
    BY <1>0, <1>3 DEF Crash, ReleaseWorker
  <2>2. \A j \in Jobs \ {msg[w]} : listed(j)
    BY <2>1 DEF Listed, Listing
  <2> QED
    BY <2>1, <2>2 DEF Unlisted
<1>4. ASSUME UNCHANGED vars PROVE crashes' = crashes /\ \A j \in Jobs : kept(j) /\ listed(j)
  BY <1>4 DEF vars, Listed, Listing
<1> HIDE DEF kept, listed
<1>5. CASE \/ UNCHANGED vars \/ \E i \in Jobs : UploadStep(i) \/ Age(i)
           \/ \E w \in Workers : WorkerStep(w)
  BY <1>a, <1>1, <1>2, <1>4, <1>5
<1>6. CASE \E w \in Workers : Crash(w)
  BY <1>3, <1>6
<1> QED
  BY <1>5, <1>6 DEF Next

\* Every document that failed is on the dead-letter list, or its worker is at it, but for
\* at most one per crash: what run deadletter shows is all that can be missing.  Workers
\* that overtake each other, duplicates and recoveries keep nothing from the list.
THEOREM EachCrashLosesOneDeadLetter == Spec => []DeadLettersAccountedFor
<1> DEFINE Inv == TypeInv /\ DeadLettersAccountedFor
<1>1. Init => Inv
  <2> SUFFICES ASSUME Init PROVE DeadLettersAccountedFor
    BY TypeInit
  <2>1. Unlisted = {} /\ crashes = 0
    BY DEF Init, Unlisted
  <2> QED
    BY <2>1, FS_EmptySet DEF DeadLettersAccountedFor
<1>2. Inv /\ [Next]_vars => Inv'
  <2> SUFFICES ASSUME Inv, [Next]_vars PROVE DeadLettersAccountedFor'
    BY TypeStep
  <2>0. IsFiniteSet(Unlisted) /\ Cardinality(Unlisted) <= crashes /\ crashes \in Nat
        /\ Cardinality(Unlisted) \in Nat
    BY FS_CardinalityType DEF DeadLettersAccountedFor, TypeInv, TypeOK
  <2>1. CASE Unlisted' \subseteq Unlisted /\ crashes' = crashes
    <3>1. /\ IsFiniteSet(Unlisted') /\ Cardinality(Unlisted') <= Cardinality(Unlisted)
          /\ Cardinality(Unlisted') \in Nat
      BY <2>0, <2>1, FS_Subset, FS_CardinalityType
    <3> QED
      BY <2>0, <2>1, <3>1 DEF DeadLettersAccountedFor
  <2>2. ASSUME NEW w \in Workers, Unlisted' \subseteq Unlisted \cup {msg[w]}, crashes' = crashes + 1
        PROVE  DeadLettersAccountedFor'
    <3> DEFINE Upto == Unlisted \cup {msg[w]}
    <3>0. /\ IsFiniteSet(Upto)
          /\ \/ Cardinality(Upto) = Cardinality(Unlisted)
             \/ Cardinality(Upto) = Cardinality(Unlisted) + 1
      BY <2>0, FS_AddElement
    <3>1. /\ IsFiniteSet(Upto) /\ Cardinality(Upto) <= Cardinality(Unlisted) + 1
          /\ Cardinality(Upto) \in Nat
      <4> HIDE DEF Upto
      <4> QED
        BY <2>0, <3>0
    <3> HIDE DEF Upto
    <3>2. /\ IsFiniteSet(Unlisted') /\ Cardinality(Unlisted') <= Cardinality(Upto)
          /\ Cardinality(Unlisted') \in Nat
      BY <2>2, <3>1, FS_Subset, FS_CardinalityType DEF Upto
    <3> QED
      BY <2>0, <2>2, <3>1, <3>2 DEF DeadLettersAccountedFor
  <2> QED
    BY <2>1, <2>2, UnlistedStep
<1>3. Inv => DeadLettersAccountedFor
  OBVIOUS
<1> HIDE DEF Inv
<1> QED
  BY <1>1, <1>2, <1>3, PTL DEF Spec
=============================================================================
