--------------------------- MODULE IndexingProofs ---------------------------
(***************************************************************************)
(* Theorems about Indexing for every set of documents and presets and      *)
(* every bound, checked by TLAPS.                                          *)
(***************************************************************************)
EXTENDS Indexing, TLAPS

LEMMA RowsTyped == NoRows \in [Presets -> Nat] /\ \A p \in Presets : Batch(p) \in [Presets -> Nat]
  BY DEF NoRows, Batch

LEMMA InitTyped == Init => TypeOK
  BY PresetAssumption, RowsTyped
  DEF Init, TypeOK, Absent, Idle, DocRow, ConfigRow, JobRow, TaskState, RunState, RunStep, DocStatus, JobStatus, TaskStep, ScopedState

LEMMA RemoveRowTyped ==
  ASSUME TypeOK, NEW d \in Docs, RemoveRow(d)
  PROVE  /\ docs' \in [Docs -> DocRow]
         /\ rows' \in [Docs -> [Presets -> Nat]]
         /\ sessions' \in [Docs -> ScopedState]
  BY RowsTyped DEF TypeOK, RemoveRow, Absent, DocRow, DocStatus, ScopedState

LEMMA StartProcessingTyped ==
  ASSUME TypeOK, NEW d \in Docs, NEW reset \in BOOLEAN, StartProcessing(d, reset)
  PROVE  /\ docs' \in [Docs -> DocRow]
         /\ rows' \in [Docs -> [Presets -> Nat]]
         /\ sessions' \in [Docs -> ScopedState]
         /\ chat' \in [Docs -> ScopedState]
  BY RowsTyped DEF TypeOK, StartProcessing, DocRow, DocStatus, ScopedState

LEMMA PublishIndexTyped ==
  ASSUME TypeOK, NEW d \in Docs, NEW p \in Presets, NEW v \in Nat, PublishIndex(d, p, v)
  PROVE  /\ docs' \in [Docs -> DocRow]
         /\ rows' \in [Docs -> [Presets -> Nat]]
  <1>1. rows[d] \in [Presets -> Nat] /\ rows[d][p] + 1 \in Nat
    BY DEF TypeOK
  <1>2. [rows[d] EXCEPT ![p] = @ + 1] \in [Presets -> Nat]
    BY <1>1
  <1>3. rows' \in [Docs -> [Presets -> Nat]]
    BY <1>1, <1>2 DEF TypeOK, PublishIndex
  <1>4. docs' \in [Docs -> DocRow]
    <2>1. [docs[d] EXCEPT !.status = "indexed", !.preset = p, !.version = v] \in DocRow
      BY DEF TypeOK, DocRow, DocStatus
    <2> QED BY <2>1 DEF TypeOK, PublishIndex
  <1> QED BY <1>3, <1>4

LEMMA MarkFailedTyped ==
  ASSUME TypeOK, NEW d \in Docs, MarkFailed(d)
  PROVE  docs' \in [Docs -> DocRow]
  BY DEF TypeOK, MarkFailed, Exists, DocRow, DocStatus

LEMMA CountersTyped ==
  ASSUME TypeOK, Fault \/ Outage \/ NoFault
  PROVE  faults' \in Nat /\ outages' \in Nat
  BY DEF TypeOK, Fault, Outage, NoFault

\* The steps of one document: its upload, its indexing thread, its deletion
\* and the chats scoped to it keep the types.
LEMMA DocumentStepTyped ==
  ASSUME TypeOK, NEW d \in Docs, DocumentStep(d)
  PROVE  TypeOK'
  <1> USE DEF At, Goto, Upload, IndexingTask, Delete
  <1>a. docs[d] \in DocRow /\ task[d] \in TaskState /\ config \in ConfigRow
    BY DEF TypeOK
  <1>b. \A pc \in TaskStep : [task[d] EXCEPT !.pc = pc] \in TaskState
    BY <1>a DEF TaskState
  <1>c. \A pc \in TaskStep : [task EXCEPT ![d].pc = pc] \in [Docs -> TaskState]
    BY <1>b DEF TypeOK
  <1>1. CASE AdmitUpload(d)
    BY <1>1, <1>c DEF TypeOK, AdmitUpload, TaskStep
  <1>2. CASE CreateDocument(d)
    <2>1. [Absent EXCEPT !.status = "uploaded"] \in DocRow
      BY DEF Absent, DocRow, DocStatus
    <2> QED BY <1>2, <1>c, <2>1 DEF TypeOK, CreateDocument, TaskStep
  <1>3. CASE SaveUploadFile(d)
    BY <1>3, <1>c DEF TypeOK, SaveUploadFile, TaskStep
  <1>4. CASE UpdateFilePath(d)
    <2>1. [task[d] EXCEPT !.pc = "queued", !.reset = FALSE] \in TaskState
      BY <1>a DEF TaskState, TaskStep
    <2>2. [docs[d] EXCEPT !.path = TRUE] \in DocRow
      BY <1>a DEF DocRow
    <2> QED BY <1>4, <1>c, <2>1, <2>2 DEF TypeOK, UpdateFilePath, TaskStep
  <1>5. CASE RejectUpload(d)
    BY <1>5, <1>c, RemoveRowTyped DEF TypeOK, RejectUpload, TaskStep
  <1>6. CASE CleanRejectedUpload(d)
    BY <1>6, <1>c, CountersTyped DEF TypeOK, CleanRejectedUpload, TaskStep
  <1>7. CASE BeginTask(d)
    <2>1. CASE Exists(d)
      <3>1. task[d].reset \in BOOLEAN
        BY <1>a DEF TaskState
      <3>2. [task[d] EXCEPT !.pc = "indexing", !.preset = config.active,
                            !.version = config.version] \in TaskState
        BY <1>a DEF TaskState, TaskStep, ConfigRow
      <3>3. /\ task' \in [Docs -> TaskState]
            /\ StartProcessing(d, task[d].reset)
            /\ bypassed' \subseteq Docs
        BY <1>7, <2>1, <3>2 DEF TypeOK, BeginTask
      <3> QED BY <1>7, <3>1, <3>3, StartProcessingTyped DEF TypeOK, BeginTask
    <2>2. CASE ~Exists(d)
      BY <1>7, <1>c, <2>2 DEF TypeOK, BeginTask, TaskStep
    <2> QED BY <2>1, <2>2
  <1>8. CASE FinishTask(d)
    <2>1. task[d].preset \in Presets /\ task[d].version \in Nat
      BY <1>a DEF TaskState
    <2>2. PublishIndex(d, task[d].preset, task[d].version)
      BY <1>8 DEF FinishTask
    <2>3. /\ docs' \in [Docs -> DocRow]
          /\ rows' \in [Docs -> [Presets -> Nat]]
      BY <2>1, <2>2, PublishIndexTyped
    <2> QED BY <1>8, <1>c, <2>3 DEF TypeOK, FinishTask, TaskStep
  <1>9. CASE FailTask(d)
    BY <1>9, <1>c, MarkFailedTyped, CountersTyped DEF TypeOK, FailTask, TaskStep
  <1>10. CASE LoseTask(d)
    BY <1>10, <1>c, CountersTyped DEF TypeOK, LoseTask, TaskStep
  <1>11. CASE AdmitDelete(d)
    BY <1>11 DEF TypeOK, AdmitDelete
  <1>12. CASE DeleteDocument(d)
    BY <1>12, RemoveRowTyped DEF TypeOK, DeleteDocument
  <1>13. CASE DeleteFiles(d)
    BY <1>13, CountersTyped DEF TypeOK, DeleteFiles
  <1>14. CASE AdmitChat(d)
    BY <1>14 DEF TypeOK, AdmitChat, ScopedState
  <1>15. CASE PersistChat(d)
    BY <1>15 DEF TypeOK, PersistChat, ScopedState
  <1>16. CASE LoseUpload(d)
    <2>1. [docs[d] EXCEPT !.path = TRUE] \in DocRow
      BY <1>a DEF DocRow
    <2> QED BY <1>16, <1>c, <2>1, CountersTyped DEF TypeOK, LoseUpload, TaskStep
  <1> QED
    BY <1>1, <1>2, <1>3, <1>4, <1>5, <1>6, <1>7, <1>8, <1>9, <1>10, <1>11,
       <1>12, <1>13, <1>14, <1>15, <1>16
    DEF DocumentStep

LEMMA OpenWindowTyped ==
  ASSUME TypeOK, NEW j \in JobIds, NEW p \in Presets, OpenWindow(j, p)
  PROVE  /\ config' \in ConfigRow
         /\ jobs' \in [JobIds -> JobRow]
         /\ run' \in [JobIds -> RunState]
  <1>1. config.version + 1 \in Nat
    BY DEF TypeOK, ConfigRow
  <1>2. [status |-> "pending", target |-> p, version |-> config.version + 1,
         rebuild |-> TRUE, errors |-> FALSE] \in JobRow
    BY <1>1 DEF JobRow, JobStatus
  <1>3. [Idle EXCEPT !.pc = "queued"] \in RunState
    BY DEF Idle, RunState, RunStep
  <1>4. config' \in ConfigRow
    BY DEF TypeOK, OpenWindow, ConfigRow
  <1> QED BY <1>2, <1>3, <1>4 DEF TypeOK, OpenWindow

LEMMA IdleTyped == Idle \in RunState
  BY DEF Idle, RunState, RunStep

\* The steps of one reindex job and of the requests that create it.
LEMMA JobStepTyped ==
  ASSUME TypeOK, NEW j \in JobIds, JobStep(j)
  PROVE  TypeOK'
  <1>a. jobs[j] \in JobRow /\ run[j] \in RunState /\ config \in ConfigRow
    BY DEF TypeOK
  <1>b. /\ jobs[j].target \in Presets /\ jobs[j].version \in Nat
        /\ jobs[j].rebuild \in BOOLEAN
    BY <1>a DEF JobRow
  <1>1. ASSUME NEW p \in Presets, StartPresetChange(j, p) PROVE TypeOK'
    <2>1. CASE SameChunking(config.active, p)
      <3>1. [status |-> "completed", target |-> p, version |-> config.version,
             rebuild |-> FALSE, errors |-> FALSE] \in JobRow
        BY <1>a DEF JobRow, JobStatus, ConfigRow
      <3>2. [config EXCEPT !.active = p] \in ConfigRow
        BY <1>a DEF ConfigRow
      <3> QED BY <1>1, <2>1, <3>1, <3>2 DEF TypeOK, StartPresetChange
    <2>2. CASE ~SameChunking(config.active, p)
      <3>1. OpenWindow(j, p)
        BY <1>1, <2>2 DEF StartPresetChange
      <3> QED BY <1>1, <3>1, OpenWindowTyped DEF TypeOK, StartPresetChange
    <2> QED BY <2>1, <2>2
  <1>2. ASSUME NEW old \in JobIds, RetryReindexJob(j, old) PROVE TypeOK'
    <2>1. jobs[old].target \in Presets
      BY DEF TypeOK, JobRow
    <2>2. OpenWindow(j, jobs[old].target)
      BY <1>2 DEF RetryReindexJob
    <2> QED BY <1>2, <2>1, <2>2, OpenWindowTyped DEF TypeOK, RetryReindexJob
  <1>3. CASE BeginJob(j)
    <2>1. [jobs[j] EXCEPT !.status = "running"] \in JobRow
      BY <1>a DEF JobRow, JobStatus
    <2>2. \A todo \in SUBSET Docs :
            [pc |-> "listed", doc |-> None, todo |-> todo] \in RunState
      BY DEF RunState, RunStep
    <2>3. jobs' \in [JobIds -> JobRow]
      BY <1>3, <2>1 DEF TypeOK, BeginJob
    <2>4. run' \in [JobIds -> RunState]
      <3> DEFINE todo == IF jobs[j].rebuild THEN {d \in Docs : Exists(d)} ELSE {}
      <3>1. [pc |-> "listed", doc |-> None, todo |-> todo] \in RunState
        BY <2>2
      <3> QED BY <1>3, <3>1, IdleTyped DEF TypeOK, BeginJob
    <2> QED BY <1>3, <2>3, <2>4 DEF TypeOK, BeginJob
  <1>4. ASSUME NEW d \in Docs, BeginJobDocument(j, d) PROVE TypeOK'
    <2>1. CASE Exists(d)
      <3>1. [pc |-> "indexing", doc |-> d, todo |-> run[j].todo \ {d}] \in RunState
        BY <1>a DEF RunState, RunStep
      <3>2. run' \in [JobIds -> RunState]
        BY <1>4, <2>1, <3>1 DEF TypeOK, BeginJobDocument
      <3>3. StartProcessing(d, jobs[j].rebuild) /\ bypassed' \subseteq Docs
        BY <1>4, <2>1 DEF TypeOK, BeginJobDocument
      <3> QED BY <1>4, <2>1, <1>b, <3>2, <3>3, StartProcessingTyped
          DEF TypeOK, BeginJobDocument
    <2>2. CASE ~Exists(d)
      <3>1. [jobs[j] EXCEPT !.errors = TRUE] \in JobRow
        BY <1>a DEF JobRow
      <3>2. [run[j] EXCEPT !.todo = @ \ {d}] \in RunState
        BY <1>a DEF RunState
      <3> QED BY <1>4, <2>2, <3>1, <3>2 DEF TypeOK, BeginJobDocument
    <2> QED BY <2>1, <2>2
  <1>5. ASSUME NEW d \in Docs, FinishJobDocument(j, d) PROVE TypeOK'
    <2>1. PublishIndex(d, jobs[j].target, jobs[j].version)
      BY <1>5 DEF FinishJobDocument
    <2>2. [run[j] EXCEPT !.pc = "listed", !.doc = None] \in RunState
      BY <1>a DEF RunState, RunStep
    <2> QED BY <1>5, <1>b, <2>1, <2>2, PublishIndexTyped
        DEF TypeOK, FinishJobDocument
  <1>6. ASSUME NEW d \in Docs, FailJobDocument(j, d) PROVE TypeOK'
    <2>1. [jobs[j] EXCEPT !.errors = TRUE] \in JobRow
      BY <1>a DEF JobRow
    <2>2. [pc |-> "listed", doc |-> None, todo |-> run[j].todo \ {d}] \in RunState
      BY <1>a DEF RunState, RunStep
    <2>3. docs' \in [Docs -> DocRow] /\ faults' \in Nat /\ outages' \in Nat
      BY <1>6, MarkFailedTyped, CountersTyped DEF FailJobDocument
    <2> QED BY <1>6, <2>1, <2>2, <2>3 DEF TypeOK, FailJobDocument
  <1>7. CASE FinishJob(j)
    <2>1. \A s \in JobStatus : [jobs[j] EXCEPT !.status = s] \in JobRow
      BY <1>a DEF JobRow
    <2>2. config' \in ConfigRow
      <3>1. [active |-> jobs[j].target, pending |-> None,
             version |-> jobs[j].version, maintenance |-> FALSE] \in ConfigRow
        BY <1>b DEF ConfigRow
      <3> QED BY <1>7, <3>1 DEF FinishJob
    <2>3. jobs' \in [JobIds -> JobRow]
      <3> DEFINE s == IF jobs[j].errors THEN "completed_with_errors" ELSE "completed"
      <3>1. s \in JobStatus
        BY DEF JobStatus
      <3>2. [jobs[j] EXCEPT !.status = s] \in JobRow
        BY <2>1, <3>1
      <3>3. jobs' = [jobs EXCEPT ![j] = [jobs[j] EXCEPT !.status = s]]
        BY <1>7 DEF FinishJob
      <3> HIDE DEF s
      <3> QED BY <3>2, <3>3 DEF TypeOK
    <2> QED BY <1>7, <2>2, <2>3, IdleTyped DEF TypeOK, FinishJob
  <1>8. CASE AbortJob(j)
    <2>1. [jobs[j] EXCEPT !.status = "failed"] \in JobRow
      BY <1>a DEF JobRow, JobStatus
    <2>2. [config EXCEPT !.pending = None, !.maintenance = FALSE] \in ConfigRow
      BY <1>a DEF ConfigRow
    <2> QED BY <1>8, <2>1, <2>2, IdleTyped, CountersTyped DEF TypeOK, AbortJob
  <1>9. CASE LoseJob(j)
    BY <1>9, IdleTyped, CountersTyped DEF TypeOK, LoseJob
  <1> QED
    BY <1>1, <1>2, <1>3, <1>4, <1>5, <1>6, <1>7, <1>8, <1>9 DEF JobStep, ReindexJob

LEMMA RestartTyped ==
  ASSUME TypeOK, Crash \/ StartUp
  PROVE  TypeOK'
  <1>1. CASE Crash
    <2>1. task' \in [Docs -> TaskState]
      <3>1. ASSUME NEW d \in Docs
            PROVE  [task[d] EXCEPT !.pc = IF @ \in {"new", "admitted"}
                                            THEN "new" ELSE "done"] \in TaskState
        BY DEF TypeOK, TaskState, TaskStep
      <3> QED BY <1>1, <3>1 DEF Crash
    <2> QED BY <1>1, <2>1, IdleTyped DEF TypeOK, Crash, ScopedState
  <1>2. CASE RecoverInterruptedReindexJobs
    <2>1. CASE /\ UnfinishedJobs = {} /\ UNCHANGED jobs
               /\ config' = [config EXCEPT !.pending = None, !.maintenance = FALSE]
      <3>1. [config EXCEPT !.pending = None, !.maintenance = FALSE] \in ConfigRow
        BY DEF TypeOK, ConfigRow
      <3> QED BY <1>2, <2>1, <3>1 DEF TypeOK, RecoverInterruptedReindexJobs
    <2>2. ASSUME NEW owner \in UnfinishedJobs,
                 config' = [config EXCEPT !.pending = jobs[owner].target,
                                          !.maintenance = TRUE],
                 jobs' = [j \in JobIds |->
                   IF j = owner
                     THEN [jobs[j] EXCEPT !.status = "pending", !.errors = FALSE]
                   ELSE IF Unfinished(j) THEN [jobs[j] EXCEPT !.status = "failed"]
                   ELSE jobs[j]]
          PROVE  TypeOK'
      <3>1. jobs[owner].target \in Presets
        BY DEF TypeOK, JobRow, UnfinishedJobs
      <3>2. config' \in ConfigRow
        BY <2>2, <3>1 DEF TypeOK, ConfigRow
      <3>3. ASSUME NEW j \in JobIds
            PROVE  /\ jobs[j] \in JobRow
                   /\ [jobs[j] EXCEPT !.status = "pending", !.errors = FALSE] \in JobRow
                   /\ [jobs[j] EXCEPT !.status = "failed"] \in JobRow
        BY DEF TypeOK, JobRow, JobStatus
      <3>4. jobs' \in [JobIds -> JobRow]
        BY <2>2, <3>3
      <3> QED BY <1>2, <3>2, <3>4 DEF TypeOK, RecoverInterruptedReindexJobs
    <2> QED BY <1>2, <2>1, <2>2 DEF RecoverInterruptedReindexJobs
  <1>3. CASE PrepareInterruptedDocuments
    <2>1. docs' \in [Docs -> DocRow]
      <3>1. ASSUME NEW d \in Docs
            PROVE  [docs[d] EXCEPT !.status =
                      IF Recoverable(d) THEN "uploaded"
                      ELSE IF Active(d) THEN "failed" ELSE @] \in DocRow
        BY DEF TypeOK, DocRow, DocStatus
      <3> QED BY <1>3, <3>1 DEF TypeOK, PrepareInterruptedDocuments
    <2>2. task' \in [Docs -> TaskState]
      <3>1. ASSUME NEW d \in Docs
            PROVE  [task[d] EXCEPT !.pc = "queued", !.reset = TRUE] \in TaskState
        BY DEF TypeOK, TaskState, TaskStep
      <3> QED BY <1>3, <3>1 DEF TypeOK, PrepareInterruptedDocuments
    <2>3. run' \in [JobIds -> RunState]
      <3>1. [Idle EXCEPT !.pc = "queued"] \in RunState
        BY DEF Idle, RunState, RunStep
      <3> QED BY <1>3, <3>1 DEF TypeOK, PrepareInterruptedDocuments
    <2> QED BY <1>3, <2>1, <2>2, <2>3 DEF TypeOK, PrepareInterruptedDocuments
  <1> QED BY <1>1, <1>2, <1>3 DEF StartUp

\* Every variable of the component keeps its type.
THEOREM TypeCorrect == Spec => []TypeOK
  <1>1. TypeOK /\ [Next]_vars => TypeOK'
    <2> SUFFICES ASSUME TypeOK, [Next]_vars PROVE TypeOK'
      OBVIOUS
    <2>1. CASE UNCHANGED vars
      BY <2>1 DEF TypeOK, vars
    <2> QED BY <2>1, DocumentStepTyped, JobStepTyped, RestartTyped DEF Next
  <1> QED BY <1>1, InitTyped, PTL DEF Spec

-----------------------------------------------------------------------------
(* One owner of the maintenance window.                                    *)

\* What makes it inductive: jobs are numbered in order, and a thread only runs
\* for an unfinished job.
OwnerInv ==
  /\ WindowHasOneOwner
  /\ \A i, j \in JobIds : i < j /\ jobs[j].status # "none" => jobs[i].status # "none"
  /\ \A j \in JobIds : run[j].pc # "off" => Unfinished(j)

LEMMA InitOwner == Init => OwnerInv
  BY DEF Init, OwnerInv, WindowHasOneOwner, UnfinishedJobs, Unfinished, Idle

\* Documents, deletions and chats never touch the configuration or the jobs.
LEMMA DocumentStepKeepsJobs ==
  ASSUME NEW d \in Docs, DocumentStep(d)
  PROVE  UNCHANGED <<config, jobs, run>>
  BY DEF DocumentStep, Upload, IndexingTask, Delete, AdmitUpload, CreateDocument,
         SaveUploadFile, LoseUpload, UpdateFilePath, RejectUpload, CleanRejectedUpload,
         LoseUpload, BeginTask, FinishTask, FailTask, LoseTask, AdmitDelete, DeleteDocument,
         DeleteFiles, AdmitChat, PersistChat

LEMMA OpenWindowOwner ==
  ASSUME TypeOK, OwnerInv, NEW j \in JobIds, NEW p \in Presets,
         WindowFree, NextJob(j), OpenWindow(j, p)
  PROVE  OwnerInv'
  <1>a. UnfinishedJobs = {} /\ \A i \in JobIds : ~Unfinished(i) /\ run[i].pc = "off"
    BY DEF OwnerInv, WindowHasOneOwner, WindowFree, UnfinishedJobs, TypeOK, RunState
  <1>b. /\ jobs'[j].status = "pending" /\ jobs'[j].target = p
        /\ jobs'[j].version = config.version + 1 /\ jobs'[j].rebuild
        /\ \A i \in JobIds : i # j => jobs'[i] = jobs[i]
    BY DEF OpenWindow, TypeOK
  <1>c. /\ config'.maintenance = TRUE /\ config'.pending = p
        /\ config'.version = config.version
    BY DEF OpenWindow, TypeOK, ConfigRow
  <1>d. \A i \in JobIds : i # j => run'[i] = run[i]
    BY DEF OpenWindow, TypeOK
  <1>e. \A i \in JobIds : i > j => jobs[i].status = "none"
    BY DEF NextJob, OwnerInv
  <1>f. \A i \in JobIds : i < j => jobs[i].status # "none"
    BY DEF NextJob, JobIds
  <1>g. \A i \in JobIds : Unfinished(i)' <=> i = j
    BY <1>a, <1>b DEF Unfinished
  <1>h. UnfinishedJobs' = {j}
    BY <1>g DEF UnfinishedJobs
  <1>i. \A i \in JobIds : i > j => jobs'[i].status = "none"
    BY <1>b, <1>e DEF JobIds
  <1>1. WindowHasOneOwner'
    BY <1>b, <1>c, <1>g, <1>h, <1>i DEF WindowHasOneOwner
  <1>2. (\A i, k \in JobIds : i < k /\ jobs[k].status # "none" => jobs[i].status # "none")'
    BY <1>b, <1>e, <1>f DEF OwnerInv, JobIds
  <1>3. (\A i \in JobIds : run[i].pc # "off" => Unfinished(i))'
    BY <1>a, <1>d, <1>g
  <1> QED BY <1>1, <1>2, <1>3 DEF OwnerInv

\* A job that ends gives the window back: no job is unfinished any more.
LEMMA EndJobOwner ==
  ASSUME TypeOK, OwnerInv, NEW j \in JobIds, Unfinished(j),
         NEW s \in {"failed", "completed", "completed_with_errors"},
         jobs' = [jobs EXCEPT ![j].status = s],
         run' = [run EXCEPT ![j] = Idle],
         config'.maintenance = FALSE, config'.pending = None
  PROVE  OwnerInv'
  <1>a. /\ jobs'[j].status = s
        /\ \A i \in JobIds : i # j => jobs'[i] = jobs[i]
    BY DEF TypeOK, JobRow
  <1>b. \A i \in JobIds : ~Unfinished(i)'
    BY <1>a DEF OwnerInv, WindowHasOneOwner, Unfinished
  <1>c. \A i \in JobIds : jobs'[i].status = "none" <=> jobs[i].status = "none"
    BY <1>a DEF Unfinished
  <1>d. \A i \in JobIds : run'[i].pc = "off"
    <2> SUFFICES ASSUME NEW i \in JobIds PROVE run'[i].pc = "off"
      OBVIOUS
    <2>1. CASE i = j
      BY <2>1 DEF TypeOK, Idle
    <2>2. CASE i # j
      <3>1. ~Unfinished(i)
        BY <2>2 DEF OwnerInv, WindowHasOneOwner
      <3> QED BY <2>2, <3>1 DEF OwnerInv, TypeOK
    <2> QED BY <2>1, <2>2
  <1> QED BY <1>b, <1>c, <1>d DEF OwnerInv, WindowHasOneOwner, UnfinishedJobs

\* A step that leaves the configuration alone and keeps every job's place,
\* target and version keeps the owner.
LEMMA SameJobsOwner ==
  ASSUME OwnerInv, config' = config,
         \A i \in JobIds : /\ Unfinished(i)' <=> Unfinished(i)
                           /\ jobs'[i].target = jobs[i].target
                           /\ jobs'[i].version = jobs[i].version
                           /\ jobs'[i].rebuild = jobs[i].rebuild
                           /\ jobs'[i].status = "none" <=> jobs[i].status = "none"
                           /\ run'[i].pc # "off" => Unfinished(i)
  PROVE  OwnerInv'
  BY DEF OwnerInv, WindowHasOneOwner, UnfinishedJobs

LEMMA JobStepOwner ==
  ASSUME TypeOK, OwnerInv, NEW j \in JobIds, JobStep(j)
  PROVE  OwnerInv'
  <1>a. jobs[j] \in JobRow /\ run[j] \in RunState /\ config \in ConfigRow
    BY DEF TypeOK
  <1>1. ASSUME NEW p \in Presets, StartPresetChange(j, p) PROVE OwnerInv'
    <2>1. CASE SameChunking(config.active, p)
      <3>1. /\ jobs'[j].status = "completed"
            /\ \A i \in JobIds : i # j => jobs'[i] = jobs[i]
            /\ run' = run
            /\ config'.maintenance = config.maintenance
            /\ config'.pending = config.pending
        BY <1>1, <2>1, <1>a DEF StartPresetChange, TypeOK, ConfigRow
      <3>2. \A i \in JobIds : ~Unfinished(i)
        BY <1>1 DEF OwnerInv, WindowHasOneOwner, StartPresetChange, WindowFree,
                    UnfinishedJobs
      <3>3. \A i \in JobIds : ~Unfinished(i)'
        BY <3>1, <3>2 DEF Unfinished
      <3>4. \A i \in JobIds : i < j => jobs[i].status # "none"
        BY <1>1 DEF StartPresetChange, NextJob, JobIds
      <3>5. jobs[j].status = "none"
        BY <1>1 DEF StartPresetChange, NextJob
      <3>6. (\A i, k \in JobIds : i < k /\ jobs[k].status # "none"
                                    => jobs[i].status # "none")'
        BY <3>1, <3>4, <3>5 DEF OwnerInv, JobIds
      <3> QED BY <1>1, <3>1, <3>2, <3>3, <3>6
          DEF OwnerInv, WindowHasOneOwner, UnfinishedJobs, StartPresetChange, WindowFree
    <2>2. CASE ~SameChunking(config.active, p)
      BY <1>1, <2>2, OpenWindowOwner DEF StartPresetChange
    <2> QED BY <2>1, <2>2
  <1>2. ASSUME NEW old \in JobIds, RetryReindexJob(j, old) PROVE OwnerInv'
    <2>1. jobs[old].target \in Presets
      BY DEF TypeOK, JobRow
    <2> QED BY <1>2, <2>1, OpenWindowOwner DEF RetryReindexJob
  <1>3. CASE BeginJob(j)
    <2>1. Unfinished(j)
      BY <1>3 DEF OwnerInv, BeginJob
    <2>2. \A i \in JobIds : i # j => jobs'[i] = jobs[i] /\ run'[i] = run[i]
      BY <1>3 DEF BeginJob, TypeOK
    <2>3. /\ jobs'[j].status \in {"pending", "running"}
          /\ jobs'[j].target = jobs[j].target
          /\ jobs'[j].version = jobs[j].version
          /\ jobs'[j].rebuild = jobs[j].rebuild
      <3>1. CASE jobs[j].status = "pending"
        <4>1. jobs' = [jobs EXCEPT ![j].status = "running"]
          BY <1>3, <3>1 DEF BeginJob
        <4> QED BY <1>a, <4>1 DEF TypeOK, JobRow
      <3>2. CASE jobs[j].status # "pending"
        BY <1>3, <2>1, <3>2 DEF BeginJob, Unfinished
      <3> QED BY <3>1, <3>2
    <2> QED BY <1>3, <2>1, <2>2, <2>3, SameJobsOwner DEF BeginJob, OwnerInv, Unfinished
  <1>4. ASSUME NEW d \in Docs, \/ BeginJobDocument(j, d) \/ FinishJobDocument(j, d)
                               \/ FailJobDocument(j, d)
        PROVE  OwnerInv'
    <2>1. Unfinished(j) /\ config' = config
      BY <1>4 DEF OwnerInv, BeginJobDocument, FinishJobDocument, FailJobDocument
    <2>2. jobs' = jobs \/ jobs' = [jobs EXCEPT ![j].errors = TRUE]
      BY <1>4 DEF BeginJobDocument, FinishJobDocument, FailJobDocument
    <2>3. \A i \in JobIds : /\ jobs'[i].status = jobs[i].status
                            /\ jobs'[i].target = jobs[i].target
                            /\ jobs'[i].version = jobs[i].version
                            /\ jobs'[i].rebuild = jobs[i].rebuild
      BY <2>2 DEF TypeOK, JobRow
    <2>4. \A i \in JobIds : i # j => run'[i] = run[i]
      BY <1>4 DEF BeginJobDocument, FinishJobDocument, FailJobDocument, TypeOK
    <2> QED BY <2>1, <2>3, <2>4, SameJobsOwner DEF OwnerInv, Unfinished
  <1>5. CASE FinishJob(j)
    <2> DEFINE s == IF jobs[j].errors THEN "completed_with_errors" ELSE "completed"
    <2>1. s \in {"failed", "completed", "completed_with_errors"}
      OBVIOUS
    <2>2. jobs' = [jobs EXCEPT ![j].status = s]
      BY <1>5 DEF FinishJob
    <2> HIDE DEF s
    <2>3. Unfinished(j) /\ config'.maintenance = FALSE /\ config'.pending = None
      BY <1>5 DEF FinishJob, OwnerInv
    <2> QED BY <1>5, <2>1, <2>2, <2>3, EndJobOwner DEF FinishJob
  <1>6. CASE AbortJob(j)
    <2>1. Unfinished(j) /\ config'.maintenance = FALSE /\ config'.pending = None
      BY <1>6, <1>a DEF AbortJob, OwnerInv, ConfigRow
    <2> QED BY <1>6, <2>1, EndJobOwner DEF AbortJob
  <1>7. CASE LoseJob(j)
    <2>1. \A i \in JobIds : run'[i].pc # "off" => run[i].pc # "off"
      BY <1>7 DEF LoseJob, TypeOK, Idle
    <2> QED BY <1>7, <2>1, SameJobsOwner DEF LoseJob, OwnerInv, Unfinished
  <1> QED
    BY <1>1, <1>2, <1>3, <1>4, <1>5, <1>6, <1>7 DEF JobStep, ReindexJob

LEMMA RestartOwner ==
  ASSUME TypeOK, OwnerInv, Crash \/ StartUp
  PROVE  OwnerInv'
  <1>1. CASE Crash
    BY <1>1, SameJobsOwner DEF Crash, Idle, Unfinished
  <1>2. CASE RecoverInterruptedReindexJobs
    <2>1. CASE /\ UnfinishedJobs = {} /\ UNCHANGED jobs
               /\ config' = [config EXCEPT !.pending = None, !.maintenance = FALSE]
      <3>1. config' = config
        BY <2>1 DEF OwnerInv, WindowHasOneOwner, TypeOK, ConfigRow
      <3> QED BY <1>2, <2>1, <3>1, SameJobsOwner
          DEF RecoverInterruptedReindexJobs, OwnerInv, Unfinished
    <2>2. ASSUME NEW owner \in UnfinishedJobs,
                 config' = [config EXCEPT !.pending = jobs[owner].target,
                                          !.maintenance = TRUE],
                 jobs' = [j \in JobIds |->
                   IF j = owner
                     THEN [jobs[j] EXCEPT !.status = "pending", !.errors = FALSE]
                   ELSE IF Unfinished(j) THEN [jobs[j] EXCEPT !.status = "failed"]
                   ELSE jobs[j]]
          PROVE  OwnerInv'
      <3>1. config' = config
        BY <2>2 DEF OwnerInv, WindowHasOneOwner, TypeOK, ConfigRow
      <3>2. owner \in JobIds /\ \A j \in JobIds : Unfinished(j) <=> j = owner
        BY DEF OwnerInv, WindowHasOneOwner, UnfinishedJobs
      <3>3. \A j \in JobIds : /\ j # owner => jobs'[j] = jobs[j]
                              /\ jobs'[j].target = jobs[j].target
                              /\ jobs'[j].version = jobs[j].version
                              /\ jobs'[j].rebuild = jobs[j].rebuild
        BY <2>2, <3>2 DEF TypeOK, JobRow
      <3>4. jobs'[owner].status = "pending"
        BY <2>2, <3>2 DEF TypeOK, JobRow
      <3> QED BY <1>2, <3>1, <3>2, <3>3, <3>4, SameJobsOwner
          DEF RecoverInterruptedReindexJobs, OwnerInv, Unfinished
    <2> QED BY <1>2, <2>1, <2>2 DEF RecoverInterruptedReindexJobs
  <1>3. CASE PrepareInterruptedDocuments
    <2>1. \A j \in JobIds : run'[j].pc # "off" => Unfinished(j)
      BY <1>3 DEF PrepareInterruptedDocuments, OwnerInv
    <2> QED BY <1>3, <2>1, SameJobsOwner DEF PrepareInterruptedDocuments, Unfinished
  <1> QED BY <1>1, <1>2, <1>3 DEF StartUp

\* The strengthening is inductive.
THEOREM OwnerInvariant == Spec => []OwnerInv
  <1>1. TypeOK /\ OwnerInv /\ [Next]_vars => OwnerInv'
    <2> SUFFICES ASSUME TypeOK, OwnerInv, [Next]_vars PROVE OwnerInv'
      OBVIOUS
    <2>1. ASSUME UNCHANGED <<config, jobs, run>> PROVE OwnerInv'
      BY <2>1, SameJobsOwner DEF OwnerInv, Unfinished
    <2>2. CASE UNCHANGED vars
      BY <2>1, <2>2 DEF vars
    <2> QED BY <2>1, <2>2, DocumentStepKeepsJobs, JobStepOwner, RestartOwner DEF Next
  <1> QED BY <1>1, InitOwner, TypeCorrect, PTL DEF Spec

\* The maintenance window has exactly one owner, through every interleaving of
\* requests, jobs, aborts, crashes and restarts.
THEOREM OneOwner == Spec => []WindowHasOneOwner
  <1>1. OwnerInv => WindowHasOneOwner
    BY DEF OwnerInv
  <1> QED BY <1>1, OwnerInvariant, PTL

-----------------------------------------------------------------------------
(* The configuration row implements the abstract window.                   *)

LEMMA JobStepWindow ==
  ASSUME TypeOK, OwnerInv, NEW j \in JobIds, JobStep(j)
  PROVE  Window!Next \/ UNCHANGED Window!vars
  <1> USE DEF Window!Next, Window!vars
  <1>a. jobs[j] \in JobRow /\ config \in ConfigRow
    BY DEF TypeOK
  <1>b. ASSUME NEW p \in Presets, WindowFree, OpenWindow(j, p)
        PROVE  Window!Open(p)
    BY <1>a, <1>b DEF WindowFree, OpenWindow, ConfigRow, Window!Open
  <1>c. Unfinished(j) => /\ config.maintenance
                         /\ config.pending = jobs[j].target
                         /\ jobs[j].version = config.version + 1
    BY DEF OwnerInv, WindowHasOneOwner, UnfinishedJobs
  <1>1. ASSUME NEW p \in Presets, StartPresetChange(j, p) PROVE Window!Next
    <2>1. CASE SameChunking(config.active, p)
      <3>1. Window!Switch(p)
        BY <1>1, <2>1, <1>a
        DEF StartPresetChange, WindowFree, SameChunking, ConfigRow, Window!Switch
      <3> QED BY <3>1
    <2>2. CASE ~SameChunking(config.active, p)
      <3>1. Window!Open(p)
        BY <1>1, <1>b, <2>2 DEF StartPresetChange
      <3> QED BY <3>1
    <2> QED BY <2>1, <2>2
  <1>2. ASSUME NEW old \in JobIds, RetryReindexJob(j, old) PROVE Window!Next
    <2>1. jobs[old].target \in Presets
      BY DEF TypeOK, JobRow
    <2>2. Window!Open(jobs[old].target)
      BY <1>2, <1>b, <2>1 DEF RetryReindexJob
    <2> QED BY <2>1, <2>2
  <1>3. CASE FinishJob(j)
    <2>1. Window!Commit
      BY <1>3, <1>a, <1>c DEF FinishJob, OwnerInv, Window!Commit
    <2> QED BY <2>1
  <1>4. CASE AbortJob(j)
    <2>1. Window!Abandon
      BY <1>4, <1>a, <1>c DEF AbortJob, OwnerInv, ConfigRow, Window!Abandon
    <2> QED BY <2>1
  <1>5. CASE \/ BeginJob(j) \/ LoseJob(j)
             \/ \E d \in Docs : \/ BeginJobDocument(j, d)
                               \/ FinishJobDocument(j, d) \/ FailJobDocument(j, d)
    BY <1>5 DEF BeginJob, LoseJob, BeginJobDocument, FinishJobDocument, FailJobDocument
  <1> QED BY <1>1, <1>2, <1>3, <1>4, <1>5 DEF JobStep, ReindexJob

\* Start-up finds the window as the last process left it.
LEMMA RestartWindow ==
  ASSUME TypeOK, OwnerInv, Crash \/ StartUp
  PROVE  UNCHANGED Window!vars
  <1>1. config \in ConfigRow
    BY DEF TypeOK
  <1>2. CASE RecoverInterruptedReindexJobs
    BY <1>1, <1>2 DEF RecoverInterruptedReindexJobs, OwnerInv, WindowHasOneOwner,
                      ConfigRow, Window!vars
  <1> QED BY <1>2 DEF StartUp, Crash, PrepareInterruptedDocuments, Window!vars

\* The preset and the index version in force only change together, by the job
\* that owns the window, or by a switch between presets that cut alike.
THEOREM WindowImplemented == Spec => ImplementsWindow
  <1>1. Init => Window!Init
    BY DEF Init, Window!Init
  <1>2. TypeOK /\ OwnerInv /\ [Next]_vars => [Window!Next]_(Window!vars)
    <2> SUFFICES ASSUME TypeOK, OwnerInv, [Next]_vars
                 PROVE  Window!Next \/ UNCHANGED Window!vars
      OBVIOUS
    <2>1. CASE UNCHANGED vars
      BY <2>1 DEF vars, Window!vars
    <2>2. ASSUME NEW d \in Docs, DocumentStep(d) PROVE UNCHANGED Window!vars
      BY <2>2, DocumentStepKeepsJobs DEF Window!vars
    <2> QED BY <2>1, <2>2, JobStepWindow, RestartWindow DEF Next
  <1> QED BY <1>1, <1>2, TypeCorrect, OwnerInvariant, PTL
      DEF Spec, ImplementsWindow, Window!Spec

-----------------------------------------------------------------------------
(***************************************************************************)
(* The rows of a document agree with its metadata and with the version in  *)
(* force, and a stored path has its file.                                  *)
(***************************************************************************)

\* The thread of d against d's row and the configuration.  A document that did
\* not slip into a window keeps the window shut until its thread is through.
TaskInv(d) ==
  /\ task[d].pc \in {"new", "admitted"} => ~Exists(d)
  /\ Busy(d) => api = "up"
  /\ task[d].pc = "queued" /\ task[d].reset =>
       ~config.maintenance /\ docs[d].status = "uploaded"
  /\ d \notin bypassed /\ Busy(d) =>
       /\ ~config.maintenance
       /\ task[d].pc # "indexing" => docs[d].status = "uploaded"
       /\ task[d].pc = "indexing" => /\ docs[d].status = "processing"
                                     /\ task[d].preset = config.active
                                     /\ task[d].version = config.version

\* The thread of job j against document d: what it has rebuilt is of its target.
RunInv(j, d) ==
  /\ run[j].doc = d => run[j].pc = "indexing"
  /\ d \notin bypassed =>
       /\ run[j].doc = d => docs[d].status = "processing"
       /\ /\ run[j].pc \in {"listed", "indexing"}
          /\ docs[d].status = "indexed" /\ d \notin run[j].todo
          => docs[d].preset = jobs[j].target /\ docs[d].version = jobs[j].version

RowsMatch(d) ==
  d \notin bypassed =>
    /\ docs[d].status = "indexed" => rows[d] = Batch(docs[d].preset)
    /\ docs[d].status \in {"absent", "uploaded", "processing"} => rows[d] = NoRows

DocInv ==
  /\ \A d \in Docs : TaskInv(d) /\ RowsMatch(d)
  /\ \A j \in JobIds, d \in Docs : RunInv(j, d)

-----------------------------------------------------------------------------
(* Facts the steps share.                                                  *)

\* No thread of a job exists outside the window.
LEMMA NoRunOutsideWindow ==
  ASSUME OwnerInv, ~config.maintenance, NEW j \in JobIds
  PROVE  run[j].pc = "off" /\ ~Unfinished(j)
  BY DEF OwnerInv, WindowHasOneOwner, UnfinishedJobs

\* A job opens no window while an upload outside a window is under way.
LEMMA BusyIsActive ==
  ASSUME DocInv, NEW d \in Docs, d \notin bypassed, Busy(d)
  PROVE  Active(d) /\ ~config.maintenance
  BY DEF DocInv, TaskInv, Active, Busy

LEMMA OtherDocument ==
  ASSUME DocInv, NEW d \in Docs,
         docs'[d] = docs[d], rows'[d] = rows[d], task'[d] = task[d],
         d \in bypassed' <=> d \in bypassed, UNCHANGED <<config, api>>
  PROVE  TaskInv(d)' /\ RowsMatch(d)'
  BY DEF DocInv, TaskInv, RowsMatch, Exists, Busy

LEMMA OtherRun ==
  ASSUME DocInv, NEW j \in JobIds, NEW d \in Docs,
         docs'[d] = docs[d], d \in bypassed' <=> d \in bypassed,
         run'[j] = run[j], jobs'[j] = jobs[j]
  PROVE  RunInv(j, d)'
  BY DEF DocInv, RunInv

\* Steps of document d need the invariant of d only.
LEMMA DocumentFrame ==
  ASSUME DocInv, NEW d \in Docs, UNCHANGED <<config, api, jobs, run>>,
         \A e \in Docs : e # d =>
            /\ docs'[e] = docs[e] /\ rows'[e] = rows[e] /\ task'[e] = task[e]
            /\ e \in bypassed' <=> e \in bypassed,
         TaskInv(d)', RowsMatch(d)', \A j \in JobIds : RunInv(j, d)'
  PROVE  DocInv'
  <1>1. \A e \in Docs : TaskInv(e)' /\ RowsMatch(e)'
    BY OtherDocument
  <1>2. \A j \in JobIds, e \in Docs : RunInv(j, e)'
    BY OtherRun
  <1> QED BY <1>1, <1>2 DEF DocInv

\* The first publication of a document leaves one batch.
LEMMA OneBatch ==
  ASSUME TypeOK, NEW d \in Docs, NEW p \in Presets, NEW v, PublishIndex(d, p, v),
         rows[d] = NoRows
  PROVE  rows'[d] = Batch(p)
  <1>1. rows'[d] = [NoRows EXCEPT ![p] = @ + 1]
    BY DEF PublishIndex, TypeOK
  <1> QED BY <1>1 DEF NoRows, Batch

-----------------------------------------------------------------------------
(* The steps of one document.                                              *)

LEMMA UploadKeepsDocInv ==
  ASSUME TypeOK, OwnerInv, DocInv, NEW d \in Docs,
         AdmitUpload(d) \/ Upload(d) \/ LoseUpload(d)
  PROVE  DocInv'
  <1> USE DEF At, Goto
  <1>a. docs[d] \in DocRow /\ task[d] \in TaskState
    BY DEF TypeOK
  <1>b. TaskInv(d) /\ RowsMatch(d) /\ \A j \in JobIds : RunInv(j, d)
    BY DEF DocInv
  <1>1. CASE AdmitUpload(d) \/ SaveUploadFile(d) \/ CleanRejectedUpload(d)
    <2>1. /\ task'[d].pc \in {"admitted", "saved", "done"}
          /\ task[d].pc \in {"new", "row", "rejected"}
          /\ task'[d].pc = "admitted" => task[d].pc = "new"
          /\ task'[d].pc = "saved" => task[d].pc = "row"
      BY <1>1, <1>a DEF AdmitUpload, SaveUploadFile, CleanRejectedUpload, TypeOK,
                        TaskState
    <2>2. /\ UNCHANGED <<docs, rows, config, api, jobs, run, bypassed>>
          /\ \A e \in Docs : e # d => task'[e] = task[e]
      BY <1>1 DEF AdmitUpload, SaveUploadFile, CleanRejectedUpload, TypeOK
    <2>3. TaskInv(d)'
      BY <2>1, <2>2, <1>b DEF TaskInv, Busy, Exists
    <2> QED BY <2>2, <2>3, <1>b, DocumentFrame DEF RowsMatch, RunInv
  <1>2. CASE CreateDocument(d)
    <2>1. /\ docs'[d].status = "uploaded" /\ task'[d].pc = "row"
          /\ docs[d].status = "absent"
      BY <1>2, <1>a, <1>b DEF CreateDocument, TypeOK, TaskState, Absent, TaskInv, Exists
    <2>2. /\ UNCHANGED <<rows, config, api, jobs, run>>
          /\ d \notin bypassed' => d \notin bypassed /\ ~config.maintenance
          /\ \A e \in Docs : e # d =>
                /\ docs'[e] = docs[e] /\ rows'[e] = rows[e] /\ task'[e] = task[e]
                /\ e \in bypassed' <=> e \in bypassed
      BY <1>2 DEF CreateDocument, TypeOK
    <2>3. TaskInv(d)' /\ RowsMatch(d)'
      BY <2>1, <2>2, <1>2, <1>b DEF TaskInv, RowsMatch, Busy, Exists, CreateDocument
    <2>4. \A j \in JobIds : RunInv(j, d)'
      BY <2>1, <2>2, <1>b DEF RunInv
    <2> QED BY <2>2, <2>3, <2>4, DocumentFrame
  <1>3. CASE UpdateFilePath(d)
    <2>1. /\ docs'[d].status = docs[d].status /\ docs'[d].preset = docs[d].preset
          /\ docs'[d].version = docs[d].version
          /\ task[d].pc = "saved" /\ api = "up"
          /\ \/ task'[d].pc = "queued" /\ ~task'[d].reset
             \/ task'[d].pc = "done"
      <3>1. CASE Exists(d)
        <4>1. docs'[d] = [docs[d] EXCEPT !.path = TRUE]
          BY <1>3, <3>1 DEF UpdateFilePath, TypeOK
        <4>2. task'[d] = [task[d] EXCEPT !.pc = "queued", !.reset = FALSE]
          BY <1>3, <3>1 DEF UpdateFilePath, TypeOK
        <4>3. task[d].pc = "saved" /\ api = "up"
          BY <1>3 DEF UpdateFilePath
        <4> QED BY <1>a, <4>1, <4>2, <4>3 DEF DocRow, TaskState
      <3>2. CASE ~Exists(d)
        BY <1>3, <1>a, <3>2 DEF UpdateFilePath, TypeOK, TaskState
      <3> QED BY <3>1, <3>2
    <2>2. /\ UNCHANGED <<rows, config, api, jobs, run, bypassed>>
          /\ \A e \in Docs : e # d => docs'[e] = docs[e] /\ task'[e] = task[e]
      BY <1>3 DEF UpdateFilePath, TypeOK
    <2>3. TaskInv(d)' /\ RowsMatch(d)' /\ \A j \in JobIds : RunInv(j, d)'
      BY <2>1, <2>2, <1>b DEF TaskInv, RowsMatch, RunInv, Busy, Exists
    <2> QED BY <2>2, <2>3, DocumentFrame
  <1>4. CASE RejectUpload(d)
    <2>1. /\ docs'[d].status = "absent" /\ rows'[d] = NoRows /\ task'[d].pc = "rejected"
          /\ task[d].pc \in {"row", "saved"}
      BY <1>4, <1>a DEF RejectUpload, RemoveRow, TypeOK, TaskState, Absent
    <2>2. /\ UNCHANGED <<config, api, jobs, run, bypassed>>
          /\ \A e \in Docs : e # d => /\ docs'[e] = docs[e] /\ task'[e] = task[e]
                                    /\ rows'[e] = rows[e]
      BY <1>4 DEF RejectUpload, RemoveRow, TypeOK
    <2>3. TaskInv(d)' /\ RowsMatch(d)'
      BY <2>1, <2>2 DEF TaskInv, RowsMatch, Busy, Exists
    <2>4. \A j \in JobIds : RunInv(j, d)'
      BY <2>1, <2>2, <1>b, NoRunOutsideWindow DEF RunInv, TaskInv, Busy
    <2> QED BY <2>2, <2>3, <2>4, DocumentFrame
  <1>5. CASE LoseUpload(d)
    <2>1. /\ docs'[d].status = docs[d].status /\ docs'[d].preset = docs[d].preset
          /\ docs'[d].version = docs[d].version
          /\ task[d].pc \in {"row", "saved"} /\ api = "up" /\ task'[d].pc = "lost"
      <3>1. docs'[d] = docs[d] \/ docs'[d] = [docs[d] EXCEPT !.path = TRUE]
        BY <1>5 DEF LoseUpload, TypeOK
      <3>2. task'[d] = [task[d] EXCEPT !.pc = "lost"]
        BY <1>5 DEF LoseUpload, TypeOK
      <3>3. task[d].pc \in {"row", "saved"} /\ api = "up"
        BY <1>5 DEF LoseUpload
      <3> QED BY <1>a, <3>1, <3>2, <3>3 DEF DocRow, TaskState
    <2>2. /\ UNCHANGED <<rows, config, api, jobs, run, bypassed>>
          /\ \A e \in Docs : e # d => docs'[e] = docs[e] /\ task'[e] = task[e]
      BY <1>5 DEF LoseUpload, TypeOK
    <2>3. TaskInv(d)' /\ RowsMatch(d)' /\ \A j \in JobIds : RunInv(j, d)'
      BY <2>1, <2>2, <1>b DEF TaskInv, RowsMatch, RunInv, Busy, Exists
    <2> QED BY <2>2, <2>3, DocumentFrame
  <1> QED BY <1>1, <1>2, <1>3, <1>4, <1>5 DEF Upload

LEMMA TaskKeepsDocInv ==
  ASSUME TypeOK, OwnerInv, DocInv, NEW d \in Docs, IndexingTask(d) \/ LoseTask(d)
  PROVE  DocInv'
  <1> USE DEF At, Goto
  <1>a. docs[d] \in DocRow /\ task[d] \in TaskState /\ config \in ConfigRow
    BY DEF TypeOK
  <1>b. TaskInv(d) /\ RowsMatch(d) /\ \A j \in JobIds : RunInv(j, d)
    BY DEF DocInv
  <1>c. d \notin bypassed /\ Busy(d) =>
          \A j \in JobIds : run[j].pc = "off" /\ run[j].doc # d
    BY <1>b, NoRunOutsideWindow DEF TaskInv, RunInv
  <1>1. CASE BeginTask(d) /\ Exists(d)
    <2>1. /\ task[d].pc = "queued" /\ api = "up"
          /\ StartProcessing(d, task[d].reset)
          /\ task'[d] = [task[d] EXCEPT !.pc = "indexing", !.preset = config.active,
                                        !.version = config.version]
          /\ d \notin bypassed' => task[d].reset \/ d \notin bypassed
      BY <1>1 DEF BeginTask, TypeOK
    <2>2. /\ task'[d].pc = "indexing" /\ task'[d].preset = config.active
          /\ task'[d].version = config.version
      BY <1>a, <2>1 DEF TaskState
    <2>3. /\ docs'[d].status = "processing"
          /\ rows'[d] = IF task[d].reset THEN NoRows ELSE rows[d]
      BY <1>a, <2>1 DEF StartProcessing, TypeOK, DocRow
    <2>4. /\ UNCHANGED <<config, api, jobs, run>>
          /\ \A e \in Docs : e # d =>
                /\ docs'[e] = docs[e] /\ rows'[e] = rows[e] /\ task'[e] = task[e]
                /\ e \in bypassed' <=> e \in bypassed
      BY <1>1, <2>1 DEF BeginTask, StartProcessing, TypeOK
    <2>5. d \notin bypassed' => ~config.maintenance /\ rows'[d] = NoRows
      BY <1>b, <2>1, <2>3 DEF TaskInv, RowsMatch, Busy
    <2>6. TaskInv(d)' /\ RowsMatch(d)'
      BY <2>1, <2>2, <2>3, <2>4, <2>5 DEF TaskInv, RowsMatch, Busy, Exists
    <2>7. \A j \in JobIds : RunInv(j, d)'
      BY <1>b, <2>3, <2>4, <2>5, NoRunOutsideWindow DEF RunInv
    <2> QED BY <2>4, <2>6, <2>7, DocumentFrame
  <1>2. CASE \/ BeginTask(d) /\ ~Exists(d)
             \/ FailTask(d) \/ LoseTask(d)
    <2>1. /\ task'[d].pc = "done" /\ Busy(d)
          /\ docs'[d] = docs[d] \/ docs'[d].status = "failed"
      <3>1. CASE FailTask(d)
        <4>1. task' = [task EXCEPT ![d].pc = "done"] /\ MarkFailed(d) /\ Busy(d)
          BY <1>a, <3>1 DEF FailTask, Busy, TaskState
        <4> QED BY <1>a, <4>1 DEF MarkFailed, TypeOK, DocRow, TaskState
      <3>2. CASE BeginTask(d) /\ ~Exists(d)
        BY <1>a, <3>2 DEF BeginTask, TypeOK, TaskState, Busy
      <3>3. CASE LoseTask(d)
        BY <1>a, <3>3 DEF LoseTask, TypeOK, TaskState, Busy
      <3> QED BY <1>2, <3>1, <3>2, <3>3
    <2>2. /\ UNCHANGED <<rows, config, api, jobs, run, bypassed>>
          /\ \A e \in Docs : e # d => docs'[e] = docs[e] /\ task'[e] = task[e]
      BY <1>2 DEF BeginTask, FailTask, LoseTask, MarkFailed, TypeOK
    <2>3. TaskInv(d)' /\ RowsMatch(d)' /\ \A j \in JobIds : RunInv(j, d)'
      BY <1>b, <1>c, <2>1, <2>2 DEF TaskInv, RowsMatch, RunInv, Busy, Exists
    <2> QED BY <2>2, <2>3, DocumentFrame
  <1>3. CASE FinishTask(d)
    <2>1. /\ task[d].pc = "indexing" /\ PublishIndex(d, task[d].preset, task[d].version)
          /\ task' = [task EXCEPT ![d].pc = "done"]
      BY <1>3 DEF FinishTask
    <2>2. /\ task'[d].pc = "done" /\ docs'[d].status = "indexed"
          /\ docs'[d].preset = task[d].preset /\ docs'[d].version = task[d].version
      BY <1>a, <2>1 DEF PublishIndex, TypeOK, DocRow, TaskState
    <2>3. /\ UNCHANGED <<config, api, jobs, run, bypassed>>
          /\ \A e \in Docs : e # d => /\ docs'[e] = docs[e] /\ task'[e] = task[e]
                                    /\ rows'[e] = rows[e]
      BY <1>3 DEF FinishTask, PublishIndex, TypeOK
    <2>4. rows[d] = NoRows => rows'[d] = Batch(task[d].preset)
      BY <2>1, OneBatch DEF TypeOK, TaskState
    <2>5. TaskInv(d)' /\ RowsMatch(d)' /\ \A j \in JobIds : RunInv(j, d)'
      BY <1>b, <1>c, <2>1, <2>2, <2>3, <2>4 DEF TaskInv, RowsMatch, RunInv, Busy, Exists
    <2> QED BY <2>3, <2>5, DocumentFrame
  <1> QED BY <1>1, <1>2, <1>3 DEF IndexingTask

LEMMA DeleteKeepsDocInv ==
  ASSUME TypeOK, OwnerInv, DocInv, NEW d \in Docs,
         \/ AdmitDelete(d) \/ Delete(d) \/ AdmitChat(d) \/ PersistChat(d)
  PROVE  DocInv'
  <1>b. TaskInv(d) /\ RowsMatch(d) /\ \A j \in JobIds : RunInv(j, d)
    BY DEF DocInv
  <1>1. CASE UNCHANGED <<docs, rows, config, api, jobs, run, task, bypassed>>
    BY <1>1, <1>b, DocumentFrame DEF TaskInv, RowsMatch, RunInv, Busy, Exists
  <1>2. CASE DeleteDocument(d) /\ Exists(d) /\ ~Active(d)
    <2>1. docs'[d].status = "absent" /\ rows'[d] = NoRows
      BY <1>2 DEF DeleteDocument, RemoveRow, TypeOK, Absent
    <2>2. /\ UNCHANGED <<config, api, jobs, run, task, bypassed>>
          /\ \A e \in Docs : e # d => docs'[e] = docs[e] /\ rows'[e] = rows[e]
      BY <1>2 DEF DeleteDocument, RemoveRow, TypeOK
    <2>3. TaskInv(d)' /\ RowsMatch(d)' /\ \A j \in JobIds : RunInv(j, d)'
      BY <1>2, <1>b, <2>1, <2>2 DEF TaskInv, RowsMatch, RunInv, Busy, Exists, Active
    <2> QED BY <2>2, <2>3, DocumentFrame
  <1> QED BY <1>1, <1>2 DEF Delete, AdmitDelete, DeleteDocument, DeleteFiles,
                            AdmitChat, PersistChat

-----------------------------------------------------------------------------
(* The steps of one reindex job.                                           *)

\* Steps that leave the documents and their threads alone.
LEMMA JobFrame ==
  ASSUME TypeOK, DocInv, UNCHANGED <<docs, rows, task, bypassed, api>>,
         \A d \in Docs : Busy(d) /\ d \notin bypassed =>
            /\ ~config'.maintenance /\ config'.active = config.active
            /\ config'.version = config.version,
         \A d \in Docs : task[d].pc = "queued" /\ task[d].reset => ~config'.maintenance,
         \A j \in JobIds, d \in Docs : RunInv(j, d)'
  PROVE  DocInv'
  <1>1. ASSUME NEW d \in Docs PROVE TaskInv(d)' /\ RowsMatch(d)'
    BY DEF DocInv, TaskInv, RowsMatch, Busy, Exists
  <1> QED BY <1>1 DEF DocInv

\* No upload and no restarted document is waiting when a window may open.
LEMMA NoneWaiting ==
  ASSUME DocInv, ~HasActiveDocuments, NEW d \in Docs
  PROVE  /\ ~(Busy(d) /\ d \notin bypassed)
         /\ ~(task[d].pc = "queued" /\ task[d].reset)
  BY BusyIsActive DEF DocInv, TaskInv, HasActiveDocuments, Active

LEMMA JobRequestKeepsDocInv ==
  ASSUME TypeOK, OwnerInv, DocInv, NEW j \in JobIds,
         \/ \E p \in Presets : StartPresetChange(j, p)
         \/ \E old \in JobIds : RetryReindexJob(j, old)
  PROVE  DocInv'
  <1>1. /\ UNCHANGED <<docs, rows, task, bypassed, api>>
        /\ ~config.maintenance /\ ~HasActiveDocuments
    BY DEF StartPresetChange, RetryReindexJob, WindowFree
  <1>2. \A i \in JobIds : /\ run'[i].pc \in {"off", "queued"}
                          /\ run'[i].doc = run[i].doc \/ run'[i].doc = None
    <2>1. \/ run' = run \/ run' = [run EXCEPT ![j] = [Idle EXCEPT !.pc = "queued"]]
      BY DEF StartPresetChange, RetryReindexJob, OpenWindow
    <2>2. /\ [Idle EXCEPT !.pc = "queued"].pc = "queued"
          /\ [Idle EXCEPT !.pc = "queued"].doc = None
      BY DEF Idle
    <2> QED BY <1>1, <2>1, <2>2, NoRunOutsideWindow DEF TypeOK
  <1>3. \A i \in JobIds, d \in Docs : RunInv(i, d)'
    BY <1>1, <1>2, NoRunOutsideWindow, PresetAssumption DEF DocInv, RunInv
  <1> QED BY <1>1, <1>3, NoneWaiting, JobFrame

LEMMA JobThreadKeepsDocInv ==
  ASSUME TypeOK, OwnerInv, DocInv, NEW j \in JobIds,
         \/ BeginJob(j) \/ FinishJob(j) \/ AbortJob(j) \/ LoseJob(j)
  PROVE  DocInv'
  <1>1. /\ UNCHANGED <<docs, rows, task, bypassed, api>>
        /\ \A i \in JobIds : i # j => run'[i] = run[i] /\ jobs'[i] = jobs[i]
        /\ run[j].pc # "off"
    BY DEF BeginJob, FinishJob, AbortJob, LoseJob, TypeOK
  <1>2. Unfinished(j) /\ config.maintenance
    BY <1>1 DEF OwnerInv, WindowHasOneOwner, UnfinishedJobs
  <1>3. ASSUME NEW d \in Docs
        PROVE  /\ ~(Busy(d) /\ d \notin bypassed)
               /\ ~(task[d].pc = "queued" /\ task[d].reset)
    BY <1>2 DEF DocInv, TaskInv
  <1>4. \A d \in Docs : RunInv(j, d)'
    <2>1. CASE BeginJob(j) /\ jobs[j].status = "pending"
      <3>1. /\ run'[j].doc = None
            /\ \A d \in Docs : Exists(d) => d \in run'[j].todo
        BY <2>1, <1>2 DEF BeginJob, TypeOK, OwnerInv, WindowHasOneOwner, UnfinishedJobs
      <3> QED BY <1>1, <3>1, PresetAssumption DEF RunInv, Exists
    <2>2. CASE ~(BeginJob(j) /\ jobs[j].status = "pending")
      <3>1. run'[j].doc = None /\ run'[j].pc = "off"
        BY <2>2 DEF BeginJob, FinishJob, AbortJob, LoseJob, TypeOK, Idle
      <3> QED BY <3>1, PresetAssumption DEF RunInv
    <2> QED BY <2>1, <2>2
  <1>5. \A i \in JobIds, d \in Docs : RunInv(i, d)'
    BY <1>1, <1>4, OtherRun
  <1> QED BY <1>1, <1>3, <1>5, JobFrame

\* A job at work on document d: d is the only document it disturbs, and no
\* thread of d is at work unless d slipped into the window.
LEMMA JobDocumentFrame ==
  ASSUME TypeOK, OwnerInv, DocInv, NEW j \in JobIds, NEW d \in Docs,
         run[j].pc # "off", UNCHANGED <<config, api, task>>,
         \A e \in Docs : e # d => /\ docs'[e] = docs[e] /\ rows'[e] = rows[e]
                                  /\ e \in bypassed' <=> e \in bypassed,
         \A i \in JobIds : i # j => run'[i] = run[i] /\ jobs'[i] = jobs[i],
         \A e \in Docs : RunInv(j, e)',
         d \notin bypassed' => ~Busy(d),
         Exists(d), RowsMatch(d)'
  PROVE  DocInv'
  <1>1. Unfinished(j) /\ config.maintenance
    BY DEF OwnerInv, WindowHasOneOwner, UnfinishedJobs
  <1>2. TaskInv(d)'
    BY <1>1 DEF DocInv, TaskInv, Busy
  <1>3. ASSUME NEW e \in Docs PROVE TaskInv(e)' /\ RowsMatch(e)'
    <2>1. CASE e = d
      BY <1>2, <2>1
    <2>2. CASE e # d
      BY <2>2, OtherDocument
    <2> QED BY <2>1, <2>2
  <1>4. ASSUME NEW i \in JobIds, i # j, NEW e \in Docs PROVE RunInv(i, e)'
    <2>1. run[i].pc = "off"
      BY <1>1, <1>4 DEF OwnerInv, WindowHasOneOwner
    <2> QED BY <1>4, <2>1 DEF DocInv, RunInv
  <1> QED BY <1>3, <1>4 DEF DocInv

LEMMA JobDocumentKeepsDocInv ==
  ASSUME TypeOK, OwnerInv, DocInv, NEW j \in JobIds, NEW d \in Docs,
         \/ BeginJobDocument(j, d) \/ FinishJobDocument(j, d) \/ FailJobDocument(j, d)
  PROVE  DocInv'
  <1>a. /\ docs[d] \in DocRow /\ jobs[j] \in JobRow /\ run[j] \in RunState
        /\ task[d] \in TaskState
    BY DEF TypeOK
  <1>b. RunInv(j, d) /\ TaskInv(d) /\ RowsMatch(d)
    BY DEF DocInv
  <1>c. /\ run[j].pc # "off" /\ Unfinished(j) /\ config.maintenance /\ jobs[j].rebuild
    <2>1. run[j].pc # "off"
      BY DEF BeginJobDocument, FinishJobDocument, FailJobDocument
    <2> QED BY <2>1 DEF OwnerInv, WindowHasOneOwner, UnfinishedJobs
  <1>d. d \notin bypassed => ~Busy(d)
    BY <1>b, <1>c DEF TaskInv
  <1>e. /\ UNCHANGED <<config, api, task>>
        /\ \A i \in JobIds : i # j => run'[i] = run[i] /\ jobs'[i] = jobs[i]
    BY DEF BeginJobDocument, FinishJobDocument, FailJobDocument, TypeOK
  <1>f. \A e \in Docs : RunInv(j, e)
    BY DEF DocInv
  <1>1. CASE BeginJobDocument(j, d) /\ Exists(d)
    <2>1. /\ docs'[d].status = "processing" /\ rows'[d] = NoRows
          /\ \A e \in Docs : e # d => docs'[e] = docs[e] /\ rows'[e] = rows[e]
      BY <1>1, <1>a, <1>c DEF BeginJobDocument, StartProcessing, TypeOK, DocRow
    <2>2. /\ run'[j].pc = "indexing" /\ run'[j].doc = d
          /\ run'[j].todo = run[j].todo \ {d}
          /\ run[j].pc = "listed" /\ jobs' = jobs
      BY <1>1 DEF BeginJobDocument, TypeOK
    <2>3. /\ \A e \in Docs : e # d => (e \in bypassed' <=> e \in bypassed)
          /\ d \notin bypassed' => ~Busy(d)
      BY <1>1 DEF BeginJobDocument
    <2>4. ASSUME NEW e \in Docs PROVE RunInv(j, e)'
      BY <1>f, <2>1, <2>2, <2>3 DEF RunInv
    <2>5. RowsMatch(d)'
      BY <2>1 DEF RowsMatch
    <2> QED BY <1>1, <1>c, <1>e, <2>1, <2>3, <2>4, <2>5, JobDocumentFrame
  <1>2. CASE BeginJobDocument(j, d) /\ ~Exists(d)
    <2>1. /\ UNCHANGED <<docs, rows, bypassed>>
          /\ run'[j].pc = run[j].pc /\ run'[j].doc = run[j].doc
          /\ run'[j].todo = run[j].todo \ {d}
          /\ jobs'[j].target = jobs[j].target /\ jobs'[j].version = jobs[j].version
      BY <1>2, <1>a DEF BeginJobDocument, TypeOK, RunState, JobRow
    <2>2. ASSUME NEW e \in Docs PROVE RunInv(j, e)'
      BY <1>2, <1>f, <2>1 DEF RunInv, Exists
    <2>3. \A i \in JobIds, e \in Docs : RunInv(i, e)'
      <3>1. ASSUME NEW i \in JobIds, i # j, NEW e \in Docs PROVE RunInv(i, e)'
        BY <1>e, <2>1, <3>1, OtherRun
      <3> QED BY <2>2, <3>1
    <2> QED BY <1>e, <2>1, <2>3 DEF DocInv, TaskInv, RowsMatch, Busy, Exists
  <1>3. CASE FinishJobDocument(j, d)
    <2>1. /\ run[j].pc = "indexing" /\ run[j].doc = d /\ Exists(d) /\ jobs' = jobs
          /\ bypassed' = bypassed
          /\ PublishIndex(d, jobs[j].target, jobs[j].version)
      BY <1>3 DEF FinishJobDocument
    <2>2. /\ run'[j].pc = "listed" /\ run'[j].doc = None
          /\ run'[j].todo = run[j].todo
      BY <1>3, <1>a DEF FinishJobDocument, TypeOK, RunState
    <2>3. /\ docs'[d].status = "indexed" /\ docs'[d].preset = jobs[j].target
          /\ docs'[d].version = jobs[j].version
          /\ \A e \in Docs : e # d => docs'[e] = docs[e] /\ rows'[e] = rows[e]
      BY <1>a, <2>1 DEF PublishIndex, TypeOK, DocRow
    <2>4. rows[d] = NoRows => rows'[d] = Batch(jobs[j].target)
      BY <1>a, <2>1, OneBatch DEF JobRow
    <2>5. RowsMatch(d)'
      BY <1>b, <2>1, <2>3, <2>4 DEF RowsMatch, RunInv
    <2>6. ASSUME NEW e \in Docs PROVE RunInv(j, e)'
      BY <1>f, <2>1, <2>2, <2>3, PresetAssumption DEF RunInv
    <2> QED BY <1>c, <1>d, <1>e, <2>1, <2>3, <2>5, <2>6, JobDocumentFrame
  <1>4. CASE FailJobDocument(j, d)
    <2>1. /\ run'[j].pc = "listed" /\ run'[j].doc = None
          /\ run'[j].todo = run[j].todo \ {d}
          /\ run[j].pc \in {"listed", "indexing"}
          /\ MarkFailed(d) /\ UNCHANGED <<rows, bypassed>>
      BY <1>4 DEF FailJobDocument, TypeOK
    <2>2. /\ jobs'[j].target = jobs[j].target /\ jobs'[j].version = jobs[j].version
          /\ \A e \in Docs : e # d => docs'[e] = docs[e]
      BY <1>4, <1>a DEF FailJobDocument, MarkFailed, TypeOK, JobRow
    <2>3. ASSUME NEW e \in Docs, e # d PROVE RunInv(j, e)'
      BY <1>f, <2>1, <2>2, <2>3, PresetAssumption DEF RunInv
    <2>4. CASE Exists(d)
      <3>1. docs'[d].status = "failed"
        BY <1>a, <2>1, <2>4 DEF MarkFailed, TypeOK, DocRow
      <3>2. RunInv(j, d)' /\ RowsMatch(d)'
        BY <2>1, <3>1, PresetAssumption DEF RunInv, RowsMatch
      <3> QED BY <1>c, <1>d, <1>e, <2>1, <2>2, <2>3, <2>4, <3>2, JobDocumentFrame
    <2>5. CASE ~Exists(d)
      <3>1. docs' = docs
        BY <2>1, <2>5 DEF MarkFailed
      <3>2. RunInv(j, d)'
        BY <2>1, <2>5, <3>1, PresetAssumption DEF RunInv, Exists
      <3>3. ASSUME NEW i \in JobIds, i # j, NEW e \in Docs PROVE RunInv(i, e)'
        BY <1>e, <2>1, <3>1, <3>3, OtherRun
      <3>4. \A i \in JobIds, e \in Docs : RunInv(i, e)'
        BY <2>3, <3>2, <3>3
      <3> QED BY <1>e, <2>1, <3>1, <3>4 DEF DocInv, TaskInv, RowsMatch, Busy, Exists
    <2> QED BY <2>4, <2>5
  <1> QED BY <1>1, <1>2, <1>3, <1>4

-----------------------------------------------------------------------------
(* Crash and start-up.                                                     *)

\* Start-up finds the window as the last process left it.
LEMMA RecoverKeepsConfig ==
  ASSUME TypeOK, OwnerInv, RecoverInterruptedReindexJobs
  PROVE  config' = config
  <1>1. config \in ConfigRow
    BY DEF TypeOK
  <1>2. \/ UnfinishedJobs = {} /\ config' = [config EXCEPT !.pending = None,
                                                        !.maintenance = FALSE]
        \/ \E owner \in UnfinishedJobs :
             config' = [config EXCEPT !.pending = jobs[owner].target,
                                      !.maintenance = TRUE]
    BY DEF RecoverInterruptedReindexJobs
  <1>3. CASE UnfinishedJobs = {} /\ config' = [config EXCEPT !.pending = None,
                                                           !.maintenance = FALSE]
    BY <1>1, <1>3 DEF OwnerInv, WindowHasOneOwner, ConfigRow
  <1>4. ASSUME NEW owner \in UnfinishedJobs,
               config' = [config EXCEPT !.pending = jobs[owner].target,
                                        !.maintenance = TRUE]
        PROVE  config' = config
    BY <1>1, <1>4 DEF OwnerInv, WindowHasOneOwner, ConfigRow
  <1> QED BY <1>2, <1>3, <1>4

LEMMA RestartKeepsDocInv ==
  ASSUME TypeOK, OwnerInv, DocInv, Crash \/ StartUp
  PROVE  DocInv'
  <1>1. CASE Crash
    <2>1. /\ UNCHANGED <<docs, rows, config, jobs, bypassed>>
          /\ \A j \in JobIds : run'[j].pc = "off" /\ run'[j].doc = None
      BY <1>1 DEF Crash, Idle
    <2>2. ASSUME NEW d \in Docs
          PROVE  /\ task'[d].pc \in {"new", "done"}
                 /\ task'[d].pc = "new" => task[d].pc \in {"new", "admitted"}
      BY <1>1 DEF Crash, TypeOK, TaskState
    <2>3. ASSUME NEW d \in Docs PROVE TaskInv(d)' /\ RowsMatch(d)'
      BY <2>1, <2>2 DEF DocInv, TaskInv, RowsMatch, Busy, Exists
    <2>4. \A j \in JobIds, d \in Docs : RunInv(j, d)'
      BY <2>1, PresetAssumption DEF RunInv
    <2> QED BY <2>3, <2>4 DEF DocInv
  <1>2. CASE RecoverInterruptedReindexJobs
    <2>1. UNCHANGED <<docs, rows, task, run, bypassed>> /\ api = "down" /\ api' = "jobs"
      BY <1>2 DEF RecoverInterruptedReindexJobs
    <2>2. \A d \in Docs : ~Busy(d)
      BY <2>1 DEF DocInv, TaskInv
    <2>3. config' = config
      BY <1>2, RecoverKeepsConfig
    <2>4. \A j \in JobIds : /\ jobs'[j].target = jobs[j].target
                            /\ jobs'[j].version = jobs[j].version
      <3>1. CASE UNCHANGED jobs
        BY <3>1
      <3>2. ASSUME NEW owner \in UnfinishedJobs,
                   jobs' = [j \in JobIds |->
                     IF j = owner
                       THEN [jobs[j] EXCEPT !.status = "pending", !.errors = FALSE]
                     ELSE IF Unfinished(j) THEN [jobs[j] EXCEPT !.status = "failed"]
                     ELSE jobs[j]]
            PROVE  \A j \in JobIds : /\ jobs'[j].target = jobs[j].target
                                    /\ jobs'[j].version = jobs[j].version
        BY <3>2 DEF TypeOK, JobRow
      <3> QED BY <1>2, <3>1, <3>2 DEF RecoverInterruptedReindexJobs
    <2> QED BY <2>1, <2>2, <2>3, <2>4 DEF DocInv, TaskInv, RunInv, RowsMatch, Busy, Exists
  <1>3. CASE PrepareInterruptedDocuments
    <2>1. /\ UNCHANGED <<rows, config, jobs, bypassed>>
          /\ api = "jobs" /\ api' = "up"
          /\ \A d \in Docs : ~Busy(d)
      BY <1>3 DEF PrepareInterruptedDocuments, DocInv, TaskInv
    <2>2. CASE config.maintenance
      <3>1. UNCHANGED <<docs, task>>
        BY <1>3, <2>2 DEF PrepareInterruptedDocuments
      <3>2. ASSUME NEW j \in JobIds, NEW d \in Docs PROVE RunInv(j, d)'
        <4>1. \/ run'[j] = run[j]
              \/ run'[j].pc = "queued" /\ run'[j].doc = None
          BY <1>3 DEF PrepareInterruptedDocuments, TypeOK, Idle
        <4> QED BY <2>1, <3>1, <4>1, PresetAssumption DEF DocInv, RunInv
      <3> QED BY <2>1, <3>1, <3>2 DEF DocInv, TaskInv, RowsMatch, Busy, Exists
    <2>3. CASE ~config.maintenance
      <3>1. \A j \in JobIds : run'[j] = run[j] /\ run[j].pc = "off"
        BY <1>3, <2>3, NoRunOutsideWindow DEF PrepareInterruptedDocuments, TypeOK
      <3>2. \A j \in JobIds, d \in Docs : RunInv(j, d)'
        BY <3>1 DEF DocInv, RunInv
      <3>3. ASSUME NEW d \in Docs
            PROVE  TaskInv(d)' /\ RowsMatch(d)'
        <4>1. docs[d] \in DocRow /\ task[d] \in TaskState /\ TaskInv(d) /\ RowsMatch(d)
          BY DEF TypeOK, DocInv
        <4>2. CASE Recoverable(d)
          <5>1. /\ docs'[d] = [docs[d] EXCEPT !.status = "uploaded"]
                /\ task'[d] = [task[d] EXCEPT !.pc = "queued", !.reset = TRUE]
            BY <1>3, <2>3, <4>2 DEF PrepareInterruptedDocuments
          <5>2. /\ docs'[d].status = "uploaded"
                /\ task'[d].pc = "queued" /\ task'[d].reset = TRUE
            BY <4>1, <5>1 DEF DocRow, TaskState
          <5> QED BY <2>1, <2>3, <4>1, <4>2, <5>2
              DEF TaskInv, RowsMatch, Busy, Exists, Recoverable, Active
        <4>3. CASE ~Recoverable(d) /\ Active(d)
          <5>1. /\ docs'[d] = [docs[d] EXCEPT !.status = "failed"]
                /\ task'[d] = task[d]
            BY <1>3, <2>3, <4>3 DEF PrepareInterruptedDocuments
          <5>2. docs'[d].status = "failed"
            BY <4>1, <5>1 DEF DocRow
          <5> QED BY <2>1, <4>1, <4>3, <5>1, <5>2 DEF TaskInv, RowsMatch, Busy, Exists, Active
        <4>4. CASE ~Recoverable(d) /\ ~Active(d)
          <5>1. /\ docs'[d] = [docs[d] EXCEPT !.status = docs[d].status]
                /\ task'[d] = task[d]
            BY <1>3, <2>3, <4>4 DEF PrepareInterruptedDocuments
          <5>2. docs'[d] = docs[d]
            BY <4>1, <5>1 DEF DocRow
          <5> QED BY <2>1, <4>1, <5>1, <5>2 DEF TaskInv, RowsMatch, Busy, Exists
        <4> QED BY <4>2, <4>3, <4>4
      <3> QED BY <3>2, <3>3 DEF DocInv
    <2> QED BY <2>2, <2>3
  <1> QED BY <1>1, <1>2, <1>3 DEF StartUp

\* Rows and threads of every document keep their invariant.
THEOREM DocInvariant == Spec => []DocInv
  <1>1. Init => DocInv
    BY PresetAssumption
    DEF Init, DocInv, TaskInv, RunInv, RowsMatch, Busy, Exists, Absent, Idle
  <1>2. TypeOK /\ OwnerInv /\ DocInv /\ [Next]_vars => DocInv'
    <2> SUFFICES ASSUME TypeOK, OwnerInv, DocInv, [Next]_vars PROVE DocInv'
      OBVIOUS
    <2>1. CASE UNCHANGED vars
      BY <2>1 DEF vars, DocInv, TaskInv, RunInv, RowsMatch, Busy, Exists
    <2>2. ASSUME NEW d \in Docs, DocumentStep(d) PROVE DocInv'
      BY <2>2, UploadKeepsDocInv, TaskKeepsDocInv, DeleteKeepsDocInv DEF DocumentStep
    <2>3. ASSUME NEW j \in JobIds, JobStep(j) PROVE DocInv'
      BY <2>3, JobRequestKeepsDocInv, JobThreadKeepsDocInv, JobDocumentKeepsDocInv
      DEF JobStep, ReindexJob
    <2> QED BY <2>1, <2>2, <2>3, RestartKeepsDocInv DEF Next
  <1> QED BY <1>1, <1>2, TypeCorrect, OwnerInvariant, PTL DEF Spec

\* An indexed document has one batch of rows, cut with the preset it names, and
\* a document on its way there has none.
THEOREM RowsCorrect == Spec => []RowsMatchMetadata
  <1>1. DocInv => RowsMatchMetadata
    BY DEF DocInv, RowsMatch, RowsMatchMetadata
  <1> QED BY <1>1, DocInvariant, PTL

\* No job and no deletion works on a document its own thread is indexing.
THEOREM OneThread == Spec => []IndexedByOneThread
  <1>1. OwnerInv /\ DocInv => IndexedByOneThread
    <2> SUFFICES ASSUME OwnerInv, DocInv, NEW d \in Docs, d \notin bypassed,
                        task[d].pc = "indexing"
                 PROVE  /\ docs[d].status = "processing"
                        /\ \A j \in JobIds : run[j].doc # d
      BY DEF IndexedByOneThread
    <2>1. docs[d].status = "processing" /\ ~config.maintenance
      BY DEF DocInv, TaskInv, Busy
    <2>2. \A j \in JobIds : run[j].doc # d
      BY <2>1, NoRunOutsideWindow DEF DocInv, RunInv
    <2> QED BY <2>1, <2>2
  <1> QED BY <1>1, OwnerInvariant, DocInvariant, PTL

-----------------------------------------------------------------------------
(* One index version outside the window.                                   *)

\* A step of document d that leaves it indexed left its metadata alone, or
\* published the version in force.
LEMMA DocumentStepMetadata ==
  ASSUME TypeOK, DocInv, NEW d \in Docs, DocumentStep(d),
         docs'[d].status = "indexed", d \notin bypassed'
  PROVE  /\ d \notin bypassed
         /\ \/ /\ docs[d].status = "indexed"
               /\ docs'[d].preset = docs[d].preset
               /\ docs'[d].version = docs[d].version
            \/ docs'[d].preset = config.active /\ docs'[d].version = config.version
  <1> USE DEF At, Goto
  <1>a. docs[d] \in DocRow /\ TaskInv(d)
    BY DEF TypeOK, DocInv
  <1>1. CASE docs'[d] = docs[d] /\ bypassed' = bypassed
    BY <1>1
  <1>2. CASE FinishTask(d)
    <2>1. /\ docs'[d].preset = task[d].preset /\ docs'[d].version = task[d].version
          /\ task[d].pc = "indexing" /\ bypassed' = bypassed
      BY <1>2, <1>a DEF FinishTask, PublishIndex, TypeOK, DocRow
    <2> QED BY <1>a, <2>1 DEF TaskInv, Busy
  <1>3. CASE (UpdateFilePath(d) /\ Exists(d)) \/ LoseUpload(d)
    <2>1. docs'[d] = docs[d] \/ docs'[d] = [docs[d] EXCEPT !.path = TRUE]
      BY <1>3 DEF UpdateFilePath, LoseUpload, TypeOK
    <2>2. bypassed' = bypassed
      BY <1>3 DEF UpdateFilePath, LoseUpload
    <2> QED BY <1>a, <2>1, <2>2 DEF DocRow
  <1>4. CASE \/ CreateDocument(d) \/ RejectUpload(d)
             \/ BeginTask(d) /\ Exists(d)
             \/ FailTask(d) /\ Exists(d)
             \/ DeleteDocument(d) /\ Exists(d) /\ ~Active(d)
    <2>1. docs'[d].status # "indexed"
      <3>1. CASE CreateDocument(d)
        BY <3>1 DEF CreateDocument, TypeOK, Absent
      <3>2. CASE \/ RejectUpload(d)
                 \/ DeleteDocument(d) /\ Exists(d) /\ ~Active(d)
        BY <3>2 DEF RejectUpload, DeleteDocument, RemoveRow, TypeOK, Absent
      <3>3. CASE BeginTask(d) /\ Exists(d)
        BY <3>3, <1>a DEF BeginTask, StartProcessing, TypeOK, DocRow
      <3>4. CASE FailTask(d) /\ Exists(d)
        BY <3>4, <1>a DEF FailTask, MarkFailed, TypeOK, DocRow
      <3> QED BY <1>4, <3>1, <3>2, <3>3, <3>4
    <2> QED BY <2>1
  <1> QED BY <1>1, <1>2, <1>3, <1>4
      DEF DocumentStep, Upload, IndexingTask, Delete, AdmitUpload, SaveUploadFile,
          UpdateFilePath, CleanRejectedUpload, BeginTask, FailTask, MarkFailed, LoseTask,
          AdmitDelete, DeleteDocument, DeleteFiles, AdmitChat, PersistChat

\* What a step of document d leaves of the others.
LEMMA DocumentStepFrame ==
  ASSUME TypeOK, NEW d \in Docs, DocumentStep(d), NEW e \in Docs, e # d
  PROVE  docs'[e] = docs[e] /\ (e \in bypassed' <=> e \in bypassed)
  BY DEF DocumentStep, Upload, IndexingTask, Delete, AdmitUpload, CreateDocument,
         SaveUploadFile, LoseUpload, UpdateFilePath, RejectUpload, RemoveRow, CleanRejectedUpload,
         BeginTask, StartProcessing, FinishTask, PublishIndex, FailTask, MarkFailed,
         LoseTask, AdmitDelete, DeleteDocument, DeleteFiles, AdmitChat, PersistChat,
         TypeOK

LEMMA DocumentStepAgrees ==
  ASSUME TypeOK, OwnerInv, DocInv, VersionAgreement, NEW d \in Docs, DocumentStep(d)
  PROVE  VersionAgreement'
  <1>1. UNCHANGED <<config, jobs>>
    BY DocumentStepKeepsJobs
  <1>2. SUFFICES ASSUME ~config.maintenance, RebuildsFinished, NEW e \in Docs,
                        e \notin bypassed', docs'[e].status = "indexed"
                 PROVE  InForce(e)'
    BY <1>1 DEF VersionAgreement, RebuildsFinished
  <1>3. CASE e = d
    <2>1. config.active \in Presets
      BY DEF TypeOK, ConfigRow
    <2> QED BY <1>1, <1>2, <1>3, <2>1, DocumentStepMetadata
        DEF VersionAgreement, InForce, SameChunking
  <1>4. CASE e # d
    BY <1>1, <1>2, <1>4, DocumentStepFrame DEF VersionAgreement, InForce, SameChunking
  <1> QED BY <1>3, <1>4

LEMMA JobStepAgrees ==
  ASSUME TypeOK, OwnerInv, DocInv, VersionAgreement, NEW j \in JobIds, JobStep(j)
  PROVE  VersionAgreement'
  <1>a. /\ jobs[j] \in JobRow /\ config \in ConfigRow
        /\ \A d \in Docs : docs[d] \in DocRow
    BY DEF TypeOK
  <1>b. run[j].pc # "off" => Unfinished(j) /\ config.maintenance
    BY DEF OwnerInv, WindowHasOneOwner, UnfinishedJobs
  <1>1. ASSUME config'.maintenance PROVE VersionAgreement'
    BY <1>1 DEF VersionAgreement
  <1>2. ASSUME NEW p \in Presets, OpenWindow(j, p) PROVE VersionAgreement'
    <2>1. config'.maintenance
      BY <1>2, <1>a DEF OpenWindow, ConfigRow
    <2> QED BY <1>1, <2>1
  <1>3. ASSUME NEW p \in Presets, StartPresetChange(j, p) PROVE VersionAgreement'
    <2>1. CASE SameChunking(config.active, p)
      <3>1. /\ config'.active = p /\ config'.version = config.version
            /\ UNCHANGED <<docs, bypassed>> /\ ~config.maintenance
            /\ jobs[j].status = "none" /\ ~jobs'[j].rebuild
            /\ \A i \in JobIds : i # j => jobs'[i] = jobs[i]
        BY <1>3, <1>a, <2>1 DEF StartPresetChange, WindowFree, NextJob, ConfigRow, TypeOK
      <3>2. RebuildsFinished' => RebuildsFinished
        BY <3>1 DEF RebuildsFinished
      <3>3. ASSUME NEW d \in Docs, InForce(d) PROVE InForce(d)'
        BY <2>1, <3>1, <3>3 DEF InForce, SameChunking
      <3> QED BY <3>1, <3>2, <3>3 DEF VersionAgreement
    <2>2. CASE ~SameChunking(config.active, p)
      BY <1>2, <1>3, <2>2 DEF StartPresetChange
    <2> QED BY <2>1, <2>2
  <1>4. ASSUME NEW old \in JobIds, RetryReindexJob(j, old) PROVE VersionAgreement'
    <2>1. jobs[old].target \in Presets
      BY DEF TypeOK, JobRow
    <2> QED BY <1>2, <1>4, <2>1 DEF RetryReindexJob
  <1>5. CASE \/ BeginJob(j) \/ LoseJob(j)
             \/ \E d \in Docs : \/ BeginJobDocument(j, d)
                               \/ FinishJobDocument(j, d) \/ FailJobDocument(j, d)
    <2>1. config' = config /\ run[j].pc # "off"
      BY <1>5 DEF BeginJob, LoseJob, BeginJobDocument, FinishJobDocument, FailJobDocument
    <2> QED BY <1>1, <1>b, <2>1
  <1>6. CASE FinishJob(j)
    <2>1. /\ config'.active = jobs[j].target /\ config'.version = jobs[j].version
          /\ UNCHANGED <<docs, bypassed>>
          /\ run[j].pc = "listed" /\ run[j].todo = {}
      BY <1>6 DEF FinishJob
    <2>2. ASSUME NEW d \in Docs, d \notin bypassed, docs[d].status = "indexed"
          PROVE  InForce(d)'
      <3>1. docs[d].preset = jobs[j].target /\ docs[d].version = jobs[j].version
        BY <2>1, <2>2 DEF DocInv, RunInv
      <3> QED BY <1>a, <2>1, <3>1 DEF InForce, SameChunking, JobRow
    <2> QED BY <2>1, <2>2 DEF VersionAgreement
  <1>7. CASE AbortJob(j)
    <2>1. /\ Unfinished(j) /\ jobs[j].rebuild
          /\ \A i \in JobIds : i > j => jobs[i].status = "none"
      BY <1>7, <1>b DEF AbortJob, OwnerInv, WindowHasOneOwner, UnfinishedJobs
    <2>2. /\ jobs'[j].status = "failed" /\ jobs'[j].rebuild = jobs[j].rebuild
          /\ \A i \in JobIds : i # j => jobs'[i] = jobs[i]
      BY <1>7, <1>a DEF AbortJob, TypeOK, JobRow
    <2>3. \A i \in JobIds : i > j => jobs'[i].status = "none"
      BY <2>1, <2>2 DEF JobIds
    <2>4. ~RebuildsFinished'
      BY <2>1, <2>2, <2>3 DEF RebuildsFinished
    <2> QED BY <2>4 DEF VersionAgreement
  <1> QED BY <1>3, <1>4, <1>5, <1>6, <1>7 DEF JobStep, ReindexJob

LEMMA RestartAgrees ==
  ASSUME TypeOK, OwnerInv, VersionAgreement, Crash \/ StartUp
  PROVE  VersionAgreement'
  <1>1. UNCHANGED <<config, bypassed>>
    BY RecoverKeepsConfig
    DEF Crash, StartUp, RecoverInterruptedReindexJobs, PrepareInterruptedDocuments
  <1>2. CASE config.maintenance
    BY <1>1, <1>2 DEF VersionAgreement
  <1>3. CASE ~config.maintenance
    <2>1. UnfinishedJobs = {}
      BY <1>3 DEF OwnerInv, WindowHasOneOwner
    <2>2. jobs' = jobs
      BY <2>1 DEF Crash, StartUp, RecoverInterruptedReindexJobs, PrepareInterruptedDocuments
    <2>3. ASSUME NEW d \in Docs, docs'[d].status = "indexed"
          PROVE  /\ docs[d].status = "indexed" /\ docs'[d].preset = docs[d].preset
                 /\ docs'[d].version = docs[d].version
      <3>1. docs[d] \in DocRow
        BY DEF TypeOK
      <3>2. \/ docs' = docs
            \/ docs'[d] = [docs[d] EXCEPT !.status =
                             IF Recoverable(d) THEN "uploaded"
                             ELSE IF Active(d) THEN "failed" ELSE @]
        BY DEF Crash, StartUp, RecoverInterruptedReindexJobs, PrepareInterruptedDocuments
      <3> QED BY <2>3, <3>1, <3>2 DEF DocRow
    <2> QED BY <1>1, <2>2, <2>3
        DEF VersionAgreement, RebuildsFinished, InForce, SameChunking
  <1> QED BY <1>2, <1>3

\* Outside a window, and unless the last rebuild was abandoned, every indexed
\* document that did not slip into a window is of the version in force.
THEOREM VersionsAgree == Spec => []VersionAgreement
  <1>1. Init => VersionAgreement
    BY DEF Init, VersionAgreement, Absent
  <1>2. TypeOK /\ OwnerInv /\ DocInv /\ VersionAgreement /\ [Next]_vars
          => VersionAgreement'
    <2> SUFFICES ASSUME TypeOK, OwnerInv, DocInv, VersionAgreement, [Next]_vars
                 PROVE  VersionAgreement'
      OBVIOUS
    <2>1. CASE UNCHANGED vars
      BY <2>1 DEF vars, VersionAgreement, RebuildsFinished, InForce, SameChunking
    <2> QED BY <2>1, DocumentStepAgrees, JobStepAgrees, RestartAgrees DEF Next
  <1> QED BY <1>1, <1>2, TypeCorrect, OwnerInvariant, DocInvariant, PTL DEF Spec

-----------------------------------------------------------------------------
(* A row with a path has its file.                                         *)

\* Rows go before their files, and a document id is used by one upload.
FileInv(d) ==
  /\ Exists(d) /\ (docs[d].path = TRUE \/ task[d].pc = "saved") => d \in files
  /\ task[d].pc = "rejected" \/ deleting[d] = "unlink" => ~Exists(d)
  /\ task[d].pc \in {"new", "admitted"} => ~Exists(d) /\ deleting[d] = "none"

FilesInv == \A d \in Docs : FileInv(d)

\* The invariant of d only reads d's row, file, request and thread.
LEMMA FileFrame ==
  ASSUME FilesInv, NEW d \in Docs,
         /\ docs'[d] = docs[d] /\ task'[d] = task[d] /\ deleting'[d] = deleting[d]
         /\ d \in files' <=> d \in files
  PROVE  FileInv(d)'
  BY DEF FilesInv, FileInv, Exists

\* The transactions of process_document change neither path nor existence.
LEMMA ProcessingKeepsPath ==
  ASSUME TypeOK, NEW d \in Docs, NEW reset, NEW p, NEW v,
         \/ StartProcessing(d, reset) /\ Exists(d)
         \/ PublishIndex(d, p, v) /\ Exists(d)
         \/ MarkFailed(d)
         \/ docs' = docs,
         NEW e \in Docs
  PROVE  docs'[e].path = docs[e].path /\ (Exists(e)' <=> Exists(e))
  <1>1. docs[d] \in DocRow /\ \A x \in Docs : x # d => docs'[x] = docs[x]
    BY DEF StartProcessing, PublishIndex, MarkFailed, TypeOK
  <1>2. docs'[d].path = docs[d].path /\ (Exists(d)' <=> Exists(d))
    <2>1. CASE StartProcessing(d, reset) /\ Exists(d)
      BY <1>1, <2>1 DEF StartProcessing, TypeOK, DocRow, Exists
    <2>2. CASE PublishIndex(d, p, v) /\ Exists(d)
      BY <1>1, <2>2 DEF PublishIndex, TypeOK, DocRow, Exists
    <2>3. CASE MarkFailed(d)
      BY <1>1, <2>3 DEF MarkFailed, TypeOK, DocRow, Exists
    <2> QED BY <2>1, <2>2, <2>3 DEF Exists
  <1> QED BY <1>1, <1>2 DEF Exists

LEMMA DocumentStepKeepsFiles ==
  ASSUME TypeOK, FilesInv, NEW d \in Docs, DocumentStep(d)
  PROVE  FilesInv'
  <1> USE DEF At, Goto
  <1>a. docs[d] \in DocRow /\ task[d] \in TaskState /\ FileInv(d)
    BY DEF TypeOK, FilesInv
  <1>c. \A pc : task' = [task EXCEPT ![d].pc = pc] => task'[d].pc = pc
    BY <1>a DEF TypeOK, TaskState
  <1>b. ASSUME NEW e \in Docs, e # d
        PROVE  /\ docs'[e] = docs[e] /\ task'[e] = task[e] /\ deleting'[e] = deleting[e]
               /\ e \in files' <=> e \in files
    BY <1>b
    DEF DocumentStep, Upload, IndexingTask, Delete, AdmitUpload, CreateDocument,
        SaveUploadFile, LoseUpload, UpdateFilePath, RejectUpload, RemoveRow, CleanRejectedUpload,
        BeginTask, StartProcessing, FinishTask, PublishIndex, FailTask, MarkFailed,
        LoseTask, AdmitDelete, DeleteDocument, DeleteFiles, AdmitChat, PersistChat, TypeOK
  <1>0. SUFFICES FileInv(d)'
    BY <1>b, FileFrame DEF FilesInv
  <1>1. CASE AdmitUpload(d)
    BY <1>1, <1>a, <1>c DEF AdmitUpload, FileInv, Exists
  <1>2. CASE CreateDocument(d)
    <2>1. /\ docs'[d].path = FALSE
          /\ task'[d].pc = "row" /\ task[d].pc = "admitted" /\ deleting' = deleting
      BY <1>2, <1>a, <1>c DEF CreateDocument, Absent, TypeOK
    <2> QED BY <1>a, <2>1 DEF FileInv
  <1>3. CASE SaveUploadFile(d)
    BY <1>3, <1>a, <1>c DEF SaveUploadFile, FileInv, Exists
  <1>4. CASE UpdateFilePath(d)
    <2>1. /\ task[d].pc = "saved" /\ UNCHANGED <<files, deleting>>
          /\ task'[d].pc \in {"queued", "done"}
          /\ docs'[d].status = docs[d].status
      <3>1. [task[d] EXCEPT !.pc = "queued", !.reset = FALSE].pc = "queued"
        BY <1>a DEF TaskState
      <3>2. [docs[d] EXCEPT !.path = TRUE].status = docs[d].status
        BY <1>a DEF DocRow
      <3>3. CASE Exists(d)
        BY <1>4, <3>1, <3>2, <3>3 DEF UpdateFilePath, TypeOK
      <3>4. CASE ~Exists(d)
        BY <1>4, <1>c, <3>4 DEF UpdateFilePath
      <3> QED BY <3>3, <3>4
    <2> QED BY <1>a, <2>1 DEF FileInv, Exists
  <1>5. CASE RejectUpload(d) \/ (DeleteDocument(d) /\ Exists(d) /\ ~Active(d))
    <2>1. ~Exists(d)'
      BY <1>5 DEF RejectUpload, DeleteDocument, RemoveRow, TypeOK, Exists, Absent
    <2>2. task[d].pc \notin {"new", "admitted"} /\ task'[d].pc \notin {"new", "admitted"}
      BY <1>5, <1>a, <1>c DEF RejectUpload, DeleteDocument, FileInv
    <2> QED BY <2>1, <2>2 DEF FileInv
  <1>6. CASE CleanRejectedUpload(d)
    BY <1>6, <1>a, <1>c DEF CleanRejectedUpload, FileInv, Exists
  <1>10. CASE LoseUpload(d)
    <2>1. docs'[d] = docs[d] \/ (docs'[d] = [docs[d] EXCEPT !.path = TRUE] /\ At(d, "saved"))
      BY <1>10 DEF LoseUpload, TypeOK
    <2>2. docs'[d].status = docs[d].status /\ (docs'[d].path = docs[d].path \/ At(d, "saved"))
      BY <1>a, <2>1 DEF DocRow
    <2>3. /\ UNCHANGED <<files, deleting>> /\ task[d].pc \in {"row", "saved"}
          /\ task'[d].pc = "lost"
      BY <1>10, <1>c DEF LoseUpload
    <2> QED BY <1>a, <2>2, <2>3 DEF FileInv, Exists
  <1>7. CASE IndexingTask(d) \/ LoseTask(d)
    <2>1. /\ UNCHANGED <<files, deleting>>
          /\ task[d].pc \in {"queued", "indexing"} /\ task'[d].pc \in {"indexing", "done"}
      <3>1. [task[d] EXCEPT !.pc = "indexing", !.preset = config.active,
                            !.version = config.version].pc = "indexing"
        BY <1>a DEF TaskState
      <3>2. CASE BeginTask(d) /\ Exists(d)
        BY <3>1, <3>2 DEF BeginTask, TypeOK
      <3>3. CASE BeginTask(d) /\ ~Exists(d)
        BY <1>c, <3>3 DEF BeginTask
      <3>4. CASE FinishTask(d) \/ FailTask(d) \/ LoseTask(d)
        BY <1>c, <3>4 DEF FinishTask, FailTask, LoseTask
      <3> QED BY <1>7, <3>2, <3>3, <3>4 DEF IndexingTask
    <2>2. docs'[d].path = docs[d].path /\ (Exists(d)' <=> Exists(d))
      <3>1. \/ StartProcessing(d, task[d].reset) /\ Exists(d)
            \/ PublishIndex(d, task[d].preset, task[d].version) /\ Exists(d)
            \/ MarkFailed(d) \/ docs' = docs
        BY <1>7 DEF IndexingTask, BeginTask, FinishTask, FailTask, LoseTask
      <3> QED BY <3>1, ProcessingKeepsPath
    <2> QED BY <1>a, <2>1, <2>2 DEF FileInv
  <1>8. CASE \/ AdmitDelete(d) \/ DeleteFiles(d) \/ AdmitChat(d) \/ PersistChat(d)
             \/ DeleteDocument(d) /\ ~(Exists(d) /\ ~Active(d))
    <2>1. UNCHANGED <<docs, task>> /\ (files' = files \/ DeleteFiles(d))
      BY <1>8 DEF AdmitDelete, DeleteFiles, AdmitChat, PersistChat, DeleteDocument
    <2>2. /\ deleting'[d] = "unlink" => deleting[d] = "unlink"
          /\ deleting'[d] # "none" => deleting[d] # "none" \/ Exists(d)
      BY <1>8 DEF AdmitDelete, DeleteFiles, AdmitChat, PersistChat, DeleteDocument, TypeOK
    <2>3. DeleteFiles(d) => ~Exists(d)
      BY <1>a DEF DeleteFiles, FileInv
    <2> QED BY <1>a, <2>1, <2>2, <2>3 DEF FileInv, Exists
  <1>9. DeleteDocument(d) => FileInv(d)'
    BY <1>5, <1>8 DEF DeleteDocument, Exists, Active
  <1> QED
    BY <1>1, <1>2, <1>3, <1>4, <1>5, <1>6, <1>7, <1>8, <1>9, <1>10
    DEF DocumentStep, Upload, Delete

\* Jobs change the status of a document and never its path.
LEMMA JobStepKeepsFiles ==
  ASSUME TypeOK, FilesInv, NEW j \in JobIds, JobStep(j)
  PROVE  FilesInv'
  <1>1. UNCHANGED <<files, task, deleting>>
    BY DEF JobStep, ReindexJob, StartPresetChange, RetryReindexJob, BeginJob,
           BeginJobDocument, FinishJobDocument, FailJobDocument, FinishJob, AbortJob, LoseJob
  <1>2. ASSUME NEW d \in Docs PROVE docs'[d].path = docs[d].path /\ (Exists(d)' <=> Exists(d))
    <2>1. CASE \E x \in Docs : \/ BeginJobDocument(j, x) \/ FinishJobDocument(j, x)
                              \/ FailJobDocument(j, x)
      <3>1. PICK x \in Docs : \/ BeginJobDocument(j, x) \/ FinishJobDocument(j, x)
                              \/ FailJobDocument(j, x)
        BY <2>1
      <3>2. \/ StartProcessing(x, jobs[j].rebuild) /\ Exists(x)
            \/ PublishIndex(x, jobs[j].target, jobs[j].version) /\ Exists(x)
            \/ MarkFailed(x) \/ docs' = docs
        BY <3>1 DEF BeginJobDocument, FinishJobDocument, FailJobDocument
      <3> QED BY <3>2, ProcessingKeepsPath
    <2>2. CASE docs' = docs
      BY <2>2 DEF Exists
    <2> QED BY <2>1, <2>2 DEF JobStep, ReindexJob, StartPresetChange, RetryReindexJob,
                              BeginJob, FinishJob, AbortJob, LoseJob
  <1> QED BY <1>1, <1>2 DEF FilesInv, FileInv

LEMMA RestartKeepsFiles ==
  ASSUME TypeOK, FilesInv, Crash \/ StartUp
  PROVE  FilesInv'
  <1>1. CASE Crash
    <2>1. UNCHANGED <<docs, files>> /\ \A d \in Docs : deleting'[d] = "none"
      BY <1>1 DEF Crash
    <2>2. ASSUME NEW d \in Docs
          PROVE  /\ task'[d].pc \in {"new", "done"}
                 /\ task'[d].pc = "new" => task[d].pc \in {"new", "admitted"}
      BY <1>1 DEF Crash, TypeOK, TaskState
    <2> QED BY <2>1, <2>2 DEF FilesInv, FileInv, Exists
  <1>2. CASE RecoverInterruptedReindexJobs
    BY <1>2 DEF RecoverInterruptedReindexJobs, FilesInv, FileInv, Exists
  <1>3. CASE PrepareInterruptedDocuments
    <2>1. UNCHANGED <<files, deleting>>
      BY <1>3 DEF PrepareInterruptedDocuments
    <2>2. ASSUME NEW d \in Docs PROVE FileInv(d)'
      <3>1. docs[d] \in DocRow /\ task[d] \in TaskState /\ FileInv(d)
        BY DEF TypeOK, FilesInv
      <3>2. docs'[d].path = docs[d].path /\ (Exists(d)' <=> Exists(d))
        <4>1. \/ docs'[d] = docs[d]
              \/ docs'[d] = [docs[d] EXCEPT !.status = "uploaded"] /\ Active(d)
              \/ docs'[d] = [docs[d] EXCEPT !.status = "failed"] /\ Active(d)
              \/ docs'[d] = [docs[d] EXCEPT !.status = docs[d].status]
          BY <1>3 DEF PrepareInterruptedDocuments, Recoverable
        <4> QED BY <3>1, <4>1 DEF DocRow, Exists, Active
      <3>3. \/ task'[d] = task[d]
            \/ task'[d].pc = "queued"
        BY <1>3, <3>1 DEF PrepareInterruptedDocuments, TaskState
      <3> QED BY <2>1, <3>1, <3>2, <3>3 DEF FileInv
    <2> QED BY <2>2 DEF FilesInv
  <1> QED BY <1>1, <1>2, <1>3 DEF StartUp

\* A stored path never outlives its original, whatever crashes in between.
THEOREM PathsHaveFiles == Spec => []PathHasFile
  <1>1. Init => FilesInv
    BY DEF Init, FilesInv, FileInv, Exists, Absent
  <1>2. TypeOK /\ FilesInv /\ [Next]_vars => FilesInv'
    <2> SUFFICES ASSUME TypeOK, FilesInv, [Next]_vars PROVE FilesInv'
      OBVIOUS
    <2>1. CASE UNCHANGED vars
      BY <2>1 DEF vars, FilesInv, FileInv, Exists
    <2> QED BY <2>1, DocumentStepKeepsFiles, JobStepKeepsFiles, RestartKeepsFiles DEF Next
  <1>3. FilesInv => PathHasFile
    BY DEF FilesInv, FileInv, PathHasFile
  <1> QED BY <1>1, <1>2, <1>3, TypeCorrect, PTL DEF Spec

-----------------------------------------------------------------------------
(* A file has a row, or somebody who is about to remove it.                *)

\* Once saved, a file is left by its row only to a deletion or to the clean-up of
\* a rejected upload.
KeptInv(d) ==
  d \in files \ bypassed =>
    Exists(d) \/ deleting[d] = "unlink" \/ task[d].pc = "rejected"

KeptFiles == crashes = 0 /\ faults = 0 => \A d \in Docs : KeptInv(d)

\* The row of an upload that did not slip into a window is there to be found.
LEMMA BusyHasRow ==
  ASSUME DocInv, NEW d \in Docs, d \notin bypassed, Busy(d)
  PROVE  Exists(d)
  BY BusyIsActive DEF Active, Exists

\* The count of crashes and faults never falls.
LEMMA QuietBefore ==
  ASSUME TypeOK, [Next]_vars, crashes' = 0, faults' = 0
  PROVE  crashes = 0 /\ faults = 0 /\ ~Crash /\ ~Fault
  <1>1. crashes \in Nat /\ faults \in Nat
    BY DEF TypeOK
  <1>2. ~Crash /\ ~Fault
    BY <1>1 DEF Crash, Fault
  <1>3. CASE UNCHANGED vars
    BY <1>3, <1>2 DEF vars
  <1>4. ASSUME NEW d \in Docs, DocumentStep(d) PROVE crashes = 0 /\ faults = 0
    BY <1>2, <1>4
    DEF DocumentStep, Upload, IndexingTask, Delete, AdmitUpload, CreateDocument,
        SaveUploadFile, LoseUpload, UpdateFilePath, RejectUpload, CleanRejectedUpload, BeginTask,
        FinishTask, FailTask, LoseTask, AdmitDelete, DeleteDocument, DeleteFiles,
        AdmitChat, PersistChat, NoFault, Outage
  <1>5. ASSUME NEW j \in JobIds, JobStep(j) PROVE crashes = 0 /\ faults = 0
    BY <1>2, <1>5
    DEF JobStep, ReindexJob, StartPresetChange, RetryReindexJob, BeginJob,
        BeginJobDocument, FinishJobDocument, FailJobDocument, FinishJob, AbortJob, LoseJob,
        NoFault, Outage
  <1>6. CASE StartUp
    <2>1. RecoverInterruptedReindexJobs => UNCHANGED <<crashes, faults>>
      BY DEF RecoverInterruptedReindexJobs
    <2>2. PrepareInterruptedDocuments => UNCHANGED <<crashes, faults>>
      BY DEF PrepareInterruptedDocuments
    <2> QED BY <1>2, <1>6, <2>1, <2>2 DEF StartUp
  <1> QED BY <1>2, <1>3, <1>4, <1>5, <1>6 DEF Next

LEMMA DocumentStepKeepsKept ==
  ASSUME TypeOK, DocInv, \A e \in Docs : KeptInv(e), ~Fault, NEW d \in Docs, DocumentStep(d)
  PROVE  \A e \in Docs : KeptInv(e)'
  <1> USE DEF At, Goto
  <1>a. docs[d] \in DocRow /\ task[d] \in TaskState /\ KeptInv(d)
    BY DEF TypeOK
  <1>c. \A pc : task' = [task EXCEPT ![d].pc = pc] => task'[d].pc = pc
    BY <1>a DEF TypeOK, TaskState
  <1>b. ASSUME NEW e \in Docs, e # d
        PROVE  /\ docs'[e] = docs[e] /\ task'[e] = task[e] /\ deleting'[e] = deleting[e]
               /\ e \in files' <=> e \in files
               /\ e \in bypassed' <=> e \in bypassed
    BY <1>b
    DEF DocumentStep, Upload, IndexingTask, Delete, AdmitUpload, CreateDocument,
        SaveUploadFile, LoseUpload, UpdateFilePath, RejectUpload, RemoveRow, CleanRejectedUpload,
        BeginTask, StartProcessing, FinishTask, PublishIndex, FailTask, MarkFailed,
        LoseTask, AdmitDelete, DeleteDocument, DeleteFiles, AdmitChat, PersistChat, TypeOK
  <1>0. SUFFICES KeptInv(d)'
    BY <1>b DEF KeptInv, Exists
  <1>1. CASE AdmitUpload(d) \/ AdmitDelete(d) \/ AdmitChat(d) \/ PersistChat(d)
    BY <1>1, <1>a, <1>c
    DEF AdmitUpload, AdmitDelete, AdmitChat, PersistChat, KeptInv, Exists, TypeOK
  <1>2. CASE CreateDocument(d)
    <2>1. Exists(d)'
      BY <1>2 DEF CreateDocument, Absent, Exists, TypeOK
    <2> QED BY <2>1 DEF KeptInv
  <1>3. CASE SaveUploadFile(d)
    <2>1. d \notin bypassed => Exists(d)
      BY <1>3, BusyHasRow DEF SaveUploadFile, Busy
    <2> QED BY <1>3, <2>1 DEF SaveUploadFile, KeptInv, Exists
  <1>4. CASE UpdateFilePath(d)
    <2>1. d \notin bypassed => Exists(d)
      BY <1>4, BusyHasRow DEF UpdateFilePath, Busy
    <2>2. [docs[d] EXCEPT !.path = TRUE].status = docs[d].status
      BY <1>a DEF DocRow
    <2>3. docs'[d].status = docs[d].status /\ UNCHANGED bypassed
      BY <1>4, <2>2 DEF UpdateFilePath, TypeOK
    <2> QED BY <2>1, <2>3 DEF KeptInv, Exists
  <1>5. CASE RejectUpload(d)
    BY <1>5, <1>c DEF RejectUpload, KeptInv
  <1>6. CASE CleanRejectedUpload(d) \/ DeleteFiles(d)
    BY <1>6 DEF CleanRejectedUpload, DeleteFiles, KeptInv
  <1>7. CASE IndexingTask(d) \/ LoseTask(d)
    <2>1. /\ UNCHANGED <<files, deleting>> /\ task[d].pc \in {"queued", "indexing"}
          /\ d \notin bypassed' => d \notin bypassed \/ Exists(d)
      BY <1>7 DEF IndexingTask, BeginTask, FinishTask, FailTask, LoseTask
    <2>2. Exists(d)' <=> Exists(d)
      <3>1. \/ StartProcessing(d, task[d].reset) /\ Exists(d)
            \/ PublishIndex(d, task[d].preset, task[d].version) /\ Exists(d)
            \/ MarkFailed(d) \/ docs' = docs
        BY <1>7 DEF IndexingTask, BeginTask, FinishTask, FailTask, LoseTask
      <3> QED BY <3>1, ProcessingKeepsPath
    <2> QED BY <1>a, <2>1, <2>2 DEF KeptInv
  <1>8. CASE DeleteDocument(d)
    BY <1>8, <1>a DEF DeleteDocument, KeptInv, TypeOK, Exists
  <1>9. ~LoseUpload(d)
    BY DEF LoseUpload
  <1> QED
    BY <1>1, <1>2, <1>3, <1>4, <1>5, <1>6, <1>7, <1>8, <1>9 DEF DocumentStep, Upload, Delete

LEMMA JobStepKeepsKept ==
  ASSUME TypeOK, \A e \in Docs : KeptInv(e), NEW j \in JobIds, JobStep(j)
  PROVE  \A e \in Docs : KeptInv(e)'
  <1>1. UNCHANGED <<files, task, deleting>>
    BY DEF JobStep, ReindexJob, StartPresetChange, RetryReindexJob, BeginJob,
           BeginJobDocument, FinishJobDocument, FailJobDocument, FinishJob, AbortJob, LoseJob
  <1>2. ASSUME NEW d \in Docs
        PROVE  /\ Exists(d)' <=> Exists(d)
               /\ d \in bypassed => d \in bypassed' \/ Exists(d)
    <2>1. CASE \E x \in Docs : \/ BeginJobDocument(j, x) \/ FinishJobDocument(j, x)
                              \/ FailJobDocument(j, x)
      <3>1. PICK x \in Docs : \/ BeginJobDocument(j, x) \/ FinishJobDocument(j, x)
                              \/ FailJobDocument(j, x)
        BY <2>1
      <3>2. /\ \/ StartProcessing(x, jobs[j].rebuild) /\ Exists(x)
               \/ PublishIndex(x, jobs[j].target, jobs[j].version) /\ Exists(x)
               \/ MarkFailed(x) \/ docs' = docs
            /\ d \in bypassed => d \in bypassed' \/ Exists(d)
        BY <3>1 DEF BeginJobDocument, FinishJobDocument, FailJobDocument
      <3> QED BY <3>2, ProcessingKeepsPath
    <2>2. CASE UNCHANGED <<docs, bypassed>>
      BY <2>2 DEF Exists
    <2> QED BY <2>1, <2>2 DEF JobStep, ReindexJob, StartPresetChange, RetryReindexJob,
                              BeginJob, FinishJob, AbortJob, LoseJob
  <1> QED BY <1>1, <1>2 DEF KeptInv

LEMMA StartUpKeepsKept ==
  ASSUME TypeOK, \A e \in Docs : KeptInv(e), StartUp
  PROVE  \A e \in Docs : KeptInv(e)'
  <1>1. UNCHANGED <<files, deleting, bypassed>>
    BY DEF StartUp, RecoverInterruptedReindexJobs, PrepareInterruptedDocuments
  <1>2. ASSUME NEW d \in Docs
        PROVE  /\ Exists(d) => Exists(d)'
               /\ task'[d] = task[d] \/ Exists(d)
    <2>1. docs[d] \in DocRow
      BY DEF TypeOK
    <2>2. \/ docs'[d] = docs[d]
          \/ docs'[d] = [docs[d] EXCEPT !.status = "uploaded"]
          \/ docs'[d] = [docs[d] EXCEPT !.status = "failed"]
          \/ docs'[d] = [docs[d] EXCEPT !.status = docs[d].status]
      BY DEF StartUp, RecoverInterruptedReindexJobs, PrepareInterruptedDocuments
    <2>3. task'[d] = task[d] \/ Exists(d)
      BY DEF StartUp, RecoverInterruptedReindexJobs, PrepareInterruptedDocuments,
             Recoverable, Active, Exists, TypeOK
    <2> QED BY <2>1, <2>2, <2>3 DEF DocRow, Exists
  <1> QED BY <1>1, <1>2 DEF KeptInv

\* Without a crash or a fault, no file outlives its row and the requests about it.
THEOREM NoFileIsLeft == Spec => []NoOrphanFiles
  <1>1. Init => KeptFiles
    BY DEF Init, KeptFiles, KeptInv
  <1>2. TypeOK /\ DocInv /\ KeptFiles /\ [Next]_vars => KeptFiles'
    <2> SUFFICES ASSUME TypeOK, DocInv, KeptFiles, [Next]_vars, crashes' = 0, faults' = 0
                 PROVE  \A d \in Docs : KeptInv(d)'
      BY DEF KeptFiles
    <2>1. (\A d \in Docs : KeptInv(d)) /\ ~Crash /\ ~Fault
      BY QuietBefore DEF KeptFiles
    <2>2. CASE UNCHANGED vars
      BY <2>1, <2>2 DEF vars, KeptInv, Exists
    <2> QED BY <2>1, <2>2, DocumentStepKeepsKept, JobStepKeepsKept, StartUpKeepsKept DEF Next
  <1>3. TypeOK /\ KeptFiles => NoOrphanFiles
    BY DEF TypeOK, KeptFiles, KeptInv, NoOrphanFiles
  <1> QED BY <1>1, <1>2, <1>3, TypeCorrect, DocInvariant, PTL DEF Spec

=============================================================================
