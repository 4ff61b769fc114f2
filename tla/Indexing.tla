------------------------------ MODULE Indexing ------------------------------
(***************************************************************************)
(* Documents, the rows derived from them, the retrieval configuration and  *)
(* the reindex jobs of the API process, as they share one database.        *)
(*                                                                         *)
(* Each step is one committed transaction of the code, or one effect on    *)
(* the upload directory.  A request checks maintenance_mode in a           *)
(* dependency, before its handler and without a lock, so admission is a    *)
(* step of its own.  Background work (process_document, run_reindex_job)   *)
(* runs in threads that die with the process; rows and files survive.      *)
(***************************************************************************)
EXTENDS Naturals, FiniteSets

CONSTANTS
  Docs,           \* document ids, each used by at most one upload
  Presets,        \* keys of retrieval_presets
  ChunkShape,     \* ChunkShape[p]: chunk size and overlap of preset p
  DefaultPreset,  \* active_preset_key of a fresh database
  None,           \* SQL NULL
  DeleteDocs,     \* bound: the documents whose owner may ask for deletion
  ChatDocs,       \* bound: the documents chats are scoped to
  MaxJobs,        \* bound: reindex_jobs rows ever created
  MaxCrashes,     \* bound: API process crashes
  MaxFaults,      \* bound: errors of one statement or commit, and of file removals
  MaxOutages      \* bound: database errors that also hit the except branch

ASSUME PresetAssumption ==
  /\ ChunkShape \in [Presets -> Nat]
  /\ DefaultPreset \in Presets
  /\ None \notin Presets /\ None \notin Docs

ASSUME BoundAssumption ==
  /\ MaxJobs \in Nat /\ MaxCrashes \in Nat
  /\ MaxFaults \in Nat /\ MaxOutages \in Nat
  /\ DeleteDocs \subseteq Docs /\ ChatDocs \subseteq Docs

VARIABLES
  docs,      \* documents: status, file_path set?, indexed preset and version
  rows,      \* rows[d][p]: batches of pages and chunks of d cut with preset p
  sessions,  \* chat sessions scoped to d: "none", "live" or "stale" citations
  files,     \* documents with an original in the upload directory
  config,    \* the single retrieval_configuration row
  jobs,      \* reindex_jobs
  api,       \* "down", "jobs" (start-up recovered the jobs), "up"
  task,      \* task[d]: the upload request of d, then its indexing thread
  run,       \* run[j]: the thread of run_reindex_job(j)
  deleting,  \* deleting[d]: the DELETE request of d
  chat,      \* chat[d]: a chat request scoped to d and not yet persisted
  bypassed,  \* history: documents whose row was inserted inside a maintenance
             \* window and that no later rebuild had for itself
  crashes, faults, outages

vars == <<docs, rows, sessions, files, config, jobs, api, task, run, deleting,
          chat, bypassed, crashes, faults, outages>>

JobIds == 1..MaxJobs

DocStatus   == {"absent", "uploaded", "processing", "indexed", "failed"}
JobStatus   == {"none", "pending", "running", "completed",
                "completed_with_errors", "failed"}
TaskStep    == {"new", "admitted", "row", "saved", "rejected", "lost",
                "queued", "indexing", "done"}
RunStep     == {"off", "queued", "listed", "indexing"}
ScopedState == {"none", "live", "stale"}

Absent == [status |-> "absent", path |-> FALSE, preset |-> None, version |-> 0]
NoRows == [p \in Presets |-> 0]
Batch(p) == [q \in Presets |-> IF q = p THEN 1 ELSE 0]
Idle == [pc |-> "off", todo |-> {}, doc |-> None]

\* The rows of the tables, and the local state of the threads.
DocRow    == [status: DocStatus, path: BOOLEAN, preset: Presets \cup {None},
              version: Nat]
ConfigRow == [active: Presets, pending: Presets \cup {None}, version: Nat,
              maintenance: BOOLEAN]
JobRow    == [status: JobStatus, target: Presets, version: Nat,
              rebuild: BOOLEAN, errors: BOOLEAN]
TaskState == [pc: TaskStep, preset: Presets, version: Nat, reset: BOOLEAN]
RunState  == [pc: RunStep, todo: SUBSET Docs, doc: Docs \cup {None}]

TypeOK ==
  /\ docs \in [Docs -> DocRow]
  /\ rows \in [Docs -> [Presets -> Nat]]
  /\ sessions \in [Docs -> ScopedState]
  /\ files \subseteq Docs
  /\ config \in ConfigRow
  /\ jobs \in [JobIds -> JobRow]
  /\ api \in {"down", "jobs", "up"}
  /\ task \in [Docs -> TaskState]
  /\ run \in [JobIds -> RunState]
  /\ deleting \in [Docs -> {"none", "admitted", "unlink"}]
  /\ chat \in [Docs -> ScopedState]
  /\ bypassed \subseteq Docs
  /\ crashes \in Nat /\ faults \in Nat /\ outages \in Nat

Init ==
  /\ docs = [d \in Docs |-> Absent]
  /\ rows = [d \in Docs |-> NoRows]
  /\ sessions = [d \in Docs |-> "none"]
  /\ files = {}
  /\ config = [active |-> DefaultPreset, pending |-> None, version |-> 1,
               maintenance |-> FALSE]
  /\ jobs = [j \in JobIds |->
               [status |-> "none", target |-> DefaultPreset, version |-> 0,
                rebuild |-> FALSE, errors |-> FALSE]]
  /\ api = "down"
  /\ task = [d \in Docs |-> [pc |-> "new", preset |-> DefaultPreset,
                             version |-> 0, reset |-> FALSE]]
  /\ run = [j \in JobIds |-> Idle]
  /\ deleting = [d \in Docs |-> "none"]
  /\ chat = [d \in Docs |-> "none"]
  /\ bypassed = {}
  /\ crashes = 0 /\ faults = 0 /\ outages = 0

-----------------------------------------------------------------------------
(* Queries of the repositories.                                            *)

Exists(d) == docs[d].status # "absent"
Active(d) == docs[d].status \in {"uploaded", "processing"}
HasActiveDocuments == \E d \in Docs : Active(d)

Unfinished(j) == jobs[j].status \in {"pending", "running"}
UnfinishedJobs == {j \in JobIds : Unfinished(j)}

SameChunking(p, q) == ChunkShape[p] = ChunkShape[q]

\* The steps of an upload between its INSERT and the end of its indexing.
Busy(d) == task[d].pc \in {"row", "saved", "queued", "indexing"}

-----------------------------------------------------------------------------
(* The transactions of process_document, shared by its callers.            *)

\* Variant: reset_existing is ignored.
StartProcessingKeepingRows(d, reset) ==
  /\ docs' = [docs EXCEPT ![d].status = "processing"]
  /\ UNCHANGED <<rows, sessions, chat>>

\* First transaction: with reset_existing, everything derived goes.
StartProcessing(d, reset) ==
  /\ docs' = [docs EXCEPT ![d].status = "processing"]
  /\ rows' = IF reset THEN [rows EXCEPT ![d] = NoRows] ELSE rows
  /\ sessions' = IF reset THEN [sessions EXCEPT ![d] = "none"] ELSE sessions
  /\ chat' = IF reset /\ chat[d] = "live"
               THEN [chat EXCEPT ![d] = "stale"] ELSE chat

\* Second transaction: pages, chunks, index metadata and status together, of
\* the stored file; a document whose file_path is still empty cannot be read.
PublishIndex(d, p, v) ==
  /\ docs[d].path
  /\ docs' = [docs EXCEPT ![d] = [@ EXCEPT !.status = "indexed", !.preset = p,
                                          !.version = v]]
  /\ rows' = [rows EXCEPT ![d][p] = @ + 1]

\* The except branch: nothing to do for a document that is gone.
MarkFailed(d) ==
  docs' = IF Exists(d) THEN [docs EXCEPT ![d].status = "failed"] ELSE docs

RemoveRow(d) ==
  /\ docs' = [docs EXCEPT ![d] = Absent]
  /\ rows' = [rows EXCEPT ![d] = NoRows]
  /\ sessions' = [sessions EXCEPT ![d] = "none"]

Fault == faults < MaxFaults /\ faults' = faults + 1 /\ UNCHANGED outages
Outage == outages < MaxOutages /\ outages' = outages + 1 /\ UNCHANGED faults
NoFault == UNCHANGED <<faults, outages>>

-----------------------------------------------------------------------------
(* Upload: POST /documents.                                                *)

At(d, pc) == api = "up" /\ task[d].pc = pc
Goto(d, pc) == task' = [task EXCEPT ![d].pc = pc]

\* ensure_retrieval_writes_available, read before the handler runs.
AdmitUpload(d) ==
  /\ At(d, "new") /\ ~config.maintenance
  /\ Goto(d, "admitted")
  /\ UNCHANGED <<docs, rows, sessions, files, config, jobs, api, run, deleting,
                 chat, bypassed, crashes, faults, outages>>

CreateDocument(d) ==
  /\ At(d, "admitted")
  /\ docs' = [docs EXCEPT ![d] = [Absent EXCEPT !.status = "uploaded"]]
  /\ Goto(d, "row")
  /\ bypassed' = IF config.maintenance THEN bypassed \cup {d} ELSE bypassed
  /\ UNCHANGED <<rows, sessions, files, config, jobs, api, run, deleting, chat,
                 crashes, faults, outages>>

SaveUploadFile(d) ==
  /\ At(d, "row")
  /\ files' = files \cup {d}
  /\ Goto(d, "saved")
  /\ UNCHANGED <<docs, rows, sessions, config, jobs, api, run, deleting, chat,
                 bypassed, crashes, faults, outages>>

\* file_path is committed and the background task queued; a row that is gone
\* by now fails the UPDATE, and the stored file stays behind.
UpdateFilePath(d) ==
  /\ At(d, "saved")
  /\ IF Exists(d)
       THEN /\ docs' = [docs EXCEPT ![d].path = TRUE]
            /\ task' = [task EXCEPT ![d] = [@ EXCEPT !.pc = "queued",
                                                    !.reset = FALSE]]
       ELSE /\ Goto(d, "done")
            /\ UNCHANGED docs
  /\ UNCHANGED <<rows, sessions, files, config, jobs, api, run, deleting, chat,
                 bypassed, crashes, faults, outages>>

\* Variant: the file of a rejected upload is not cleaned.
RejectUploadKeepingFile(d) ==
  /\ At(d, "row") \/ At(d, "saved")
  /\ RemoveRow(d)
  /\ Goto(d, "done")
  /\ UNCHANGED <<files, config, jobs, api, run, deleting, chat, bypassed,
                 crashes, faults, outages>>

\* Too large, encrypted or unreadable, or not even stored: the row goes first,
\* then the file.
RejectUpload(d) ==
  /\ At(d, "row") \/ At(d, "saved")
  /\ RemoveRow(d)
  /\ Goto(d, "rejected")
  /\ UNCHANGED <<files, config, jobs, api, run, deleting, chat, bypassed,
                 crashes, faults, outages>>

CleanRejectedUpload(d) ==
  /\ At(d, "rejected")
  /\ Goto(d, "done")
  /\ \/ files' = files \ {d} /\ NoFault
     \/ Fault /\ UNCHANGED files
  /\ UNCHANGED <<docs, rows, sessions, config, jobs, api, run, deleting, chat,
                 bypassed, crashes>>

\* A database error no branch catches: reading the new row back, removing a
\* rejected one or storing file_path fails, or file_path is stored and reading
\* the row back fails.  The handler ends before it queues the background task,
\* and whatever row there is stays as it is.
LoseUpload(d) ==
  /\ At(d, "row") \/ At(d, "saved")
  /\ Fault
  /\ Goto(d, "lost")
  /\ \/ UNCHANGED docs
     \/ At(d, "saved") /\ Exists(d) /\ docs' = [docs EXCEPT ![d].path = TRUE]
  /\ UNCHANGED <<rows, sessions, files, config, jobs, api, run, deleting, chat,
                 bypassed, crashes>>

-----------------------------------------------------------------------------
(* process_document in the thread of one document: the background task of  *)
(* its upload, or the worker start-up recovery gives it.                   *)

\* The preset and the version are the ones active now.
BeginTask(d) ==
  /\ At(d, "queued")
  /\ IF Exists(d)
       THEN /\ StartProcessing(d, task[d].reset)
            /\ task' = [task EXCEPT ![d] = [@ EXCEPT !.pc = "indexing",
                                                    !.preset = config.active,
                                                    !.version = config.version]]
            /\ bypassed' = IF task[d].reset THEN bypassed \ {d} ELSE bypassed
       ELSE /\ Goto(d, "done")
            /\ UNCHANGED <<docs, rows, sessions, chat, bypassed>>
  /\ UNCHANGED <<files, config, jobs, api, run, deleting, crashes, faults,
                 outages>>

FinishTask(d) ==
  /\ At(d, "indexing")
  /\ Exists(d)
  /\ PublishIndex(d, task[d].preset, task[d].version)
  /\ Goto(d, "done")
  /\ UNCHANGED <<sessions, files, config, jobs, api, run, deleting, chat,
                 bypassed, crashes, faults, outages>>

\* Variant: the except branch does not record the failure.
FailTaskSilently(d) ==
  /\ At(d, "indexing") /\ NoFault
  /\ Goto(d, "done")
  /\ UNCHANGED <<docs, rows, sessions, files, config, jobs, api, run, deleting,
                 chat, bypassed, crashes>>

\* Extraction, captioning, embedding or the INSERTs fail.  Before the first
\* commit only the database can fail.
FailTask(d) ==
  /\ \/ At(d, "indexing") /\ NoFault
     \/ At(d, "queued") /\ Fault
  /\ MarkFailed(d)
  /\ Goto(d, "done")
  /\ UNCHANGED <<rows, sessions, files, config, jobs, api, run, deleting, chat,
                 bypassed, crashes>>

\* The handler cannot reach the database either: the status stays.
LoseTask(d) ==
  /\ At(d, "indexing") \/ At(d, "queued")
  /\ Outage
  /\ Goto(d, "done")
  /\ UNCHANGED <<docs, rows, sessions, files, config, jobs, api, run, deleting,
                 chat, bypassed, crashes>>

-----------------------------------------------------------------------------
(* Deletion: DELETE /documents/{id}.                                       *)

AdmitDelete(d) ==
  /\ api = "up" /\ d \in DeleteDocs
  /\ deleting[d] = "none" /\ Exists(d) /\ ~config.maintenance
  /\ deleting' = [deleting EXCEPT ![d] = "admitted"]
  /\ UNCHANGED <<docs, rows, sessions, files, config, jobs, api, task, run,
                 chat, bypassed, crashes, faults, outages>>

\* Under the row lock: 404, 409 for an active document, or the DELETE, which
\* takes pages, chunks and scoped chats along.
DeleteDocument(d) ==
  /\ api = "up" /\ deleting[d] = "admitted"
  /\ IF Exists(d) /\ ~Active(d)
       THEN /\ RemoveRow(d)
            /\ deleting' = [deleting EXCEPT ![d] = "unlink"]
       ELSE /\ deleting' = [deleting EXCEPT ![d] = "none"]
            /\ UNCHANGED <<docs, rows, sessions>>
  /\ UNCHANGED <<files, config, jobs, api, task, run, chat, bypassed, crashes,
                 faults, outages>>

\* Variant: the file goes while the row is still there.
DeleteFilesFirst(d) ==
  /\ api = "up" /\ deleting[d] # "none"
  /\ deleting' = [deleting EXCEPT ![d] = "none"]
  /\ files' = files \ {d} /\ NoFault
  /\ UNCHANGED <<docs, rows, sessions, config, jobs, api, task, run, chat,
                 bypassed, crashes>>

\* An OSError is logged and the file stays.
DeleteFiles(d) ==
  /\ api = "up" /\ deleting[d] = "unlink"
  /\ deleting' = [deleting EXCEPT ![d] = "none"]
  /\ \/ files' = files \ {d} /\ NoFault
     \/ Fault /\ UNCHANGED files
  /\ UNCHANGED <<docs, rows, sessions, config, jobs, api, task, run, chat,
                 bypassed, crashes>>

-----------------------------------------------------------------------------
(* A chat scoped to one document, as far as this component sees it.        *)

AdmitChat(d) ==
  /\ api = "up" /\ d \in ChatDocs
  /\ chat[d] = "none" /\ ~config.maintenance /\ docs[d].status = "indexed"
  /\ chat' = [chat EXCEPT ![d] = "live"]
  /\ UNCHANGED <<docs, rows, sessions, files, config, jobs, api, task, run,
                 deleting, bypassed, crashes, faults, outages>>

\* The session row references the document, so it needs the document's row.
PersistChat(d) ==
  /\ api = "up" /\ chat[d] # "none"
  /\ sessions' = IF ~Exists(d) \/ sessions[d] = "stale" THEN sessions
                   ELSE [sessions EXCEPT ![d] = chat[d]]
  /\ chat' = [chat EXCEPT ![d] = "none"]
  /\ UNCHANGED <<docs, rows, files, config, jobs, api, task, run, deleting,
                 bypassed, crashes, faults, outages>>

-----------------------------------------------------------------------------
(* Preset changes and reindex jobs.                                        *)

\* The rows are numbered in the order they are created.
NextJob(j) == jobs[j].status = "none" /\ \A i \in 1..(j - 1) : jobs[i].status # "none"

\* Variant: documents still being indexed do not count.
WindowFreeForUploads == ~config.maintenance

\* The guard both services evaluate while they hold the configuration row.
WindowFree == ~config.maintenance /\ ~HasActiveDocuments

OpenWindow(j, target) ==
  /\ jobs' = [jobs EXCEPT ![j] =
                [status |-> "pending", target |-> target,
                 version |-> config.version + 1, rebuild |-> TRUE,
                 errors |-> FALSE]]
  /\ config' = [config EXCEPT !.pending = target, !.maintenance = TRUE]
  /\ run' = [run EXCEPT ![j] = [Idle EXCEPT !.pc = "queued"]]

\* start_preset_change.  Only another chunking needs the window.
StartPresetChange(j, target) ==
  /\ api = "up" /\ NextJob(j)
  /\ WindowFree /\ target # config.active
  /\ IF SameChunking(config.active, target)
       THEN /\ jobs' = [jobs EXCEPT ![j] =
                          [status |-> "completed", target |-> target,
                           version |-> config.version, rebuild |-> FALSE,
                           errors |-> FALSE]]
            /\ config' = [config EXCEPT !.active = target]
            /\ UNCHANGED run
       ELSE OpenWindow(j, target)
  /\ UNCHANGED <<docs, rows, sessions, files, api, task, deleting, chat,
                 bypassed, crashes, faults, outages>>

\* retry_reindex_job: a new job with the old target.
RetryReindexJob(j, old) ==
  /\ api = "up" /\ NextJob(j)
  /\ WindowFree
  /\ jobs[old].status \in {"failed", "completed_with_errors"}
  /\ OpenWindow(j, jobs[old].target)
  /\ UNCHANGED <<docs, rows, sessions, files, api, task, deleting, chat,
                 bypassed, crashes, faults, outages>>

\* run_reindex_job takes a pending job only, and lists the documents once.
BeginJob(j) ==
  /\ api = "up" /\ run[j].pc = "queued"
  /\ IF jobs[j].status = "pending"
       THEN /\ jobs' = [jobs EXCEPT ![j].status = "running"]
            /\ run' = [run EXCEPT ![j] =
                         [pc |-> "listed", doc |-> None,
                          todo |-> IF jobs[j].rebuild
                                     THEN {d \in Docs : Exists(d)} ELSE {}]]
       ELSE /\ run' = [run EXCEPT ![j] = Idle]
            /\ UNCHANGED jobs
  /\ UNCHANGED <<docs, rows, sessions, files, config, api, task, deleting, chat,
                 bypassed, crashes, faults, outages>>

\* The first transaction of process_document for the next listed document; a
\* document deleted since counts as failed.
BeginJobDocument(j, d) ==
  /\ api = "up" /\ run[j].pc = "listed" /\ d \in run[j].todo
  /\ IF Exists(d)
       THEN /\ StartProcessing(d, jobs[j].rebuild)
            /\ run' = [run EXCEPT ![j] = [pc |-> "indexing", doc |-> d,
                                          todo |-> @.todo \ {d}]]
            /\ bypassed' = IF Busy(d) THEN bypassed \cup {d} ELSE bypassed \ {d}
            /\ UNCHANGED jobs
       ELSE /\ jobs' = [jobs EXCEPT ![j].errors = TRUE]
            /\ run' = [run EXCEPT ![j].todo = @ \ {d}]
            /\ UNCHANGED <<docs, rows, sessions, chat, bypassed>>
  /\ UNCHANGED <<files, config, api, task, deleting, crashes, faults, outages>>

FinishJobDocument(j, d) ==
  /\ api = "up" /\ run[j].pc = "indexing" /\ d = run[j].doc /\ Exists(d)
  /\ PublishIndex(d, jobs[j].target, jobs[j].version)
  /\ run' = [run EXCEPT ![j] = [@ EXCEPT !.pc = "listed", !.doc = None]]
  /\ UNCHANGED <<sessions, files, config, jobs, api, task, deleting, chat,
                 bypassed, crashes, faults, outages>>

\* The second transaction fails, or (a database fault) the first one does,
\* which leaves the old rows under a failed document.
FailJobDocument(j, d) ==
  /\ api = "up"
  /\ \/ /\ run[j].pc = "indexing" /\ d = run[j].doc
        /\ NoFault
     \/ /\ run[j].pc = "listed" /\ d \in run[j].todo /\ Exists(d)
        /\ Fault
  /\ MarkFailed(d)
  /\ jobs' = [jobs EXCEPT ![j].errors = TRUE]
  /\ run' = [run EXCEPT ![j] = [pc |-> "listed", doc |-> None,
                                todo |-> @.todo \ {d}]]
  /\ UNCHANGED <<rows, sessions, files, config, api, task, deleting, chat,
                 bypassed, crashes>>

\* Variant: the job is closed before its list is through.
FinishJobEarly(j) ==
  /\ api = "up" /\ run[j].pc = "listed"
  /\ config' = [active |-> jobs[j].target, pending |-> None,
                version |-> jobs[j].version, maintenance |-> FALSE]
  /\ jobs' = [jobs EXCEPT ![j].status = "completed"]
  /\ run' = [run EXCEPT ![j] = Idle]
  /\ UNCHANGED <<docs, rows, sessions, files, api, task, deleting, chat,
                 bypassed, crashes, faults, outages>>

\* Variant: the new preset goes in force under the old version.
FinishJobSameVersion(j) ==
  /\ api = "up" /\ run[j].pc = "listed" /\ run[j].todo = {}
  /\ config' = [config EXCEPT !.active = jobs[j].target, !.pending = None,
                              !.maintenance = FALSE]
  /\ jobs' = [jobs EXCEPT ![j].status = "completed"]
  /\ run' = [run EXCEPT ![j] = Idle]
  /\ UNCHANGED <<docs, rows, sessions, files, api, task, deleting, chat,
                 bypassed, crashes, faults, outages>>

FinishJob(j) ==
  /\ api = "up" /\ run[j].pc = "listed" /\ run[j].todo = {}
  /\ config' = [active |-> jobs[j].target, pending |-> None,
                version |-> jobs[j].version, maintenance |-> FALSE]
  /\ jobs' = [jobs EXCEPT ![j].status =
                IF jobs[j].errors THEN "completed_with_errors" ELSE "completed"]
  /\ run' = [run EXCEPT ![j] = Idle]
  /\ UNCHANGED <<docs, rows, sessions, files, api, task, deleting, chat,
                 bypassed, crashes, faults, outages>>

\* Variant: the except branch forgets maintenance_mode.
AbortJobKeepingWindow(j) ==
  /\ api = "up" /\ run[j].pc # "off"
  /\ Fault
  /\ jobs' = [jobs EXCEPT ![j].status = "failed"]
  /\ run' = [run EXCEPT ![j] = Idle]
  /\ UNCHANGED <<docs, rows, sessions, files, config, api, task, deleting, chat,
                 bypassed, crashes>>

\* The except branch of run_reindex_job; what process_document had committed
\* stays.
AbortJob(j) ==
  /\ api = "up" /\ run[j].pc # "off"
  /\ Fault
  /\ jobs' = [jobs EXCEPT ![j].status = "failed"]
  /\ config' = [config EXCEPT !.pending = None, !.maintenance = FALSE]
  /\ run' = [run EXCEPT ![j] = Idle]
  /\ UNCHANGED <<docs, rows, sessions, files, api, task, deleting, chat,
                 bypassed, crashes>>

\* The except branch needs the database as well and raises.
LoseJob(j) ==
  /\ api = "up" /\ run[j].pc # "off"
  /\ Outage
  /\ run' = [run EXCEPT ![j] = Idle]
  /\ UNCHANGED <<docs, rows, sessions, files, config, jobs, api, task, deleting,
                 chat, bypassed, crashes>>

-----------------------------------------------------------------------------
(* Crash and start-up.                                                     *)

Crash ==
  /\ api # "down" /\ crashes < MaxCrashes
  /\ api' = "down"
  /\ crashes' = crashes + 1
  /\ task' = [d \in Docs |->
                [task[d] EXCEPT !.pc =
                   IF @ \in {"new", "admitted"} THEN "new" ELSE "done"]]
  /\ run' = [j \in JobIds |-> Idle]
  /\ deleting' = [d \in Docs |-> "none"]
  /\ chat' = [d \in Docs |-> "none"]
  /\ UNCHANGED <<docs, rows, sessions, files, config, jobs, bypassed, faults,
                 outages>>

\* The newest unfinished job keeps the window, older ones are superseded.
RecoverInterruptedReindexJobs ==
  /\ api = "down"
  /\ api' = "jobs"
  /\ \/ /\ UnfinishedJobs = {}
        /\ config' = [config EXCEPT !.pending = None, !.maintenance = FALSE]
        /\ UNCHANGED jobs
     \/ \E owner \in UnfinishedJobs :
          /\ \A j \in UnfinishedJobs : j <= owner
          /\ config' = [config EXCEPT !.pending = jobs[owner].target,
                                      !.maintenance = TRUE]
          /\ jobs' = [j \in JobIds |->
               IF j = owner
                 THEN [jobs[j] EXCEPT !.status = "pending", !.errors = FALSE]
               ELSE IF Unfinished(j) THEN [jobs[j] EXCEPT !.status = "failed"]
               ELSE jobs[j]]
  /\ UNCHANGED <<docs, rows, sessions, files, task, run, deleting, chat,
                 bypassed, crashes, faults, outages>>

\* prepare_interrupted_documents, then the workers start and requests come in.
\* In a maintenance window the documents are left to the job.
Recoverable(d) == Active(d) /\ docs[d].path /\ d \in files

PrepareInterruptedDocuments ==
  /\ api = "jobs"
  /\ api' = "up"
  /\ IF config.maintenance
       THEN UNCHANGED <<docs, task>>
       ELSE /\ docs' = [d \in Docs |->
                 [docs[d] EXCEPT !.status =
                    IF Recoverable(d) THEN "uploaded"
                    ELSE IF Active(d) THEN "failed" ELSE @]]
            /\ task' = [d \in Docs |->
                 IF Recoverable(d)
                   THEN [task[d] EXCEPT !.pc = "queued", !.reset = TRUE]
                   ELSE task[d]]
  /\ run' = [j \in JobIds |->
               IF Unfinished(j) THEN [Idle EXCEPT !.pc = "queued"] ELSE run[j]]
  /\ UNCHANGED <<rows, sessions, files, config, jobs, deleting, chat, bypassed,
                 crashes, faults, outages>>

-----------------------------------------------------------------------------
Upload(d) ==
  \/ CreateDocument(d) \/ SaveUploadFile(d) \/ UpdateFilePath(d)
  \/ RejectUpload(d) \/ CleanRejectedUpload(d)

IndexingTask(d) == BeginTask(d) \/ FinishTask(d) \/ FailTask(d)

Delete(d) == DeleteDocument(d) \/ DeleteFiles(d)

ReindexJob(j) ==
  \/ BeginJob(j) \/ FinishJob(j)
  \/ \E d \in Docs : \/ BeginJobDocument(j, d)
                    \/ FinishJobDocument(j, d) \/ FailJobDocument(j, d)

StartUp == RecoverInterruptedReindexJobs \/ PrepareInterruptedDocuments

DocumentStep(d) ==
  \/ AdmitUpload(d) \/ Upload(d) \/ LoseUpload(d)
  \/ IndexingTask(d) \/ LoseTask(d)
  \/ AdmitDelete(d) \/ Delete(d)
  \/ AdmitChat(d) \/ PersistChat(d)

JobStep(j) ==
  \/ \E p \in Presets : StartPresetChange(j, p)
  \/ \E old \in JobIds : RetryReindexJob(j, old)
  \/ ReindexJob(j) \/ AbortJob(j) \/ LoseJob(j)

Next ==
  \/ \E d \in Docs : DocumentStep(d)
  \/ \E j \in JobIds : JobStep(j)
  \/ Crash \/ StartUp

Spec == Init /\ [][Next]_vars

\* What the process runs by itself goes on while it is up: handlers that were
\* admitted, and the threads (every outside call they make has a timeout).
\* That a process which died is started again is assumed of the operator: the
\* README's promise is about restarts.  Requests are never owed.
Fairness ==
  /\ \A d \in Docs : /\ WF_vars(Upload(d)) /\ WF_vars(IndexingTask(d))
                     /\ WF_vars(Delete(d))
  /\ \A j \in JobIds : WF_vars(ReindexJob(j))
  /\ WF_vars(StartUp)

FairSpec == Spec /\ Fairness

-----------------------------------------------------------------------------
(* Properties.                                                             *)

\* reindex_service.py keeps one owner of the maintenance window: the window is
\* open exactly while some job is unfinished, no two jobs are, the pending
\* preset is that job's, the job is the newest one, and it will publish the
\* next index version.  Holds through crashes, aborts and restarts.
WindowHasOneOwner ==
  /\ \A i, j \in JobIds : Unfinished(i) /\ Unfinished(j) => i = j
  /\ config.maintenance <=> UnfinishedJobs # {}
  /\ ~config.maintenance => config.pending = None
  /\ \A j \in UnfinishedJobs :
       /\ config.pending = jobs[j].target
       /\ jobs[j].version = config.version + 1
       /\ jobs[j].rebuild
       /\ \A i \in JobIds : i > j => jobs[i].status = "none"

\* process_document publishes pages, chunks and status in one transaction
\* (document_processor.py:91): an indexed document has exactly one batch of
\* rows, cut with the preset its metadata names, and a document on its way to
\* indexing has none, whatever fails or crashes on the way.  Claimed for the
\* documents whose upload did not slip into a maintenance window.
RowsMatchMetadata ==
  \A d \in Docs \ bypassed :
    /\ docs[d].status = "indexed" => rows[d] = Batch(docs[d].preset)
    /\ docs[d].status \in {"absent", "uploaded", "processing"} => rows[d] = NoRows

\* Every rebuild that failed was followed by one that ran to its end.
RebuildsFinished ==
  \A i \in JobIds : jobs[i].rebuild /\ jobs[i].status = "failed" =>
    \E j \in JobIds : /\ j > i /\ jobs[j].rebuild
                      /\ jobs[j].status \in {"completed", "completed_with_errors"}

InForce(d) ==
  /\ docs[d].preset \in Presets
  /\ SameChunking(docs[d].preset, config.active)
  /\ docs[d].version = config.version

\* Outside a window, and unless the last rebuild was abandoned, all indexed
\* documents are of the index version and the chunking in force
\* (retrieval_config.py:56), except those that slipped into a window.
VersionAgreement ==
  ~config.maintenance /\ RebuildsFinished =>
    \A d \in Docs \ bypassed : docs[d].status = "indexed" => InForce(d)

\* While a document's own thread indexes it, the document stays "processing",
\* so that neither a reindex job nor a deletion works on it
\* (document_service.py:83), except for a document that slipped into a window.
IndexedByOneThread ==
  \A d \in Docs \ bypassed :
    task[d].pc = "indexing" =>
      /\ docs[d].status = "processing"
      /\ \A j \in JobIds : run[j].doc # d

\* delete_document and a rejected upload drop the row before the file
\* (document_service.py:47, :86): a row with a file_path never outlives its
\* original, whatever crashes in between.
PathHasFile ==
  \A d \in Docs : Exists(d) /\ docs[d].path => d \in files

\* The configuration row implements the abstract maintenance window.
Window == INSTANCE MaintenanceWindow WITH
            open <- config.maintenance, active <- config.active,
            version <- config.version, target <- config.pending

ImplementsWindow == Window!Spec

\* README "API 재시작 시 중단된 PDF 인덱싱과 전체 재인덱싱 자동 복구": a document
\* that is uploaded or processing leaves that state, through restarts, unless
\* the database was lost to a handler or a rebuild was abandoned: start-up
\* leaves the documents of an open window to its job
\* (document_recovery_service.py:14), and nobody takes them up when that aborts.
\* An upload handler that ended on a database error has queued no thread for its
\* document, which stays as it is until the process is started again.
RebuildAbandoned == \E j \in JobIds : jobs[j].rebuild /\ jobs[j].status = "failed"

DocumentsSettle ==
  \A d \in Docs :
    Active(d) ~> ~Active(d) \/ task[d].pc = "lost" \/ RebuildAbandoned \/ outages > 0

\* reindex_service.py:228: a job that ends unexpectedly does not leave the
\* writes blocked, as long as its except branch reaches the database.
WindowCloses == config.maintenance ~> ~config.maintenance \/ outages > 0

\* retrieval_config.py:56: blocking writes during a rebuild keeps index
\* versions from mixing, here without the exception VersionAgreement makes.
VersionsDoNotMix ==
  ~config.maintenance /\ RebuildsFinished =>
    \A d \in Docs : docs[d].status = "indexed" => InForce(d)

\* retrieval_config.py:56: chats are blocked during a rebuild, so a stored
\* scoped chat never cites chunks that a rebuild has replaced.
ScopedChatsCiteLiveChunks == \A d \in Docs : sessions[d] # "stale"

\* document_service.py:46, documents.py:111: a rejected or deleted document
\* takes its stored file along: without a crash or a fault, no file without a
\* row stays once no request is at work on the document.  An upload that slipped
\* into a window may be failed by the job and deleted before its file is saved.
NoOrphanFiles ==
  crashes = 0 /\ faults = 0 =>
    \A d \in files \ bypassed :
      Exists(d) \/ deleting[d] = "unlink" \/ task[d].pc # "done"

=============================================================================
