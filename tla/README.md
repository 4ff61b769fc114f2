# Verification of miniNBLM

miniNBLM is a FastAPI service with a browser client: users upload PDF documents,
a background thread parses, chunks and embeds them into PostgreSQL/pgvector, and
a chat answers questions from the indexed chunks with citations. This directory
holds TLA+ models of the parts of it where the order of events matters, the TLC
configurations that check them, and TLAPS proofs of their main properties.

Contents: 1 the system, 2 the modules, 3 the runs, 4 the proofs, 5 where the code
and its documentation part, 6 what is not modelled, 7 the plan.

## 1. The system

One API process serves all requests. FastAPI runs plain `def` handlers in a
thread pool and `async def` handlers on the event loop; background tasks and two
kinds of worker threads (document, reindex) run beside them. They share one
PostgreSQL database, one upload directory, and the language model registry held
in memory. Two outside services are called over HTTP with timeouts: the
embedding service and OpenAI-compatible LLM endpoints.

| component | state it keeps | operations | talks to |
|---|---|---|---|
| documents (`document_service`, `document_processor`, `document_recovery_service`, `local_storage`) | `documents`, `pages`, `chunks` rows; files in the upload directory; one thread per document being indexed | upload, reject, index, recover after a restart, delete | configuration (preset, version), embedding client |
| retrieval configuration and reindex jobs (`reindex_service`, `runtime_service`) | the single `retrieval_configuration` row; `reindex_jobs`; one thread per job | change preset, retry, rebuild all documents, abort, recover | documents |
| chat (`api/chat`, `conversation_service`, `chat_repository`) | `chat_sessions`, `chat_messages`; per-request session and endpoint | ask, stream, persist, clean up an empty session, delete | registry, retrieval, generator |
| language model registry (`language_model_registry`, `language_model_service`, credential service) | a JSON file, an in-memory snapshot and its signature, the master key file | resolve, add, edit, remove, set default, activate, reload on change | chat, administration |
| accounts (`auth_service`, `api/auth`, `user_repository`) | `users`; `auth_sessions` (hash of a random token, expiry); a cookie in the browser | register, log in, log out, change and reset passwords, delete an account | every request |
| retrieval and answering (`retriever`, `hierarchical_retriever`, `reranker`, `query_rewriter`, `evidence_coverage`, `evidence_guard`, `generator`, `citation_validator`, `prompt_builder`) | none across requests; loops and budgets inside one | rank, fuse, expand, check evidence, generate, repair citations, stream | LLM and embedding clients |
| search algorithms (`search_algorithm_service`) | one row | activate | retrieval |
| chunker and parser (`chunker`, `pdf_parser`, `page_renderer`, `vision_captioner`) | none | split pages into chunks | documents |
| browser client (`static/js`) | the views' state, timers, the streams in flight | log in, choose a session, page through history, ask, poll | the API |
| admission limits and metrics (`request_limits`, `observability`) | per-process counters | admit, refuse, release | every request |
| deployment (`docker`, `scripts`, `run-native.sh`, `run.sh`) | model files, database dumps, pid files | start, prepare the model, back up, restore | everything |

What makes these hard: checks made before a handler and acted on after it,
transactions that belong together but commit apart, threads that die with the
process while rows and files survive, an except branch that needs what has just
failed, requests that outlive the state they were admitted under, and timers and
callbacks of the browser that come back after the user has moved on.

What makes each component correct:

- *documents*: an indexed document has exactly the rows of one indexing run, cut
  with the preset its metadata names; a stored path has its file; one thread at
  most works on a document; an interrupted document is taken up again.
- *reindex jobs*: a maintenance window has one owner, closes again, and puts the
  new preset and the new version in force together; afterwards all indexed
  documents are of that version.
- *chat*: a question and its answer are stored together; what the client is told
  is what the database holds; no empty session stays; a cleanup removes nothing
  of another request; nothing holds a lock for good.
- *registry*: a process serves only versions the file has had, never goes back to
  an older one and notices every change; edits of two administrators do not undo
  each other; both locks are given back on every path; one request, one endpoint.
- *accounts*: a password reset or change revokes every other session; a password an
  administrator chose must be changed; deleting an account leaves nothing behind and
  takes nothing that is being worked on; lock orders that cross do not block for good.
- *retrieval*: fused rankings respect the rankings they are made of; every goal is
  searched for and keeps its best chunk; the evidence refers to the context that is
  handed over; the loop of further searches ends.
- *answering*: the streamed text with its correction and the stored answer are the
  same; an abandoned attempt is not continued by another; a source was shown to the
  model; every answer ends.
- *chunker*: it terminates, loses no text, and chunks stay within their size.
- *browser client*: a document shown as active is polled until it is final, and
  polling ends; the conversation shown is one piece of one history, whatever answers
  arrive late, and the conversation chosen comes up.
- *admission limits*: every admitted request is released exactly once.
- *deployment*: a backup or a model preparation that is cut off leaves either the
  old state or the new one.

The hazards of each, with the line where they bite and the properties that cover
them, are listed in `PROJECT.json`.

## 2. The modules

| module | is |
|---|---|
| `Indexing` | documents, files, configuration and reindex jobs, which share one database |
| `MaintenanceWindow` | the abstract specification the configuration row implements |
| `LlmRegistry` | the endpoint file, the master key, and the snapshot of each process |
| `ChatSessions` | sessions and messages under synchronous and streamed chats |
| `AnswerStream` | one answer: attempts, normaliser, corrections, events, the browser's text |
| `PromptContext` | which chunks an attempt shows the model; extended by `AnswerStream` |
| `Retrieval` | one request's plan, searches, reranking, assessment and retries |
| `RankFusion` | fusion, selection, neighbours and merge; extended by `Retrieval` |
| `Chunker` | pages cut into overlapping windows and caption chunks |
| `Accounts` | users, login sessions, and what deleting a user takes along |
| `Polling` | the document list of the browser and its polling loops |
| `Conversation` | the conversation pane of the browser and the requests that fill it |
| `MC` + their names | instances for TLC; the one of `Retrieval` cuts a document with `Chunker` first |
| `IndexingProofs`, `LlmRegistryProofs`, `ChatSessionsProofs`, `AnswerStreamProofs`, `ChunkProofs`, `AccountsProofs`, `PollingProofs`, `ConversationProofs` | theorems and proofs |

The parts meet at narrow places. `Retrieval` ends with a context and evidence ids,
which `AnswerStream` takes as `Retrieved` and `Evidence`. The one step in which
`ChatSessions` generates, and its send steps, stand for a whole run of
`AnswerStream`, whose `AnswerEnds` is what makes that step end and whose `Persist`
is the transaction `ChatSessions` spells out. The server of `Polling` settles a
document because `Indexing!DocumentsSettle` holds; the server of `Conversation` is
`ChatSessions` with its commits as single steps, which `SessionsHoldExchanges`
justifies. The deletion of an account in `Accounts` meets documents whose thread is
a thread of `Indexing`, reduced to active or settled.

Definitions marked "Variant" in a module belong to no specification. Each is what
a plausible mistake in the code would make of the definition after it, and serves
to confirm that the property it is paired with (`PROJECT.json`, "mutants") would
notice.

### Indexing

A step is one committed transaction or one effect on the upload directory.
`docs`, `config` and `jobs` are the table rows, reduced to the columns that
control something. `rows[d][p]` counts the batches of pages and chunks of `d` cut
with preset `p`: a correct document has one batch, a doubled or mixed index shows
as another count. `task[d]` is the upload request of `d` and then the thread of
`process_document`; `run[j]` is the thread of `run_reindex_job`; `deleting[d]` a
DELETE request; `chat[d]` a chat scoped to `d`, reduced to whether the chunks it
retrieved still exist.

- `ensure_retrieval_writes_available` is a dependency: it reads
  `maintenance_mode` before the handler and without a lock. `AdmitUpload`,
  `AdmitDelete` and `AdmitChat` are therefore steps of their own, and everything
  may happen between them and the handler.
- An upload commits its row (`CreateDocument`), saves the file, validates it, and
  commits the path (`UpdateFilePath`) or removes row, then file
  (`RejectUpload`, `CleanRejectedUpload`). A rejected upload has its row removed
  by `RemoveRow` whatever the row's status is by then. Its own commits stand outside
  every except branch: a database error there (`LoseUpload`) ends it with whatever
  row there is, before the thread of the document is queued.
- `process_document` is two transactions and an except branch: `StartProcessing`,
  `PublishIndex`, `MarkFailed`. It has two callers, the document's own thread
  (`BeginTask`, `FinishTask`, `FailTask`) and a job (`BeginJobDocument`,
  `FinishJobDocument`, `FailJobDocument`). The preset and version its own thread
  uses are those it read in the first transaction.
- `StartPresetChange` and `RetryReindexJob` hold the configuration row locked, so
  each is one step. A preset with the same chunk size and overlap is switched at
  once; another one opens the window and makes a job.
- `Crash` ends every thread and request; rows and files stay. Start-up is two
  transactions, `RecoverInterruptedReindexJobs` and `PrepareInterruptedDocuments`,
  between which it may crash again.
- `Fault` is a database error after which the except branch still works;
  `Outage` one that hits the except branch as well (`LoseTask`, `LoseJob`).
- `bypassed` is a history variable: the documents whose row was inserted inside a
  window, or that a job took over while their upload was still under way, and that
  no later rebuild had for itself. The code makes no promise it keeps for these
  (section 5), so the properties exclude them.

`MaintenanceWindow` has four variables (window open, preset and version in force,
target) and four actions (open, commit, abandon, switch). `Indexing` instantiates
it with the columns of the configuration row. It says that preset and version
change together and only when a window closes, which no single handler states.

### LlmRegistry

The SHA-256 revision of the file is its content, its stat signature a stamp that
no two writes share. A process holds `snap` (what it serves), `observed` (the
signature it saw last) and an RLock (`mutex`); `flock` is the lock file. A
request is a thread `th[t]` that goes through the places where it can be
overtaken:

- `snapshot()`: `Snapshot` compares signatures and returns or starts a reload;
  `ReadSnapshot` reads and resolves the file, `PublishSnapshot` publishes with a
  *new* stat; `RefuseReload` keeps the last good snapshot, `RefuseBoot` ends a
  process that starts on a broken file.
- `pages` are administration pages in browsers, each with the configuration whose
  revision it carries and the process that answered with it. They are shown by a GET
  (`ViewModels`) and by the answer to an edit (`PublishEdit`, `ShowPage`), stay
  whatever becomes of the process, and any process may be given the edits made on
  them (`SubmitEdit`).
- `replace()`: `LockFile`, `LockRegistry`, `Compare`, then one of `WriteFile`
  and `PublishEdit`, `WriteFileThenFail` (the directory sync fails after the
  rename) and `AbandonReplace`. The candidate is built before, from the snapshot
  the handler was given (`BuildCandidate`, `RefuseEdit`).
- a chat pins an endpoint in its dependency; the streamed one resolves it again
  after retrieval (`Retrieved`). `ActivateModel` and `Activated` store the user's
  choice.
- operators edit the file by hand without any lock (`EditByHand`), lose the
  master key and put one back (`LoseKey`, `RestoreKey`); `Crash(p)` ends a process
  and with it its locks.

Abstracted: an endpoint entry is whether it is enabled and its encrypted token.
What the endpoint's server answers, and the vision compatibility check, are a
nondeterministic refusal in `AbandonReplace`. The cache of the cipher object is
left out. `RestoreKey` puts a key back only where none is: an operator does not
overwrite a key in use. `Procs` is a parameter although the deployment starts one
process, since the lock file is there for several. `missed` is a history
variable: a write of the file fell between a process's read and the stat it
published with. So are `past`, the contents the file had before, `overtaken`, the
edits whose comparison an operator's edit has overtaken, and `behind`, the edits of
another process's page that start from a snapshot whose process has missed a write or
has refused to load it: `EditsAreNotLost` excepts what these three stand for, and TLC
finds it violated without any one of them. With one process, as the compose files
deploy it, the third is never needed.

### ChatSessions

A request `req[r]` is a synchronous chat, one transaction from the new session to
the two messages, or a stream, which commits a new session before the response
starts (`StartResponse`), generates with no transaction open, and stores the
exchange in one of its own (`StoreQuestion`, `StoreAnswer`, `CommitExchange`,
`RefreshSession`), then sends the last events (`SendDone`). `pending[r]` are the
rows inserted and not committed. Its ways out: `FailRequest`, `FailStoring`,
`LeaveStream` (the client closes the connection, `GeneratorExit`), `DropResponse`
(the client was gone before the first event, so the generator is dropped without
having run and none of its except branches runs), then `CleanUp`, which looks at
the session it created, and `DeleteEmptySession` or `FailCleanUp`. `DeleteRow` is
`db.delete(session)`: the ORM removes the messages it has loaded, and the foreign
key, which has no ON DELETE, refuses everything when there are others. It waits
(`Locked`) for transactions that have inserted into the session, as PostgreSQL's
key-share locks make it. `Deleters` are DELETE requests, and the deletion of a
scoped session along with its document.

Retrieval and generation are steps that succeed or fail. The context is the last
`MaxContextMessages` messages; the cut at 8000 characters is left out. `lost` is a
history variable: sessions whose stream never ran or could not clean up.

### AnswerStream, PromptContext

A text is a sequence of a few tokens, chosen so that what the code tells apart stays
apart: the two halves of the NO_SOURCE marker, white space, the two halves of the
sentence that says nothing was found, a claim without a citation, claims citing
Source 1 and Source 2, and a repeated phrase. `phase` is where `generate_answer_stream`
and the endpoint are; `raw` is what the model has said in this attempt, `norm` the
normaliser that holds a beginning back until it is no marker (`Push`, `Finish`,
`Decide`), `visible` what was handed out, `wire` the event under way and `client`
what the browser has made of them (`Read`).

- an attempt is silent (`suppress`) if anything was visible when it began, which is
  what the generator decides it by; `speakers`, the attempts of which something was
  handed out, is history.
- `Budgets` are the context sizes of `GENERATION_ATTEMPTS`; `ReduceOutput` and
  `NextAttempt` are the two ways on when the model refuses a prompt as too long,
  `Extract` the fallback when attempts are used up, `EndStream` and `ModelFails` the
  ends of a stream.
- after the last token: `RetryDegenerate`, `ValidateCitations` (repair once, then
  keep the claims that are grounded), `FinishAnswer`, and one revision if the text
  differs from what was handed out.
- `LeaveStream` closes the generator where it stands at a yield; `LoseConnection` is
  the browser's side of that. Mode "sync" is the same answer without events.
- `PromptContext` is `select_generation_chunks`: evidence first, one chunk of each
  other page, the rest, as far as the budget reaches, the last one cut.

Whether the evidence gate or the clarification answers instead is part of the
question. Left out: restorations that change single letters inside a claim, and the
wording of prompts.

### Retrieval, RankFusion

A chunk is its id; `Place` says in which document, at which index and how long it
is. A query is its text without case; a raw plan is any plan a model writes, which
`ParsedGoals`, `ValidPlan` and `Allocated` accept, refuse or cut to the budget. The
request plans (`PlanQueries`), reads the algorithm active at that moment
(`BeginSearch`), runs one search per query (`SearchQuery`, `SearchFails`), fuses
(`FuseResults`), reranks (`Rerank`, `RerankFallsBack`), adds neighbours
(`AddNeighbours`), merges into the context (`Collect`), assesses goal by goal
(`Assess`), and searches again for goals that lack evidence (`Retry`) or builds the
evidence matrix (`BuildMatrix`). `ActivateSearchAlgorithm` is an administrator's row
update between any two of these. Similarities and what an index returns are
arbitrary lists; what a model writes is whether a plan or an assessment is accepted
and which verdicts it holds. Reciprocal ranks are compared as integers, multiplied by
`Scale`, a common multiple of their denominators. `Texts` are the queries a model may
write. Lists are cut and filtered by `Picked`, from a set of places, and sorted by
`Sorted`, from rows with their keys: both order a finite set by counting what comes
before each element (`Ranked`), which can be proved about where a fold cannot.
`Fitting` is the loop that both the neighbours and the merge of a retry run, row by
row (`Take`). The hierarchical search is reached only with no chunks,
and its call raises (section 5), so `SearchHierarchically` is that failure.

### Chunker

A page is its length, the positions that are not white space, and whether it has a
caption. `CutWindow` is one round of the inner loop of `chunk_pages` with its strip,
`NextStart` the step forward, `SkipEmptyText` and `AddCaption` its other branches. Its
definitions have names that can stand beside those of `Retrieval` (`ChunkerInit`,
`ChunkerSpec`), because `ChunkProofs` extends both.

### Accounts

Transactions at READ COMMITTED. A request reads its user without a lock, verifies a
password against what it read (the hash is known by its number, `stamp`), and writes
later; the step it has reached says which row locks it holds (`Writes`, `Shares`,
`swept`, `claimed`). Login: `Login`, `Insert`, `CommitLogin`; change and reset:
`LockUser`, `Sweep`, `CommitChange` or `CommitReset`; deletion: `Delete`,
`ListDocuments`, `LockDocument` (one at a time, by id), `Claim` or `ClaimRefused`
(documents that are active make it give up), `SweepAccount`, `CommitDelete`,
`RemoveFiles`. A new chat is one transaction; an upload commits its row without a
path (`CommitCreate`), saves the file (`SaveFile`) and only then stores the path
(`FinishCreate`), or removes row and file (`RejectCreate`, `RemoveFiles`), or ends on
an error in between (`AbandonCreate`). `Work` is a worker.
Registration and logout are one step each. `WaitsOn(r)` are the requests whose commit
the next statement of `r` waits for; `EndDeadlock` is PostgreSQL ending one of
two transactions that wait for each other. `SetAdmin` is the command line, its read and
its write one step; `Restart` is the bootstrap of the administrator at start-up, or a
start where none is configured. The first start has one configured. Which `must_change_password` a
change or reset writes depends on what the ORM read before the lock (`MustAfterReset`):
an attribute that seems unchanged is not in the UPDATE. Requests that end without a
change, expiry of sessions and the password policy are left out. `raced` and `waived`
are history: the login or write overlapped another write of the account; the command
line lifted the duty.

### Polling

JavaScript runs one callback at a time, so a request is two steps of the world (the
server reads; the answer arrives) and its continuation one action. `loops[d][l]` is a
closure made by `start()`, which goes on whatever happens to `tasks[d]`, the entry of
the task map that `stop()` removes: `Tick`, `Read`, `Arrive`. `Refresh`, `ListArrives`
are `loadDocuments`, `StartUpload`, `Store`, `ReadSummary`, `SummaryArrives` one file
of `uploadDocuments`, `StartDeletion`, `Delete`, `DeletionArrives` the deletion;
`Hide`, `Reveal`, `OpenAdmin`, `ActivatePreset`, `CloseAdmin`, `Reload` what stops and
restarts polling. `Settle` and `Elsewhere` are the server and another tab.

### Conversation

The chat operations of `app-controller.js` with their awaits: `Select` (by a click,
after a listing, or after another operation: `outer`), `LoadOlder`, `ListChats`,
`DeleteChat`, `Ask` and the stream's events (`Open`, `Opened`, `Answer`, `Done`,
`Failed`), and the retries a notification offers. A message is where it came from and
its id; ids of two conversations may alternate, as they do in one table.
`ControlsBusy` is what the panel disables. One list of conversations is in flight at a
time, though a notification clicked twice can ask for two. Where an operation goes on
with the first conversation of a list, the model takes one fixed member of the set
(`CHOOSE`): TLC looks at one such choice, the theorem holds for any. `late` is history: an answer was put into a
pane it was not asked for.

## 3. The runs

Distinct states are those TLC reports; every run ends within three minutes.

| run | instance | states | properties |
|---|---|---|---|
| `IndexingDocuments` | 2 documents (symmetric), 2 presets, 1 job, 1 crash, 1 fault, fair | 424,622 | `RowsMatchMetadata`, `VersionAgreement`, `IndexedByOneThread`, `PathHasFile`, `NoOrphanFiles`, `DocumentsSettle` |
| `IndexingJobs` | 1 document, 3 presets of which two cut alike, 3 jobs, a crash, a fault, an outage, fair | 604,119 | `WindowHasOneOwner`, `ImplementsWindow`, `WindowCloses` |
| `LlmRegistryReload` | 1 process, 2 threads, 2 requests, 1 submitted edit, 2 edits by hand, a lost key, a crash | 732,506 | `ServesTheFile`, `StaleOnlyIfMissed`, `SnapshotsMoveForward` |
| `LlmRegistryEdits` | 2 processes of one thread, 1 request, 2 submitted edits, 1 edit by hand, a crash, fair | 248,276 | `EditsAreNotLost`, `RequestsFinish` |
| `ChatSessions` | 2 requests, 1 deletion, 2 sessions, 1 fault, 1 crash, fair | 72,370 | `SessionsHoldExchanges`, `OutcomeIsStored`, `ContextHasEarlierAnswers`, `CleanupKeepsAnswers`, `RequestsEnd` |
| `AnswerStream` | answers of 3 tokens of 6 kinds, deltas of up to 2, 3 attempts, 3 chunks, fair | 424,943 | `DoneShowsStored`, `OneAttemptSpeaks`, `MarkerIsHeld`, `SourcesWereShown`, `AnswerEnds` |
| `Retrieval` | every text of up to 7 characters, windows of 3 with overlap 1, a second page; then 4 chunks, 2 goals of up to 2 queries, 2 retries, 1 activation | 366,530 | `StretchesSurvive`, `ReadingOrder`, `FusionRespectsRanks`, `GoalsAreServed`, `ContextIsSound`, `RequestAdvances` |
| `Accounts` | 2 requests (symmetric), 2 users, 2 sessions, 3 hashes, 2 restarts or commands | 927,879 | `SessionsMatchPassword`, `TemporaryMustChange` |
| `AccountsRows` | 2 requests (symmetric), 2 users, 2 sessions, 2 documents or chats, 1 hash | 1,295,598 | `RowsHaveOwners`, `DeletionSparesWork`, `LocksCrossOnce` |
| `Polling` | 1 document, 2 loops, 1 list request, 1 rebuild, fair | 311,784 | `ActiveIsPolled`, `ActiveIsRefreshed`, `PollingEnds` |
| `Conversation` | 2 conversations with alternating ids and a new one, pages of 1, 2 slots, 4 uses, fair | 227,339 | `PaneIsOneHistory`, `ChoiceIsShown` |
| `RetrievalNothingFound` | as `Retrieval` | | `OnlyOutagesFail`, which the code does not keep: section 5 |

What they show:

- `IndexingDocuments`: whatever uploads, rejections, deletions, a rebuild, a crash
  and a database error do to two documents, an indexed document has one batch of
  rows of its preset, two threads never work on one document, and without a crash
  no file is left without its row. The fault may hit the handler of an upload at
  each of its commits. Two documents are needed because one active
  document keeps every other's window shut; with one job the rebuild already meets
  each document in each of its states.
- `IndexingJobs`: the window has one owner through retries, aborts, lost jobs and
  crashes in the middle of start-up, and the configuration row refines
  `MaintenanceWindow`. Three jobs let an old target be retried after a newer preset
  is in force, and an unfinished job be left behind by an outage and taken up by
  start-up. A third preset with the same chunking takes the branch without a window.
- `LlmRegistryReload`: reading, publishing and replacing race with each other and
  with edits by hand. Two threads are what a critical section needs; two hand
  edits allow a broken file that is repaired; a lost key makes the reload refuse
  a valid file.
- `LlmRegistryEdits`: pages that either of two processes has shown are edited, and either
  serves the edits; the processes share only the file and its lock. The two edits change
  two parts of the file, so that one written over the other shows; the edit by hand
  breaks the file, or brings back its first content, which no hash tells from no edit.
  The safety property was also explored with all kinds of edits (807,042 states).
- `ChatSessions`: two requests that may share a session, one of which may create
  it, with a deletion between. A third request adds no new pair of actors. The
  safety properties were also explored with three requests and no faults (2.3
  million states) without a violation.
- `AnswerStream`: three tokens are a marker and one more, a whole fixed sentence with
  a claim, or a claim with a source and something wrong after it; deltas of one and
  two tokens put every boundary everywhere. Three attempts are as many as the code
  has; the third chunk is the one the smaller budgets drop. The questions are the
  combinations of stream or sync with each gate that matter (`SomeQuestions`).
- `Retrieval`: seven characters are three windows and a partial one, with every pattern
  of white space. The question is asked of one of the documents, since the request sees
  of a text only its chunks (`MCRetrieval`). One chunk per goal more than a result may have (`TopK` 1), so that
  selection, reranking and the limits of the merged context all cut something; two
  algorithms, one searching with one list per query and one with two.
- `Accounts`, `AccountsRows`: two requests are what the races of two transactions take:
  a login against a reset, a change against a reset, a deletion against an upload
  that has committed its row and not saved its file. Three hashes are one reset that
  overtakes another's reading. Two documents are what two deletions can
  lock in opposite orders. `AccountsRows` has no restart: a request that ends between
  two transactions is there by itself (`AbandonCreate`), and with one row and a restart
  the properties of rows were explored as well (690,620 states). Circles of three requests were
  explored with one user (1.3 million states), and `LocksAreOrdered` speaks of any number.
- `Polling`: two loops are one in flight and its replacement; the list request
  overlaps uploads and deletions.
- `Conversation`: two slots are a load and the one that supersedes it; pages of one
  message make older pages out of three messages.

The guards' bounds (`MaxJobs`, `MaxCrashes`, `MaxFaults`, `MaxOutages`,
`MaxRequests`, `MaxSubmits`, `MaxEdits`, `MaxKeyLosses`, `MaxSessions`, `MaxWrites`, `MaxOutside`,
`MaxTokens`, `MaxChanges`, `MaxRebuilds`, `MaxMessages`, `MaxUses`) cap what would
otherwise be unbounded; the theorems hold for all their values. `DeleteDocs`, `ChatDocs`,
`Ops`, `Edits` and `Choices` say what users and operators may ask for in an
instance.

**Fairness.** Requests, deletions, crashes, edits by hand and faults are never
owed. Owed, by weak fairness, is what runs by itself:

- a handler that was admitted and a thread that was started go on: every outside
  call of theirs has a timeout, and a timeout is a failure step of the model;
- start-up follows a crash. Nothing in the repository restarts a dead process (the
  compose files set no restart policy), so this is an assumption about whoever
  runs it, without which the README's promise about restarts says nothing; once
  started, recovery runs in the lifespan before requests are taken;
- a transaction that has begun ends;
- the models' calls end, by their token limit or the client's timeout, and the browser
  reads what arrives (`AnswerStream`);
- timers fire, a request of the browser is answered or fails, and the server settles
  a document it has begun with (`Polling`, `Conversation`).

`WindowCloses` and `DocumentsSettle` need no fairness of success: a job may fail
every document, only not run for ever. `DocumentsSettle` excepts what a job left that
was aborted (`RebuildAbandoned`) and what an upload handler left that ended on a
database error (`LoseUpload`, until a restart takes it up), and both except outages, in which the except branch
cannot reach the database either: then the window, or the document, stays as it is
until the next restart. `ActiveIsRefreshed` and `PollingEnds` except a tab that is
hidden for good, which polls nothing by design. `RequestAdvances` is an action
property with a variant instead of a liveness property: each step of the request
lowers the pair of retries left and steps left, and TLC finds no state without a
successor. `RequestsFinish` assumes that a thread that waits for a
lock gets it: neither `flock` nor the RLock is fair, and it is the bound on
requests that rules starvation out, as light use does in practice.

Deadlock is checked in `Retrieval` only, where a request has a next step until it has
ended. Elsewhere (`CHECK_DEADLOCK FALSE`) a system to which nobody sends a request any
more, its bounds used up, rightly stops; that nothing blocks for ever is what the
liveness properties and `LocksCrossOnce` say. `LocksCrossOnce` is an invariant: in every
set of requests each of which waits for another of the set there is a password writer
and a deletion of the same account, a pair PostgreSQL finds and ends.

The type invariants are theorems (section 4). No run spends time on them.

## 4. The proofs

All theorems are of `Spec` (`ChunkerSpec`), for every value of the constants that the named
assumptions allow: sets of documents, presets, processes, threads, requests,
users, loops and deletions of any size, any bounds. The assumptions (`PresetAssumption`,
`BoundAssumption`, `ProcessAssumption`, `ContentAssumption`, `ChatAssumption`,
`DocumentAssumption`, `AccountAssumption`, `PollingAssumption`,
`ConversationAssumption`, `AnswerAssumption`, `PromptContextAssumption`,
`RankFusionAssumption`, `RetrievalAssumption`) type the constants
and say that `None` and `Broken` are not values of the data. Those of the retrieval also
say that chunks are finitely many, that a list an index returns has a chunk once, that
`Scale` is a multiple of every 60 + rank there can be, which any product of them is, and
that there are more queries than goals, as the code's limits of 6 and 4 are.

| theorem | property | rests on |
|---|---|---|
| `IndexingProofs!TypeCorrect` | `TypeOK` | one lemma per group of actions |
| `IndexingProofs!OneOwner` | `WindowHasOneOwner` | `OwnerInv` |
| `IndexingProofs!WindowImplemented` | `ImplementsWindow` | `OwnerInv` |
| `IndexingProofs!RowsCorrect`, `OneThread` | `RowsMatchMetadata`, `IndexedByOneThread` | `DocInv` |
| `IndexingProofs!VersionsAgree` | `VersionAgreement` | `DocInv`; inductive beside it |
| `IndexingProofs!PathsHaveFiles` | `PathHasFile` | `FilesInv` |
| `IndexingProofs!NoFileIsLeft` | `NoOrphanFiles` | `KeptInv` beside `FilesInv` |
| `LlmRegistryProofs!TypeCorrect` | `TypeOK` | `ThreadsOk` |
| `LlmRegistryProofs!ServedFromFile`, `StaleIsMissed`, `MovesForward` | `ServesTheFile`, `StaleOnlyIfMissed`, `SnapshotsMoveForward` | `ThreadsOk`, `VersionsOk` |
| `LlmRegistryProofs!NoEditIsLost` | `EditsAreNotLost` | `PastOk` beside these |
| `ChatSessionsProofs!TypeCorrect`, `WholeExchanges`, `SessionsHold`, `OutcomeStored`, `CleanupKeeps` | `TypeOK`, `ExchangesAreWhole`, `SessionsHoldExchanges`, `OutcomeIsStored`, `CleanupKeepsAnswers` | `IInv` |
| `ChatSessionsProofs!ContextGiven` | `ContextHasEarlierAnswers` | inductive beside `IInv` |
| `AnswerStreamProofs!StreamAddsUp`, `OneSpeaks` | `DoneShowsStored`, `OneAttemptSpeaks` | `IInv`, `Speaker` |
| `AnswerStreamProofs!MarkerStaysHeld` | `MarkerIsHeld` | `MarkerInv` |
| `AnswerStreamProofs!TypeCorrect`, `SourcesShown` | `TypeOK`, `SourcesWereShown` | `TypedInv`: both and `SourcesInv` |
| `ChunkProofs!RetrievalTypeCorrect`, `GoalsServed`, `ContextSound` | `TypeOK`, `GoalsAreServed`, `ContextIsSound` | `RetrievalInv`: `TypeOK`, `Lists`, `Served`, `Backed` |
| `ChunkProofs!RanksAreRespected` | `FusionRespectsRanks` | `RetrievalInv`, `FusedInOrder` |
| `ChunkProofs!RequestAlwaysAdvances` | `RequestAdvances` | `RetrievalInv` |
| `ChunkProofs!ChunkerTypeCorrect`, `NothingIsLost`, `InReadingOrder` | `ChunkerTypeOK`, `StretchesSurvive`, `ReadingOrder` | `WindowInv`, `PlaceInv` |
| `AccountsProofs!TypeCorrect`, `SessionsFollowPassword`, `TemporaryIsMarked`, `OwnersExist`, `WorkIsSpared`, `LocksAreOrdered` | `TypeOK`, `SessionsMatchPassword`, `TemporaryMustChange`, `RowsHaveOwners`, `DeletionSparesWork`, `LocksCrossOnce` | `IInv` |
| `PollingProofs!TypeCorrect`, `ActiveStaysPolled` | `TypeOK`, `ActiveIsPolled` | `TasksAreAlive`, `ActiveHasTask` |
| `ConversationProofs!TypeCorrect`, `PaneShowsOneHistory` | `TypeOK`, `PaneIsOneHistory` | `IInv` |

**Window.** `WindowHasOneOwner` says nothing of the threads, so a thread of an
old job could finish and shut a window that is another's. `OwnerInv` adds that a
thread that runs belongs to an unfinished job, and that jobs are numbered without
gaps, so that the owner is the newest. The refinement follows by cases: `FinishJob` commits the window,
`AbortJob` abandons it, `OpenWindow` opens it, a preset that cuts alike is a switch,
and all other steps stutter: by the invariant, start-up finds the window already
as it would set it.

**Rows.** `RowsMatchMetadata` is not inductive: whether `PublishIndex` doubles a
batch depends on what the thread that publishes has found and who else is at
work. `TaskInv(d)` relates the thread of `d` to its row and to the window (a
document that did not slip into a window keeps it shut, being active, until its
thread is through); `RunInv(j, d)` says what a job's list and its current document
imply (what it has rebuilt is of its target and version); `RowsMatch(d)` is the
property. `VersionAgreement` is inductive given these: the job's list is through
when it closes the window, and presets switched outside a window cut alike.

**Files.** `FileInv(d)` says from which step on the file exists, and that a
deletion which is about to unlink has no row with a path left. Document ids are
never reused, which is what the argument rests on. `KeptInv(d)` is the converse, for
runs without a crash or a database error: a saved file of a document that did not slip
into a window has its row, a deletion that is about to unlink it, or the clean-up of a
rejected upload.

**Registry.** `ThreadsOk` says which fields a thread at each step has filled in,
that a request's endpoint is enabled, and that a thread between reading and
publishing, or between comparing and publishing an edit, holds the mutex of its
process. `VersionsOk` compares stamps: a snapshot, and what a thread is about to
publish, is not newer than the file, agrees with it where the stamps are equal,
and is not older than what the process serves. For edits, `PastOk` follows the revision
from the page that showed it to the replacement: the content of a page is of the file's
past, or the file still has it and the process that showed the page, if it runs, is at
that version or about to publish it (`PageOk`, `Current`). So an edit of its own page is
built from that content, though the page was given an earlier snapshot; an edit of
another process's page is, too, unless it is `behind`. The file lock is held from `LockFile` on, so that only an operator can
come between the comparison and the replacement.

**Chat.** `IInv` says, for each request, what it has inserted and stored at each
of its steps (`PendingOk`, `OwnOk`, `DoneOk`, `ErrorOk`), that a session not yet
committed belongs to the request that makes it (`OpenIsPrivate`), that stored
messages lie in live sessions of their requests (`MessagesOk`), that a deletion
has loaded only messages of its session (`DeletionOk`), and that an empty live
session has a request that still looks at it (`EmptyOk`). The last one is where
the foreign key matters: the cleanup's decision, taken on an empty session, is
stale when it is carried out, and only the refused DELETE makes that harmless.
`CleanupKeeps` is an action property, proved from the same invariant. For
`ContextGiven`, a session stores at most two messages per request, so that with room for
all of them every earlier answer is among the recent messages when a question reads them
(`AllRecent`); what it was given does not change afterwards (`ContextStays`).

**Answers.** `IInv` says, for each phase of the server, what the browser shows once the
event under way is read (`Shows`, `Corrects`): first what was handed out, from the last
correction on the generated text, from the commit on the stored one; and without a
connection nothing is under way and the browser has failed. What the normaliser and the
corrections make of a text is never expanded: an answer adds up whatever they do,
because the correction is sent by comparing with what was handed out.

The other two look into the texts. `MarkerInv` says that an attempt whose beginning is
not decided holds back everything it has received (`HeldBack`), so that the marker, once
decided, is cut whole (`MarkerIsCut`), and that a text decided to have none begins
with none whatever follows. For
`SourcesInv` the prompt has to be typed: that `InOrder` lists each chosen place once
follows by counting ranks, that the selection only takes chunks retrieved and stays
within its budget by induction over the places. The sources of an answer are those listed
for its attempt, and the attempt does not change once there is an answer.

**Chunks.** `WindowInv` says that what lies before the window has survived and that the
window has not passed the end of the text. The step that matters is `CutWindow`: a
stretch that begins before the next window, and so at most `ChunkOverlap` before the end
of this one, lies in this one or in one before. `PlaceInv` gives the reading order.

**Retrieval.** `RetrievalInv` adds three parts to the types. `Lists`: every list, the rows
and the context are rankings, in which a chunk stands once, and there are lists only while
a search is under way, never more than it has queries. `Served`: the best candidates of
the goals are among the rows from the reranking to the merge. `Backed`: an assessment on
record has its evidence in the context. It is there only from the reply to the next
search, and the context changes only after a retry has removed it; this is why a matrix
built from the latest assessment never refers to a chunk the limits of a merge have cut.
Each action keeps these by what its operator makes of rankings:

- *Order.* `RankedFacts` says that a finite set whose elements are counted by what comes
  before them is listed whole, once, and in order; `InTurnFacts`, `SortedFacts`,
  `PickedFacts`, `DistinctFacts` and `FirstRowsFacts` follow for the sorts, filters and
  slices of the code.
- *Fusion.* One list more that ranks a chunk higher makes a greater total (`TotalGrows`),
  reciprocals fall with the rank (`ReciprocalFacts`, where `Scale` divides without rest),
  so what dominates scores more (`BetterRanksScoreMore`) and is sorted first
  (`FuseFacts`). The first hits are put in front, and the merge removes doubles: a first
  hit of one list that is dominated cannot be one, since what dominates it stands before
  it in that list, which is the case that makes `FusedInOrder` hold after
  `_merge_query_anchors` as well.
- *Selection.* The reserved chunks come first among those that are kept, and there is
  room for one per goal because a result has at least as many rows as goals
  (`LimitFacts`), so `SelectedFacts` holds for any similarities of the model.
- *Neighbours and merges.* `FittingFacts`: whatever is passed over for want of room, what
  is taken comes once and from the list.
- *Plan.* `AllocatedFacts`: the question, one first query per goal and the further ones
  granted are at most `MaxQueries`; an injection from the distinct queries into these
  places counts them.

`RequestAlwaysAdvances` needs the same invariant: that a plan is within the limit makes the
first step smaller, and that lists never outnumber queries the ones of a search.

**Accounts.** A request holds no lock for most of its life, so `IInv` says what of its
account, of the sessions and of the rows still is as the request has found or left it:
`FineAccount` (the hash a login verified is the one in force, and what a reset read of
the duty to change is still so, unless the request is marked `raced`), `FineSessions`
(every session of the user is swept, kept, or of a login that raced), `FineRows`
(claimed documents are settled until they are gone, and a document whose upload has
saved it has its file) and `FineLocks` (what is locked at which step, and that the
documents a deletion has locked come before those it has still to lock). `TablesFresh` says that keys not
given out are in no use. Only a login whose verification another request's write has
overtaken may leave a session of an old password. `WorkIsSpared` is an action property,
from the same invariant. `LocksAreOrdered` takes a set of requests that wait for each
other (`Waiting`) with no such pair in it. A writer that waits for sessions waits for a
deletion that has swept them, and makes the pair; so no writer of the set holds a row,
nobody waits for the row of a user, and no deletion has swept. What is left are deletions
that lock documents, and uploads that wait for these. Of the documents they wait for, take
the greatest (`Greatest`): the deletion that has locked it locks in the order of ids, and
waits for a greater one.

**Polling.** `ActiveIsPolled` is split: a document shown as active has an entry in the
task map (`ActiveHasTask`), and an entry's loop is alive (`TasksAreAlive`), unless the
document is adrift. The second is not obvious since a loop that was replaced while it
waited reschedules, and stops, whatever entry its document has by then.

**Conversation.** A page is a consecutive piece of the log below an id, with whether older
ones exist (`Consecutive`), and stays so while the log grows behind it. `History` says the
same of the stored part of the pane. `SelectOk` and `OlderOk` carry it through the requests
in flight; `StreamOk` says that the page stays in the conversation it asks in, or in
none, and that a conversation created by the question has no history to load;
`Referenced` that the page only knows conversations that exist. `late` is where a
continuation that checks nothing breaks it (section 5).

Recursion over data is out of the prover's reach as such: the library's induction
theorems take an operator. Induction over a *set* of numbers is not, since every
non-empty set of naturals has a least one (`Least`, `LeastPlace`), from which
`SetInduction` and `EveryNumber` follow. `PromptContext` and `Conversation` therefore
select, sort and measure by ranks and by functions over `0..n` instead of folds, as does
`RankFusion`, whose two loops (`Total`, `Fitting`) unfold by `Recursion`.

**Only model-checked.** The liveness properties `DocumentsSettle`, `WindowCloses`,
`RequestsFinish`, `RequestsEnd`, `AnswerEnds`, `ActiveIsRefreshed`, `PollingEnds` and
`ChoiceIsShown`: fairness is beyond the prover. Every other
property of a passing run is stated by a theorem. What the abstractions leave out (what a
text says, what a search finds for a query) is part of neither the runs nor the proofs.

## 5. Where the code and its documentation part

One run shows a statement of the repository to be false of the code.

- `RetrievalNothingFound`: a first search that finds nothing is followed by a
  hierarchical search, `tests/unit/test_evidence_coverage.py:275` says. The call at
  `evidence_coverage.py:159` leaves out the question that `hierarchical_retriever`
  requires, so with a plan and no chunk the request fails; the test replaces the
  callee.

The modules state further claims the code does not keep, each beside the property that
holds instead, and no run is spent on them. TLC refutes each on the instance named,
with the claim in the place of that property.

- `Indexing!VersionsDoNotMix` (`IndexingDocuments`): writes are said to be blocked
  during a rebuild. The check is made before the handler and without a lock, so an
  upload it let through is inserted inside the window, after the job has listed its
  documents, and keeps the old preset and version when the job completes.
- `Indexing!ScopedChatsCiteLiveChunks` (`IndexingDocuments`): chats are said to be
  blocked as well. A chat that was let through stores citations of chunks that the
  rebuild has deleted.
- `Indexing!DocumentsSettle` without its exceptions: interrupted documents are said to
  be recovered at start-up. Inside a window they are left to the job; if that aborts,
  they stay `processing` until the next restart, and refuse their deletion and every
  preset change until then.
- `LlmRegistry!OneEndpointPerRequest` (`LlmRegistryReload`): all calls of a request are
  said to use one endpoint. A streamed chat resolves its endpoint twice, before and
  after retrieval (`chat.py:452`).
- `ChatSessions!NoEmptySessions` (`ChatSessions`): a failed stream is said to leave no
  empty session. One whose client has gone before its first event runs none of its
  except branches (`chat.py:448`).
- `Accounts!EveryResetForcesChange` (`Accounts`): a reset is said to force a change of
  the password (`README.md:172-174`). Of two overlapping writers one may leave the flag
  of the other, and `set_admin.py:22` lifts the duty when it revokes.
- `Polling!PolledUntilFinal` (`Polling`): a document is said to be polled until it is
  final or a request fails (`app-controller.js:512`). Opening the administration stops
  all polling (`main.js:259`) and closing it starts none; an answer of a superseded
  loop that arrives late shows an old status.
- `Conversation!PaneNeverMixes` (`Conversation`): three continuations check nothing
  after their await: an older page (`app-controller.js:196`), the 404 of a superseded
  load (`:97`) and the snapshot a failed stream restores (`:482`).
- `AnswerStream!NoMarkerLeaks` (`AnswerStream` with white space in `Alphabet`): a marker
  written with a space is handed out and taken back by a correction.
- `Retrieval!EmptyRetryKeepsContext` (`Retrieval`): context found before is said to be
  kept by a retry that finds nothing (`evidence_coverage.py:203`). It is passed through
  the limits of the merge (16 chunks, 24,000 characters) all the same.

Further behaviour met while modelling, which the properties exclude by name or the
hazards list describes:

- a database error in the upload handler's own commits (`document_service.py:47`, `:55`)
  leaves the document `uploaded` with no thread to index it: until a restart it refuses
  its deletion and every preset change (`LoseUpload`);
- with several API processes, one that has missed a write, or has refused to load it,
  and is given the edit of another's page, writes its older configuration with the edit
  over the newer file, and nobody is told of a conflict: the revision compared is the
  page's, the configuration edited is the process's (`language_model_service.py:200`,
  `language_model_registry.py:129`). With the one process that is deployed this cannot
  happen;
- a window stays open until a restart when the database fails in the job's except
  branch too;
- a file stays without a row after a crash between the two, or when an upload that
  slipped into a window is failed by the job and deleted before its file is saved;
- a document whose first transaction fails in a job is marked failed with its old
  rows still there;
- an edit by hand between the registry's read and its second stat is not noticed
  (`missed`); an edit that brings the file back to the content the administrator
  saw is not told from no edit;
- saving an API key after the master key file was lost makes a new master key,
  though the file holds ciphertexts of the old one;
- the endpoint's server is asked for its models while the registry's mutex is held, for
  which the dependency of every chat waits on the event loop
  (`language_model_registry.py:137`);
- two streams of one session may draw their message ids alternately
  (`chat_repository.py:84`); a database error between the commit and the events reports
  a stored exchange as failed (`chat.py:228`);
- a synchronous chat holds its transaction, and with a new scoped session a lock on the
  document's row, while the models answer (`chat.py:324`);
- with keyword search, a small `top_k` and many queries, a later goal's first hit may
  not be among the candidates, though `retriever.py:61` gives every query a place;
- the searches of a retry are not limited by `MAX_RETRIEVAL_QUERIES`, and use the
  question as it was asked, where the first search uses the rewritten one
  (`chat.py:360`);
- the fallback of the normaliser's `finish()` for an empty text is never reached.

## 6. What is not modelled, and why

Beyond the abstractions of section 2: reads that change nothing; the contents of
pages, chunks, embeddings and prompts; PDF parsing and captions, calls of PyMuPDF and
of a vision model whose failure is a failed document; the embedding service, a stateless
front of a model library; the views of the browser client, which render its state;
logs, metrics and health reports; migrations, which run once before the API starts; the
offline evaluation, which measures answers and is not part of the service. The
database's contribution (atomic transactions, row locks, foreign keys) is part of
the steps; connection pools and isolation anomalies beyond read committed are not.
The hierarchical search is modelled as its call only, since that call never succeeds.
The body limit and the scripts are planned.

## 7. The plan

Modelled: `Indexing` with `MaintenanceWindow`, `LlmRegistry`, `ChatSessions`,
`AnswerStream`, `Retrieval`, `Chunker`, `Accounts`, `Polling`, `Conversation`. Next:

1. an abstract specification of one streamed exchange (asked, answered or failed),
   implemented by `ChatSessions` and, in its text, by `AnswerStream`.
2. the hierarchical search, once its call passes the question.
3. `BackupRestore` and the preparation of the model files: an abort between any two
   commands leaves the old state or the new one; then the body limit of
   `request_limits.py`.
