---------------------------- MODULE LlmRegistry ----------------------------
(***************************************************************************)
(* The language model registry: one JSON file of endpoints, which          *)
(* administrators edit through the API and operators edit by hand, and the *)
(* snapshot of it that each API process serves its requests from.          *)
(*                                                                         *)
(* A process reloads lazily: every request compares the stat signature of  *)
(* the file and of the master key with the one it observed last, under the *)
(* registry's RLock (mutex).  replace() takes a file lock shared by the    *)
(* processes (flock), then the mutex.  External edits take neither.        *)
(*                                                                         *)
(* The SHA-256 revision of a file is its content; its stat signature is    *)
(* its stamp, which no two writes share.  A Fernet token is known by the   *)
(* master key that made it and by a number, since no two are equal.        *)
(***************************************************************************)
EXTENDS Naturals

CONSTANTS
  Procs,         \* API processes
  Threads,       \* request threads
  ProcOf,        \* ProcOf[t]: the process of thread t
  Keys,          \* endpoint keys
  None,          \* no endpoint, no holder, no snapshot
  Broken,        \* a file content that does not parse or validate
  FirstContent,  \* the file when the first process starts
  Ops,           \* bound: the edits administrators ask for
  Edits,         \* bound: the contents operators write by hand
  Choices,       \* bound: the endpoints the user may activate
  MaxRequests, MaxSubmits, MaxEdits, MaxKeyLosses, MaxCrashes

Token == [key: Nat, n: Nat]
Entry == [enabled: BOOLEAN, token: Token \cup {None}]
Configuration == [default: Keys, entries: [Keys -> Entry \cup {None}]]
Content == Configuration \cup {Broken}
Op == [kind: {"create", "update", "default", "delete"}, key: Keys,
       enabled: BOOLEAN, auth: {"none", "new", "keep"}]

\* An administration page in a browser: the configuration whose revision it
\* carries, and the process that answered with it.
Page == [proc: Procs, content: Configuration]

ASSUME ProcessAssumption ==
  /\ ProcOf \in [Threads -> Procs]
  /\ None \notin Threads /\ None \notin Keys
  /\ None \notin Entry /\ None \notin Token /\ None \notin Nat
  /\ None \notin [stamp: Nat, content: Configuration]
  /\ None \notin Nat \X Nat /\ None \notin Op

ASSUME ContentAssumption ==
  /\ Broken \notin Configuration
  /\ FirstContent \in Configuration
  /\ Ops \subseteq Op /\ Edits \subseteq Content /\ Choices \subseteq Keys
  /\ MaxRequests \in Nat /\ MaxSubmits \in Nat /\ MaxEdits \in Nat
  /\ MaxKeyLosses \in Nat /\ MaxCrashes \in Nat

VARIABLES
  file,         \* the endpoint JSON: its stamp and its content
  key,          \* the master key file: the number of its key, 0 if missing
  keysMade,     \* master keys generated so far
  tokens,       \* tokens encrypted so far
  flock,        \* the thread that holds the lock file
  mutex,        \* mutex[p]: the thread that holds the RLock of p
  snap,         \* snap[p]: the published snapshot, with the stamp it is of
  observed,     \* observed[p]: the signature p saw last
  reloadError,  \* reloadError[p]: the last reload was refused
  selected,     \* users.active_llm_endpoint_key of the user who chats
  th,           \* th[t]: the request thread t runs
  pages,        \* the administration pages the browsers show
  missed,       \* history: a write fell between p's read and its stat
  past,         \* history: the contents the file had before
  overtaken,    \* history: edits an operator's has overtaken since they were compared
  behind,       \* history: edits of another process's page in a stale process
  requests, submits, edits, losses, crashes

browser == <<pages, submits>>
history == <<past, overtaken, behind>>
vars == <<file, key, keysMade, tokens, flock, mutex, snap, observed,
          reloadError, selected, th, browser, missed, requests, edits, losses,
          crashes, history>>

Step == {"idle", "call", "read", "publish", "build", "flock", "mutex",
         "compare", "write", "replaced", "retrieve", "generate", "check"}

\* What a call of snapshot() is for.
Purpose == {"boot", "view", "edit", "pin", "stream", "activate"}

\* validate_endpoint_keys: the default endpoint exists and is enabled.
EnabledIn(c, k) == c.entries[k] # None /\ c.entries[k].enabled
Valid(c) == c # Broken /\ EnabledIn(c, c.default)

\* A snapshot, with the stamp of the version of the file it is of, and an
\* endpoint of a snapshot that a request may be served by.
LanguageModelSnapshot ==
  [stamp: Nat, content: {c \in Configuration : EnabledIn(c, c.default)}]
Signatures == Nat \X Nat
Endpoint == [key: Keys, entry: {e \in Entry : e.enabled}]

Idle == [pc |-> "idle", for |-> "boot", op |-> None, page |-> None,
         base |-> None, token |-> None, content |-> None, sig |-> None,
         choice |-> None, pinned |-> None, used |-> None]

Thread == [pc: Step, for: Purpose, op: Op \cup {None},
           page: Page \cup {None}, base: Configuration \cup {None},
           token: Token \cup {None},
           content: LanguageModelSnapshot \cup {None},
           sig: Signatures \cup {None}, choice: Keys \cup {None},
           pinned: Endpoint \cup {None}, used: Endpoint \cup {None}]

TypeOK ==
  /\ file \in [stamp: Nat, content: Content]
  /\ key \in Nat /\ keysMade \in Nat /\ tokens \in Nat
  /\ flock \in Threads \cup {None}
  /\ mutex \in [Procs -> Threads \cup {None}]
  /\ snap \in [Procs -> LanguageModelSnapshot \cup {None}]
  /\ observed \in [Procs -> Signatures \cup {None}]
  /\ reloadError \in [Procs -> BOOLEAN]
  /\ selected \in Keys \cup {None}
  /\ th \in [Threads -> Thread]
  /\ missed \in [Procs -> BOOLEAN]
  /\ pages \subseteq Page
  /\ past \subseteq Content /\ overtaken \subseteq Threads /\ behind \subseteq Threads
  /\ requests \in Nat /\ submits \in Nat
  /\ edits \in Nat /\ losses \in Nat /\ crashes \in Nat

-----------------------------------------------------------------------------
(* The configuration file contract, and the master key.                    *)

TokensOf(c) == {c.entries[k].token : k \in {x \in Keys : c.entries[x] # None}}
               \ {None}
Managed(c) == TokensOf(c) # {}

\* _resolve: every ciphertext must open with the master key, which is created
\* only where the configuration holds no ciphertext.
Resolves(c) == Valid(c) /\ (Managed(c) => /\ key # 0
                                          /\ \A x \in TokensOf(c) : x.key = key)

CreateKey ==
  /\ keysMade' = keysMade + 1
  /\ key' = keysMade + 1

\* LanguageModelCredentialCipher.initialize: a key is generated if the file is
\* missing and the caller says that no encrypted credentials exist.
InitializeCipher(encryptedExist) ==
  IF key = 0 /\ ~encryptedExist THEN CreateKey ELSE UNCHANGED <<key, keysMade>>

Signature == <<file.stamp, key>>

\* The configuration an edit makes of c, and whether it may be made.
Applicable(op, c) ==
  CASE op.kind = "create"  -> /\ c.entries[op.key] = None
                              /\ op.auth # "keep"
    [] op.kind = "update"  -> /\ c.entries[op.key] # None
                              /\ op.auth = "keep" => c.entries[op.key].token # None
    [] op.kind = "default" -> EnabledIn(c, op.key)
    [] op.kind = "delete"  -> c.entries[op.key] # None /\ c.default # op.key

Edited(op, c, token) ==
  CASE op.kind \in {"create", "update"} ->
         [c EXCEPT !.entries[op.key] =
            [enabled |-> op.enabled,
             token |-> CASE op.auth = "none" -> None
                         [] op.auth = "new"  -> token
                         [] op.auth = "keep" -> c.entries[op.key].token]]
    [] op.kind = "default" -> [c EXCEPT !.default = op.key]
    [] op.kind = "delete"  -> [c EXCEPT !.entries[op.key] = None]

\* get_user_endpoint: the stored choice while it is enabled, else the default.
UserEndpoint(choice, c) ==
  LET k == IF choice # None /\ EnabledIn(c, choice) THEN choice ELSE c.default
  IN [key |-> k, entry |-> c.entries[k]]

-----------------------------------------------------------------------------
(* Threads and locks.                                                      *)

At(t, pc) == th[t].pc = pc
P(t) == ProcOf[t]
Serving(p) == snap[p] # None
Publishing(t) == th[t].pc \in {"publish", "replaced"}

\* Variant: snapshot() reads and publishes without the mutex.
MutexFreeAlways(t) == TRUE

MutexFree(t) == mutex[P(t)] = None

Release(t) == mutex' = [mutex EXCEPT ![P(t)] = None]

\* Writes of the file that fall between a read of it and the stat that
\* publishes what was read.
MissedByReaders == [p \in Procs |-> missed[p] \/
                      \E t \in Threads : P(t) = p /\ Publishing(t)]

\* Where the caller r of snapshot() goes on with configuration c.
Given(r, c) ==
  CASE r.for \in {"boot", "view"} -> Idle
    [] r.for = "edit" -> [r EXCEPT !.pc = "build", !.base = c,
                                   !.content = None, !.sig = None]
    [] r.for = "pin" ->
         [r EXCEPT !.pc = "retrieve", !.pinned = UserEndpoint(r.choice, c),
                   !.content = None, !.sig = None]
    [] r.for = "stream" ->
         [r EXCEPT !.pc = "generate", !.used = UserEndpoint(r.choice, c),
                   !.content = None, !.sig = None]
    [] r.for = "activate" ->
         IF EnabledIn(c, r.choice)
         THEN [r EXCEPT !.pc = "check", !.content = None, !.sig = None]
         ELSE Idle

\* A browser is shown configuration c, and the revision of it.
ShowPage(t, c) == pages' = pages \cup {[proc |-> P(t), content |-> c]}

\* snapshot() gives c to the caller on t, and the file was refused or not.
Return(t, c, refused) ==
  /\ th' = [th EXCEPT ![t] = Given(th[t], c)]
  /\ (IF th[t].for = "view" THEN ShowPage(t, c) ELSE UNCHANGED pages)
  /\ behind' = (IF th[t].for = "edit" /\ th[t].page.proc # P(t)
                                     /\ (missed[P(t)] \/ refused)
                THEN behind \cup {t} ELSE behind \ {t})

Init ==
  /\ file = [stamp |-> 1, content |-> FirstContent]
  /\ key = (IF Managed(FirstContent) THEN 1 ELSE 0)
  /\ keysMade = (IF Managed(FirstContent) THEN 1 ELSE 0)
  /\ tokens = 0
  /\ flock = None
  /\ mutex = [p \in Procs |-> None]
  /\ snap = [p \in Procs |-> None]
  /\ observed = [p \in Procs |-> None]
  /\ reloadError = [p \in Procs |-> FALSE]
  /\ selected = None
  /\ th = [t \in Threads |-> Idle]
  /\ missed = [p \in Procs |-> FALSE]
  /\ pages = {}
  /\ past = {} /\ overtaken = {} /\ behind = {}
  /\ requests = 0 /\ submits = 0 /\ edits = 0 /\ losses = 0 /\ crashes = 0

-----------------------------------------------------------------------------
(* Requests.                                                               *)

Arrive(t, request) ==
  /\ At(t, "idle") /\ Serving(P(t)) /\ requests < MaxRequests
  /\ requests' = requests + 1
  /\ th' = [th EXCEPT ![t] = request]
  /\ UNCHANGED <<file, key, keysMade, tokens, flock, mutex, snap, observed,
                 reloadError, selected, missed, edits, losses, crashes,
                 browser, history>>

Chat(t) == Arrive(t, [Idle EXCEPT !.pc = "call", !.for = "pin", !.choice = selected])

ActivateModel(t) == \E k \in Choices :
  Arrive(t, [Idle EXCEPT !.pc = "call", !.for = "activate", !.choice = k])

\* GET of the administration page, whose revision the edits made on it carry.
ViewModels(t) == Arrive(t, [Idle EXCEPT !.pc = "call", !.for = "view"])

\* A browser submits an edit with the revision its page shows.  Any process may
\* be given the request, however long ago and whoever showed the page.
SubmitEdit(t) ==
  /\ At(t, "idle") /\ Serving(P(t)) /\ submits < MaxSubmits
  /\ submits' = submits + 1
  /\ \E op \in Ops, page \in pages :
       th' = [th EXCEPT ![t] = [Idle EXCEPT !.pc = "call", !.for = "edit",
                                            !.op = op, !.page = page]]
  /\ UNCHANGED <<file, key, keysMade, tokens, flock, mutex, snap, observed,
                 reloadError, selected, missed, pages, requests, edits, losses,
                 crashes, history>>

\* chat answers with the endpoint its dependency pinned; chat_stream resolves
\* the user's endpoint again.  The user row it reads is fresh when the request
\* has committed a new chat session, and the one of the dependency otherwise.
Retrieved(t) ==
  /\ At(t, "retrieve")
  /\ \/ th' = [th EXCEPT ![t].pc = "generate", ![t].used = th[t].pinned]
     \/ \E choice \in {th[t].choice, selected} :
          th' = [th EXCEPT ![t].pc = "call", ![t].for = "stream",
                           ![t].choice = choice]
  /\ UNCHANGED <<file, key, keysMade, tokens, flock, mutex, snap, observed,
                 reloadError, selected, missed, requests, edits, losses, crashes,
                 browser, history>>

Answered(t) ==
  /\ At(t, "generate")
  /\ th' = [th EXCEPT ![t] = Idle]
  /\ UNCHANGED <<file, key, keysMade, tokens, flock, mutex, snap, observed,
                 reloadError, selected, missed, requests, edits, losses, crashes,
                 browser, history>>

\* activate_endpoint after the call of the endpoint's server.
Activated(t) ==
  /\ At(t, "check")
  /\ selected' \in {selected, th[t].choice}
  /\ th' = [th EXCEPT ![t] = Idle]
  /\ UNCHANGED <<file, key, keysMade, tokens, flock, mutex, snap, observed,
                 reloadError, missed, requests, edits, losses, crashes,
                 browser, history>>

-----------------------------------------------------------------------------
(* snapshot() and initialize().                                            *)

\* initialize() of the lifespan, before the process takes requests.
Boot(t) ==
  /\ At(t, "idle") /\ ~Serving(P(t)) /\ MutexFree(t)
  /\ th' = [th EXCEPT ![t].pc = "read", ![t].for = "boot", ![t].sig = Signature]
  /\ mutex' = [mutex EXCEPT ![P(t)] = t]
  /\ UNCHANGED <<file, key, keysMade, tokens, flock, snap, observed,
                 reloadError, selected, missed, requests, edits, losses, crashes,
                 browser, history>>

Snapshot(t) ==
  /\ At(t, "call") /\ MutexFree(t)
  /\ \/ /\ Signature = observed[P(t)]
        /\ Return(t, snap[P(t)].content, reloadError[P(t)])
        /\ UNCHANGED mutex
     \/ /\ Signature # observed[P(t)]
        /\ th' = [th EXCEPT ![t].pc = "read", ![t].sig = Signature]
        /\ mutex' = [mutex EXCEPT ![P(t)] = t]
        /\ UNCHANGED <<pages, behind>>
  /\ UNCHANGED <<file, key, keysMade, tokens, flock, snap, observed,
                 reloadError, selected, missed, requests, submits, edits,
                 losses, crashes, past, overtaken>>

ReadSnapshot(t) ==
  /\ At(t, "read") /\ Resolves(file.content)
  /\ InitializeCipher(Managed(file.content))
  /\ th' = [th EXCEPT ![t].pc = "publish", ![t].content = file]
  /\ missed' = [missed EXCEPT ![P(t)] = FALSE]
  /\ UNCHANGED <<file, tokens, flock, mutex, snap, observed, reloadError,
                 selected, requests, edits, losses, crashes, browser, history>>

PublishSnapshot(t) ==
  /\ At(t, "publish")
  /\ snap' = [snap EXCEPT ![P(t)] = th[t].content]
  /\ observed' = [observed EXCEPT ![P(t)] = Signature]
  /\ reloadError' = [reloadError EXCEPT ![P(t)] = FALSE]
  /\ Return(t, th[t].content.content, FALSE)
  /\ Release(t)
  /\ UNCHANGED <<file, key, keysMade, tokens, flock, selected, missed,
                 requests, submits, edits, losses, crashes, past, overtaken>>

\* Variant: the refused reload leaves no trace for the administrator.
RefuseReloadSilently(t) ==
  /\ At(t, "read") /\ ~Resolves(file.content) /\ Serving(P(t))
  /\ observed' = [observed EXCEPT ![P(t)] = th[t].sig]
  /\ Return(t, snap[P(t)].content, TRUE)
  /\ Release(t)
  /\ UNCHANGED <<file, key, keysMade, tokens, flock, snap, reloadError,
                 selected, missed, requests, submits, edits, losses, crashes,
                 past, overtaken>>

\* The last good snapshot stays, and the signature counts as seen.
RefuseReload(t) ==
  /\ At(t, "read") /\ ~Resolves(file.content) /\ Serving(P(t))
  /\ observed' = [observed EXCEPT ![P(t)] = th[t].sig]
  /\ reloadError' = [reloadError EXCEPT ![P(t)] = TRUE]
  /\ Return(t, snap[P(t)].content, TRUE)
  /\ Release(t)
  /\ UNCHANGED <<file, key, keysMade, tokens, flock, snap, selected, missed,
                 requests, submits, edits, losses, crashes, past, overtaken>>

\* A process that cannot load the file at start-up exits.
RefuseBoot(t) ==
  /\ At(t, "read") /\ ~Resolves(file.content) /\ ~Serving(P(t))
  /\ th' = [th EXCEPT ![t] = Idle]
  /\ Release(t)
  /\ UNCHANGED <<file, key, keysMade, tokens, flock, snap, observed,
                 reloadError, selected, missed, requests, edits, losses, crashes,
                 browser, history>>

-----------------------------------------------------------------------------
(* create_, update_, delete_endpoint and set_default_endpoint; replace().  *)

\* The edit is made of the snapshot the handler has just been given; a new API
\* key is encrypted before any lock is taken.
BuildCandidate(t) ==
  LET op == th[t].op
      new == op.kind \in {"create", "update"} /\ op.auth = "new"
  IN /\ At(t, "build") /\ Applicable(op, th[t].base)
     /\ (IF new THEN InitializeCipher(FALSE) ELSE UNCHANGED <<key, keysMade>>)
     /\ tokens' = (IF new THEN tokens + 1 ELSE tokens)
     /\ LET token == [key |-> key', n |-> tokens']
            candidate == Edited(op, th[t].base, token)
        IN th' = [th EXCEPT ![t] =
             IF Valid(candidate)
             THEN [@ EXCEPT !.pc = "flock", !.token = IF new THEN token ELSE None,
                            !.content = [stamp |-> 0, content |-> candidate]]
             ELSE Idle]
     /\ UNCHANGED <<file, flock, mutex, snap, observed, reloadError, selected,
                    missed, requests, edits, losses, crashes, browser, history>>

\* 404 or 409 before anything is locked.
RefuseEdit(t) ==
  /\ At(t, "build") /\ ~Applicable(th[t].op, th[t].base)
  /\ th' = [th EXCEPT ![t] = Idle]
  /\ UNCHANGED <<file, key, keysMade, tokens, flock, mutex, snap, observed,
                 reloadError, selected, missed, requests, edits, losses, crashes,
                 browser, history>>

LockFile(t) ==
  /\ At(t, "flock") /\ flock = None
  /\ flock' = t
  /\ th' = [th EXCEPT ![t].pc = "mutex"]
  /\ UNCHANGED <<file, key, keysMade, tokens, mutex, snap, observed,
                 reloadError, selected, missed, requests, edits, losses, crashes,
                 browser, history>>

LockRegistry(t) ==
  /\ At(t, "mutex") /\ MutexFree(t)
  /\ mutex' = [mutex EXCEPT ![P(t)] = t]
  /\ th' = [th EXCEPT ![t].pc = "compare"]
  /\ UNCHANGED <<file, key, keysMade, tokens, flock, snap, observed,
                 reloadError, selected, missed, requests, edits, losses, crashes,
                 browser, history>>

\* Variant: the revision of the file is not compared with the expected one.
RevisionExpectedOfAnyone(t) == file.content # Broken

RevisionExpected(t) == file.content = th[t].page.content

\* The revision of the file is the one of the page, and every
\* credential of the candidate opens.
Compare(t) ==
  /\ At(t, "compare") /\ RevisionExpected(t) /\ Resolves(th[t].content.content)
  /\ InitializeCipher(Managed(th[t].content.content))
  /\ th' = [th EXCEPT ![t].pc = "write"]
  /\ overtaken' = overtaken \ {t}
  /\ UNCHANGED <<file, tokens, flock, mutex, snap, observed, reloadError,
                 selected, missed, requests, edits, losses, crashes, browser,
                 past, behind>>

\* Variant: the file lock is not given back.
LeaveReplaceKeepingFileLock(t) ==
  /\ Release(t)
  /\ UNCHANGED flock
  /\ th' = [th EXCEPT ![t] = Idle]

LeaveReplace(t) ==
  /\ Release(t)
  /\ flock' = None
  /\ th' = [th EXCEPT ![t] = Idle]

\* Variant: the snapshot is published before the file is replaced, and stays
\* when that fails.
PublishThenWrite(t) ==
  /\ At(t, "write")
  /\ snap' = [snap EXCEPT ![P(t)] = [stamp |-> file.stamp,
                                     content |-> th[t].content.content]]
  /\ LeaveReplace(t)
  /\ UNCHANGED <<file, key, keysMade, tokens, observed, reloadError, selected,
                 missed, requests, edits, losses, crashes, browser, history>>

\* A conflict, a credential that does not open, an endpoint that does not
\* answer, or an error of the temporary file: nothing has changed.
AbandonReplace(t) ==
  /\ \/ At(t, "compare") /\ ~(RevisionExpected(t) /\ Resolves(th[t].content.content))
     \/ At(t, "write")
  /\ LeaveReplace(t)
  /\ UNCHANGED <<file, key, keysMade, tokens, snap, observed, reloadError,
                 selected, missed, requests, edits, losses, crashes,
                 browser, history>>

ReplaceFile(t) ==
  /\ file' = [stamp |-> file.stamp + 1, content |-> th[t].content.content]
  /\ missed' = [MissedByReaders EXCEPT ![P(t)] = FALSE]
  /\ past' = past \cup {file.content}

\* os.replace, and what follows it, succeed.
WriteFile(t) ==
  /\ At(t, "write")
  /\ ReplaceFile(t)
  /\ th' = [th EXCEPT ![t].pc = "replaced", ![t].content = file']
  /\ UNCHANGED <<key, keysMade, tokens, flock, mutex, snap, observed,
                 reloadError, selected, requests, edits, losses, crashes, browser,
                 overtaken, behind>>

\* The file is replaced, but the directory cannot be synced: the administrator
\* is told that the edit failed.
WriteFileThenFail(t) ==
  /\ At(t, "write")
  /\ ReplaceFile(t)
  /\ LeaveReplace(t)
  /\ UNCHANGED <<key, keysMade, tokens, snap, observed, reloadError, selected,
                 requests, edits, losses, crashes, browser, overtaken, behind>>

PublishEdit(t) ==
  /\ At(t, "replaced")
  /\ snap' = [snap EXCEPT ![P(t)] = th[t].content]
  /\ observed' = [observed EXCEPT ![P(t)] = Signature]
  /\ reloadError' = [reloadError EXCEPT ![P(t)] = FALSE]
  /\ ShowPage(t, th[t].content.content)
  /\ LeaveReplace(t)
  /\ UNCHANGED <<file, key, keysMade, tokens, selected, missed, requests,
                 submits, edits, losses, crashes, history>>

-----------------------------------------------------------------------------
(* The operator of the host, and crashes.                                  *)

EditByHand ==
  /\ edits < MaxEdits
  /\ \E c \in Edits : file' = [stamp |-> file.stamp + 1, content |-> c]
  /\ missed' = MissedByReaders
  /\ past' = past \cup {file.content}
  /\ overtaken' = {t \in Threads : At(t, "write")}
  /\ edits' = edits + 1
  /\ UNCHANGED <<key, keysMade, tokens, flock, mutex, snap, observed,
                 reloadError, selected, th, requests, losses, crashes, browser,
                 behind>>

LoseKey ==
  /\ losses < MaxKeyLosses /\ key # 0
  /\ key' = 0
  /\ losses' = losses + 1
  /\ UNCHANGED <<file, keysMade, tokens, flock, mutex, snap, observed,
                 reloadError, selected, th, missed, requests, edits, crashes,
                 browser, history>>

\* The operator puts back the key of a backup.
RestoreKey ==
  /\ key = 0
  /\ \E k \in 1..keysMade : key' = k
  /\ UNCHANGED <<file, keysMade, tokens, flock, mutex, snap, observed,
                 reloadError, selected, th, missed, requests, edits, losses,
                 crashes, browser, history>>

\* The kernel drops the locks of a process that dies.
Crash(p) ==
  /\ crashes < MaxCrashes /\ (Serving(p) \/ mutex[p] # None)
  /\ crashes' = crashes + 1
  /\ th' = [t \in Threads |-> IF P(t) = p THEN Idle ELSE th[t]]
  /\ flock' = (IF flock # None /\ ProcOf[flock] = p THEN None ELSE flock)
  /\ mutex' = [mutex EXCEPT ![p] = None]
  /\ snap' = [snap EXCEPT ![p] = None]
  /\ observed' = [observed EXCEPT ![p] = None]
  /\ reloadError' = [reloadError EXCEPT ![p] = FALSE]
  /\ missed' = [missed EXCEPT ![p] = FALSE]
  /\ UNCHANGED <<file, key, keysMade, tokens, selected, requests, edits, losses,
                 browser, history>>

-----------------------------------------------------------------------------

\* What a request does by itself once it has been accepted.
Progress(t) ==
  \/ Retrieved(t) \/ Answered(t) \/ Activated(t)
  \/ Snapshot(t) \/ ReadSnapshot(t) \/ PublishSnapshot(t)
  \/ RefuseReload(t) \/ RefuseBoot(t)
  \/ BuildCandidate(t) \/ RefuseEdit(t) \/ LockFile(t) \/ LockRegistry(t)
  \/ Compare(t) \/ AbandonReplace(t) \/ WriteFile(t) \/ WriteFileThenFail(t)
  \/ PublishEdit(t)

Request(t) == Chat(t) \/ ActivateModel(t) \/ ViewModels(t) \/ SubmitEdit(t)

Next ==
  \/ \E t \in Threads : Progress(t) \/ Request(t) \/ Boot(t)
  \/ EditByHand \/ LoseKey \/ RestoreKey
  \/ \E p \in Procs : Crash(p)

Spec == Init /\ [][Next]_vars

\* The kernel and the interpreter run every thread that can go on; a request
\* is never owed, and neither is a start, an edit by hand or a crash.
FairSpec == Spec /\ \A t \in Threads : WF_vars(Progress(t))

-----------------------------------------------------------------------------
(* Properties.                                                             *)

\* A process never goes back to an older version of the file while it runs:
\* reading, publishing and replacing are one critical section of the mutex.
SnapshotsMoveForward ==
  [][\A p \in Procs : snap[p] # None /\ snap'[p] # None
                        => snap[p].stamp <= snap'[p].stamp]_vars

\* What a process serves has been in the file: a snapshot of the version the
\* file is at has the content of the file, an edit that could not be written
\* is served by no one.
ServesTheFile ==
  \A p \in Procs : Serving(p) /\ snap[p].stamp = file.stamp
                     => snap[p].content = file.content

\* A process that has seen the signature of the file, and reports no refused
\* reload, serves the file as it is, unless a write fell between its read and
\* the stat it published with.
StaleOnlyIfMissed ==
  \A p \in Procs :
    Serving(p) /\ mutex[p] = None /\ observed[p] = Signature /\ ~reloadError[p]
      => snap[p].stamp = file.stamp \/ missed[p]

\* The file that a successful edit leaves is the one it replaced with that one
\* edit made: nothing another administrator or operator did is undone.  Three
\* ways remain: the file is back at a content it had before, which its hash does
\* not tell from no edit; an operator's edit, which takes no lock, came between
\* the comparison and the replacement; or the page is another process's, and the
\* process that makes the edit starts from an older file, since it has missed a
\* write or refused to load what was written.
EditsAreNotLost ==
  [][\A t \in Threads \ (overtaken \cup behind) :
       At(t, "write") /\ ~At(t, "write")' /\ file' # file /\ file.content \notin past
         => /\ file.content # Broken
            /\ file'.content = Edited(th[t].op, file.content, th[t].token)]_vars

\* Every accepted request is answered: the file lock and the mutexes are taken
\* in one order and are given back on every path.
RequestsFinish ==
  \A t \in Threads : ~At(t, "idle") ~> At(t, "idle")

\* Claimed by the comment on active_endpoint_context: all calls of a request
\* use the same endpoint snapshot.
OneEndpointPerRequest ==
  \A t \in Threads : At(t, "generate") => th[t].used = th[t].pinned

=============================================================================
