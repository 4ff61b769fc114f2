------------------------------- MODULE Polling -------------------------------
(* The documents the browser shows, and the polling that keeps them fresh:    *)
(* static/js/polling-service.js, the document operations of app-controller.js *)
(* and the views of main.js that stop and restart it.                         *)
(*                                                                            *)
(* JavaScript runs one callback at a time; between an await and its           *)
(* continuation anything may happen, and answers of different requests arrive *)
(* in any order.  A request is therefore two steps of the world - the server  *)
(* reads, the answer arrives - and the continuation is one action.            *)
EXTENDS Naturals, FiniteSets

CONSTANTS
  Docs,          \* ids of documents
  Loops,         \* places for polling loops of one document
  Loads,         \* places for list requests in flight
  None,
  MaxRebuilds    \* bound: rebuilds of a document the server begins

ASSUME PollingAssumption == Docs # {} /\ None \notin Loops /\ MaxRebuilds \in Nat

VARIABLES
  server,     \* status of each document at the server
  shown,      \* state.documents: status of each document on the page
  tasks,      \* PollingService.tasks: the loop started last for each document
  loops,      \* what each loop waits for
  loads,      \* listDocuments requests in flight
  upload,     \* the file uploadDocuments is at
  deletion,   \* the request of deleteDocument
  paused,     \* PollingService.paused: the tab is hidden
  view,       \* the workspace, the administration, or that with workspaceNeedsRefresh
  adrift,     \* history: why a document shown as active is not polled
  rebuilds    \* counter of the bound

page == <<shown, tasks, loops, adrift>>
requests == <<loads, upload, deletion>>
screen == <<paused, view>>
world == <<server, rebuilds>>
vars == <<page, requests, screen, world>>

------------------------------------------------------------------------------
\* uploaded and processing are active; indexed and failed are settled.
Shown == {"absent", "active", "settled"}
Stored == {"none", "active", "settled", "gone"}
\* A loop waits for its timer, for the server to read, or for the answer to arrive.
LoopState == {"free", "timer", "asked", "active", "settled", "error"}
Load == [step: {"none", "asked", "read"}, list: [Docs -> Shown]]
Upload == [step: {"none", "posted", "asked", "active", "settled"}, doc: Docs]
Deletion == [step: {"none", "asked", "done"}, doc: Docs]
Causes == {"no", "failed", "closed", "overtaken"}

ADoc == CHOOSE d \in Docs : TRUE
NoLoad == [step |-> "none", list |-> [d \in Docs |-> "absent"]]

Listed(d) == IF server[d] \in {"active", "settled"} THEN server[d] ELSE "absent"
\* getDocument: an unknown document is a 404, and any request may fail.
Answers(d) == {"error"} \cup ({server[d]} \cap {"active", "settled"})

\* PollingService.stop: clears the timer the task holds now and forgets the task; a
\* loop whose request is in flight goes on.
Cleared(d) == [l \in Loops |-> IF l = tasks[d] /\ loops[d][l] = "timer"
                                 THEN "free" ELSE loops[d][l]]
FreeLoops(d) == {l \in Loops : Cleared(d)[l] = "free"}

\* Variant: the list is polled again only where nothing is polled yet.
ToRestartNew(d, list) == list[d] = "active" /\ tasks[d] = None

\* syncPolling: what startPolling is called for after stopAll.
ToRestart(d, list) == list[d] = "active"

\* start: a timer of a new task.
NewLoop(d) == CHOOSE l \in FreeLoops(d) : TRUE
Started(d) == [Cleared(d) EXCEPT ![NewLoop(d)] = "timer"]

StopAll(cause) ==
  /\ loops' = [d \in Docs |-> Cleared(d)]
  /\ tasks' = [d \in Docs |-> None]
  /\ adrift' = [d \in Docs |-> IF tasks[d] = None THEN adrift[d] ELSE cause]

\* Variant: a hidden tab ends the loop.
AtTickHidden(d) == IF tasks[d] = None \/ paused THEN "free" ELSE "asked"

\* tick: ends without a task, waits again in a hidden tab, asks otherwise.
AtTick(d) == IF tasks[d] = None THEN "free" ELSE IF paused THEN "timer" ELSE "asked"

Tick(d, l) ==
  /\ loops[d][l] = "timer"
  /\ loops' = [loops EXCEPT ![d][l] = AtTick(d)]
  /\ UNCHANGED <<shown, tasks, adrift, requests, screen, world>>

Read(d, l) ==
  /\ loops[d][l] = "asked"
  /\ \E a \in Answers(d) : loops' = [loops EXCEPT ![d][l] = a]
  /\ UNCHANGED <<shown, tasks, adrift, requests, screen, world>>

\* Variant: the callback of startPolling asks again after a failure.
GoesOnAnyway(answer) == answer # "settled"

\* The callback of startPolling returns true.
GoesOn(answer) == answer = "active"

\* The callback and the finally branch of tick.  A loop that goes on reschedules
\* itself if its document has any task; one that ends stops whatever task it has.
Arrive(d, l) ==
  LET answer == loops[d][l] IN
  /\ answer \in {"active", "settled", "error"}
  /\ shown' = IF answer = "error" THEN shown ELSE [shown EXCEPT ![d] = answer]
  /\ IF GoesOn(answer) /\ tasks[d] # None
       THEN /\ loops' = [loops EXCEPT ![d][l] = "timer"]
            /\ UNCHANGED <<tasks, adrift>>
       ELSE /\ loops' = [loops EXCEPT ![d] = [Cleared(d) EXCEPT ![l] = "free"]]
            /\ tasks' = [tasks EXCEPT ![d] = None]
            /\ adrift' = [adrift EXCEPT ![d] = IF answer = "error" THEN "failed"
                                               ELSE IF answer = "active" THEN "overtaken"
                                               ELSE @]
  /\ UNCHANGED <<requests, screen, world>>

------------------------------------------------------------------------------
(* loadDocuments.  The button is disabled while a list is loading, but the       *)
(* notification of a failed poll offers to refresh as well, so two may overlap.  *)
(* A request that fails leaves the page as it is: it ends at once.               *)
Refresh(i) ==
  /\ view = "workspace" /\ loads[i].step = "none"
  /\ loads' = [loads EXCEPT ![i].step = "asked"]
  /\ UNCHANGED <<page, upload, deletion, screen, world>>

ReadList(i) ==
  /\ loads[i].step = "asked"
  /\ \/ loads' = [loads EXCEPT ![i] = [step |-> "read", list |-> [d \in Docs |-> Listed(d)]]]
     \/ loads' = [loads EXCEPT ![i] = NoLoad]
  /\ UNCHANGED <<page, upload, deletion, screen, world>>

\* The whole list replaces what is shown, and syncPolling starts over.
ListArrives(i) ==
  LET list == loads[i].list IN
  /\ loads[i].step = "read"
  /\ \A d \in Docs : ToRestart(d, list) => FreeLoops(d) # {}
  /\ shown' = list
  /\ loops' = [d \in Docs |-> IF ToRestart(d, list) THEN Started(d) ELSE Cleared(d)]
  /\ tasks' = [d \in Docs |-> IF ToRestart(d, list) THEN NewLoop(d) ELSE None]
  /\ adrift' = [d \in Docs |-> IF ToRestart(d, list) THEN "no" ELSE adrift[d]]
  /\ loads' = [loads EXCEPT ![i] = NoLoad]
  /\ UNCHANGED <<upload, deletion, screen, world>>

------------------------------------------------------------------------------
(* uploadDocuments, one file: the upload, then the document's summary.          *)
StartUpload(d) ==
  /\ view = "workspace" /\ upload.step = "none" /\ server[d] = "none"
  /\ upload' = [step |-> "posted", doc |-> d]
  /\ UNCHANGED <<page, loads, deletion, screen, world>>

\* The server stores the document or refuses, and the answer may be lost; once it
\* arrives, the page asks for the document.
Store ==
  /\ upload.step = "posted"
  /\ \/ /\ server[upload.doc] = "none"
        /\ server' = [server EXCEPT ![upload.doc] = "active"]
        /\ \E step \in {"asked", "none"} : upload' = [upload EXCEPT !.step = step]
     \/ upload' = [upload EXCEPT !.step = "none"] /\ UNCHANGED server
  /\ UNCHANGED <<page, loads, deletion, screen, rebuilds>>

ReadSummary ==
  /\ upload.step = "asked"
  /\ \E a \in Answers(upload.doc) :
       upload' = [upload EXCEPT !.step = IF a = "error" THEN "none" ELSE a]
  /\ UNCHANGED <<page, loads, deletion, screen, world>>

SummaryArrives ==
  LET d == upload.doc IN
  /\ upload.step \in {"active", "settled"} /\ FreeLoops(d) # {}
  /\ shown' = [shown EXCEPT ![d] = upload.step]
  /\ loops' = [loops EXCEPT ![d] = Started(d)]
  /\ tasks' = [tasks EXCEPT ![d] = NewLoop(d)]
  /\ adrift' = [adrift EXCEPT ![d] = "no"]
  /\ upload' = [upload EXCEPT !.step = "none"]
  /\ UNCHANGED <<loads, deletion, screen, world>>

(* deleteDocument.                                                              *)
StartDeletion(d) ==
  /\ view = "workspace" /\ deletion.step = "none" /\ shown[d] = "settled"
  /\ deletion' = [step |-> "asked", doc |-> d]
  /\ UNCHANGED <<page, loads, upload, screen, world>>

\* The server refuses an active or unknown document.
Delete ==
  /\ deletion.step = "asked"
  /\ \/ /\ server[deletion.doc] = "settled"
        /\ server' = [server EXCEPT ![deletion.doc] = "gone"]
        /\ \E step \in {"done", "none"} : deletion' = [deletion EXCEPT !.step = step]
     \/ deletion' = [deletion EXCEPT !.step = "none"] /\ UNCHANGED server
  /\ UNCHANGED <<page, loads, upload, screen, rebuilds>>

DeletionArrives ==
  LET d == deletion.doc IN
  /\ deletion.step = "done"
  /\ loops' = [loops EXCEPT ![d] = Cleared(d)]
  /\ tasks' = [tasks EXCEPT ![d] = None]
  /\ shown' = [shown EXCEPT ![d] = "absent"]
  /\ deletion' = [deletion EXCEPT !.step = "none"]
  /\ UNCHANGED <<adrift, loads, upload, screen, world>>

------------------------------------------------------------------------------
(* Views and visibility.                                                        *)
Hide == /\ ~paused /\ paused' = TRUE
        /\ UNCHANGED <<page, requests, view, world>>
Reveal == /\ paused /\ paused' = FALSE
          /\ UNCHANGED <<page, requests, view, world>>

OpenAdmin ==
  /\ view = "workspace" /\ view' = "admin"
  /\ StopAll("closed")
  /\ UNCHANGED <<shown, requests, paused, world>>

\* A preset with another chunking: the server rebuilds what is indexed.
ActivatePreset ==
  /\ view # "workspace" /\ rebuilds < MaxRebuilds
  /\ view' = "changed" /\ rebuilds' = rebuilds + 1
  /\ server' = [d \in Docs |-> IF server[d] = "settled" THEN "active" ELSE server[d]]
  /\ UNCHANGED <<page, requests, paused>>

CloseAdmin ==
  /\ view = "admin" /\ view' = "workspace"
  /\ UNCHANGED <<page, requests, paused, world>>

\* The page is loaded anew: by closeAdmin, a lost login or the user.
Reload ==
  /\ shown' = [d \in Docs |-> "absent"]
  /\ tasks' = [d \in Docs |-> None]
  /\ loops' = [d \in Docs |-> [l \in Loops |-> "free"]]
  /\ adrift' = [d \in Docs |-> "no"]
  /\ \E i \in Loads : loads' = [j \in Loads |-> IF j = i THEN [NoLoad EXCEPT !.step = "asked"]
                                                         ELSE NoLoad]
  /\ upload' = [step |-> "none", doc |-> ADoc] /\ deletion' = [step |-> "none", doc |-> ADoc]
  /\ view' = "workspace" /\ paused' = FALSE
  /\ UNCHANGED world

(* The server, seen from the page: a document is indexed, rebuilt for another   *)
(* administrator, or uploaded and deleted in another tab.                       *)
Settle(d) ==
  /\ server[d] = "active" /\ server' = [server EXCEPT ![d] = "settled"]
  /\ UNCHANGED <<page, requests, screen, rebuilds>>

Elsewhere(d) ==
  /\ \/ server[d] = "none" /\ server' = [server EXCEPT ![d] = "active"]
        /\ UNCHANGED rebuilds
     \/ server[d] = "settled" /\ server' = [server EXCEPT ![d] = "gone"]
        /\ UNCHANGED rebuilds
     \/ /\ server[d] = "settled" /\ rebuilds < MaxRebuilds
        /\ server' = [server EXCEPT ![d] = "active"] /\ rebuilds' = rebuilds + 1
  /\ UNCHANGED <<page, requests, screen>>

------------------------------------------------------------------------------
\* controller.start() has asked for the list.
Init ==
  /\ server \in [Docs -> {"none", "active", "settled"}]
  /\ shown = [d \in Docs |-> "absent"] /\ tasks = [d \in Docs |-> None]
  /\ loops = [d \in Docs |-> [l \in Loops |-> "free"]]
  /\ \E i \in Loads : loads = [j \in Loads |-> IF j = i THEN [NoLoad EXCEPT !.step = "asked"]
                                                        ELSE NoLoad]
  /\ upload = [step |-> "none", doc |-> ADoc] /\ deletion = [step |-> "none", doc |-> ADoc]
  /\ paused = FALSE /\ view = "workspace"
  /\ adrift = [d \in Docs |-> "no"] /\ rebuilds = 0

\* What goes on by itself: timers, the network and the server.
Network ==
  \/ \E i \in Loads : ReadList(i) \/ ListArrives(i)
  \/ Store \/ ReadSummary \/ SummaryArrives
  \/ Delete \/ DeletionArrives

Poll(d, l) == Tick(d, l) \/ Read(d, l) \/ Arrive(d, l)

\* What users do.
Use ==
  \/ \E i \in Loads : Refresh(i)
  \/ \E d \in Docs : StartUpload(d) \/ StartDeletion(d) \/ Elsewhere(d)
  \/ Hide \/ Reveal \/ OpenAdmin \/ ActivatePreset \/ CloseAdmin \/ Reload

Next ==
  \/ \E d \in Docs, l \in Loops : Poll(d, l)
  \/ Network
  \/ \E d \in Docs : Settle(d)
  \/ Use

Spec == Init /\ [][Next]_vars

\* Timers fire, the network answers or fails, and the server settles a document
\* (Indexing!DocumentsSettle).
FairSpec ==
  /\ Spec
  /\ \A d \in Docs : WF_vars(Settle(d)) /\ \A l \in Loops : WF_vars(Poll(d, l))
  /\ \A i \in Loads : WF_vars(ReadList(i) \/ ListArrives(i))
  /\ WF_vars(Store \/ ReadSummary \/ SummaryArrives)
  /\ WF_vars(Delete \/ DeletionArrives)

------------------------------------------------------------------------------
\* Every variable keeps its type.
TypeOK ==
  /\ server \in [Docs -> Stored] /\ shown \in [Docs -> Shown]
  /\ tasks \in [Docs -> Loops \cup {None}] /\ loops \in [Docs -> [Loops -> LoopState]]
  /\ loads \in [Loads -> Load]
  /\ upload \in Upload /\ deletion \in Deletion
  /\ paused \in BOOLEAN /\ view \in {"workspace", "admin", "changed"}
  /\ adrift \in [Docs -> Causes] /\ rebuilds \in 0..MaxRebuilds

\* A document shown as active has a loop that is alive, whatever overlaps: refreshes,
\* uploads and deletions, loops that were replaced while they waited.  Three things end
\* its polling, and adrift names them: a failed poll, the administration view, and an
\* old answer that arrives after a newer one (polling-service.js:12, 29).
ActiveIsPolled ==
  \A d \in Docs : shown[d] = "active" =>
    \/ tasks[d] # None /\ loops[d][tasks[d]] # "free"
    \/ adrift[d] # "no"

\* A document shown as active ends up settled or removed on the page, in a tab that
\* stays visible, unless its polling was ended for one of those reasons.
ActiveIsRefreshed ==
  \A d \in Docs : (shown[d] = "active" /\ adrift[d] = "no")
                    ~> (shown[d] # "active" \/ adrift[d] # "no" \/ paused)

\* Polling ends: loops that overlap, or whose document is gone, do not go on for ever
\* once the server is done (polling-service.js:29).
PollingEnds ==
  []<>paused \/ <>[](\A d \in Docs, l \in Loops : loops[d][l] = "free")

\* The comment above startPolling (app-controller.js:512): a document is polled until it
\* is final or a request fails.
PolledUntilFinal ==
  \A d \in Docs : shown[d] = "active"
                    ~> (shown[d] # "active" \/ adrift[d] = "failed" \/ paused)

==============================================================================
