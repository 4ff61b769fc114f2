---------------------------- MODULE PollingProofs ----------------------------
(* The page's documents have their types, and what is shown as active is      *)
(* polled, for every number of documents, loops and list requests.            *)
EXTENDS Polling, TLAPS

\* A task that the service holds has a loop that is alive: it waits for its timer or
\* for an answer (polling-service.js:12).  Only a loop that ends frees itself, and it
\* takes the task of its document along, whoever holds it.
TasksAreAlive == \A d \in Docs : tasks[d] # None => loops[d][tasks[d]] # "free"

\* What is shown as active has a task, or the reason why it has none.
ActiveHasTask ==
  \A d \in Docs : shown[d] = "active" => tasks[d] # None \/ adrift[d] # "no"

PageOK ==
  /\ server \in [Docs -> Stored] /\ shown \in [Docs -> Shown]
  /\ tasks \in [Docs -> Loops \cup {None}] /\ loops \in [Docs -> [Loops -> LoopState]]
  /\ adrift \in [Docs -> Causes] /\ rebuilds \in 0..MaxRebuilds

RequestsOK == loads \in [Loads -> Load] /\ upload \in Upload /\ deletion \in Deletion

ScreenOK == paused \in BOOLEAN /\ view \in {"workspace", "admin", "changed"}

IInv == PageOK /\ RequestsOK /\ ScreenOK /\ TasksAreAlive /\ ActiveHasTask

------------------------------------------------------------------------------
\* Clearing the timer of a document's task leaves states of loops, frees no loop but
\* that one, and leaves a free place for a new loop where there is one.
LEMMA ClearedType ==
  ASSUME PageOK, NEW d \in Docs
  PROVE  Cleared(d) \in [Loops -> LoopState]
BY DEF PageOK, Cleared, LoopState

LEMMA StartedType ==
  ASSUME PageOK, NEW d \in Docs, FreeLoops(d) # {}
  PROVE  /\ NewLoop(d) \in Loops
         /\ NewLoop(d) # None
         /\ Started(d) \in [Loops -> LoopState]
         /\ Started(d)[NewLoop(d)] = "timer"
<1>1. NewLoop(d) \in FreeLoops(d)
  BY DEF NewLoop
<1>2. NewLoop(d) \in Loops
  BY <1>1 DEF FreeLoops
<1>3. Cleared(d) \in [Loops -> LoopState]
  BY ClearedType
<1> QED
  BY <1>2, <1>3, PollingAssumption DEF Started, LoopState

LEMMA NoLoadType ==
  /\ NoLoad \in Load
  /\ [NoLoad EXCEPT !.step = "asked"] \in Load
BY DEF NoLoad, Load, Shown

\* The page is loaded for the first time.
LEMMA InitIInv == Init => IInv
<1> SUFFICES ASSUME Init PROVE IInv
  OBVIOUS
<1>1. PageOK
  BY PollingAssumption DEF Init, PageOK, Stored, Shown, LoopState, Causes
<1>2. ScreenOK
  BY DEF Init, ScreenOK
<1>3. RequestsOK
  <2>1. loads \in [Loads -> Load]
    BY NoLoadType DEF Init
  <2>2. ADoc \in Docs
    BY PollingAssumption DEF ADoc
  <2> QED BY <2>1, <2>2 DEF Init, RequestsOK, Upload, Deletion
<1>4. TasksAreAlive /\ ActiveHasTask
  BY DEF Init, TasksAreAlive, ActiveHasTask
<1> QED BY <1>1, <1>2, <1>3, <1>4 DEF IInv


------------------------------------------------------------------------------
\* A tick frees only a loop whose document has no task.
LEMMA TickStep ==
  ASSUME IInv, NEW d \in Docs, NEW l \in Loops, Tick(d, l)
  PROVE  IInv'
<1>1. AtTick(d) \in LoopState /\ (tasks[d] # None => AtTick(d) # "free")
  BY DEF AtTick, LoopState
<1>2. loops \in [Docs -> [Loops -> LoopState]]
  BY DEF IInv, PageOK
<1>3. loops' = [loops EXCEPT ![d] = [loops[d] EXCEPT ![l] = AtTick(d)]]
  BY DEF Tick
<1>4. [loops[d] EXCEPT ![l] = AtTick(d)] \in [Loops -> LoopState]
  BY <1>1, <1>2
<1>5. PageOK'
  BY <1>2, <1>3, <1>4 DEF Tick, IInv, PageOK, world
<1>6. TasksAreAlive'
  BY <1>1, <1>2, <1>3 DEF Tick, IInv, TasksAreAlive, PageOK
<1> QED
  BY <1>5, <1>6 DEF Tick, IInv, RequestsOK, ScreenOK, ActiveHasTask, requests, screen

LEMMA ReadStep ==
  ASSUME IInv, NEW d \in Docs, NEW l \in Loops, Read(d, l)
  PROVE  IInv'
<1>1. PICK a \in Answers(d) : loops' = [loops EXCEPT ![d][l] = a]
  BY DEF Read
<1>2. a \in LoopState /\ a # "free"
  BY DEF Answers, LoopState
<1>3. loops \in [Docs -> [Loops -> LoopState]]
  BY DEF IInv, PageOK
<1>4. loops' = [loops EXCEPT ![d] = [loops[d] EXCEPT ![l] = a]]
  BY <1>1
<1>5. [loops[d] EXCEPT ![l] = a] \in [Loops -> LoopState]
  BY <1>2, <1>3
<1>6. PageOK'
  BY <1>3, <1>4, <1>5 DEF Read, IInv, PageOK, world
<1>7. TasksAreAlive'
  BY <1>2, <1>3, <1>4 DEF Read, IInv, TasksAreAlive, PageOK
<1> QED
  BY <1>6, <1>7 DEF Read, IInv, RequestsOK, ScreenOK, ActiveHasTask, requests, screen

\* A loop that ends takes the task of its document along, its own or a newer one.
LEMMA ArriveStep ==
  ASSUME IInv, NEW d \in Docs, NEW l \in Loops, Arrive(d, l)
  PROVE  IInv'
<1> DEFINE answer == loops[d][l]
<1>1. /\ loops \in [Docs -> [Loops -> LoopState]] /\ shown \in [Docs -> Shown]
      /\ tasks \in [Docs -> Loops \cup {None}] /\ adrift \in [Docs -> Causes]
  BY DEF IInv, PageOK
<1>2. /\ answer \in {"active", "settled", "error"}
      /\ shown' = IF answer = "error" THEN shown ELSE [shown EXCEPT ![d] = answer]
      /\ UNCHANGED <<requests, screen, world>>
  BY DEF Arrive
<1>3. shown' \in [Docs -> Shown]
  BY <1>1, <1>2 DEF Shown
<1>4. CASE GoesOn(answer) /\ tasks[d] # None
  <2>1. loops' = [loops EXCEPT ![d] = [loops[d] EXCEPT ![l] = "timer"]]
        /\ UNCHANGED <<tasks, adrift>>
    BY <1>4 DEF Arrive
  <2>2. [loops[d] EXCEPT ![l] = "timer"] \in [Loops -> LoopState]
    BY <1>1 DEF LoopState
  <2>3. PageOK'
    BY <1>1, <1>2, <1>3, <2>1, <2>2 DEF IInv, PageOK, world
  <2>4. TasksAreAlive'
    BY <1>1, <2>1 DEF IInv, TasksAreAlive
  <2>5. ActiveHasTask'
    BY <1>1, <1>2, <1>4, <2>1 DEF IInv, ActiveHasTask
  <2> QED BY <1>2, <2>3, <2>4, <2>5 DEF IInv, RequestsOK, ScreenOK, requests, screen
<1>5. CASE ~(GoesOn(answer) /\ tasks[d] # None)
  <2>1. /\ loops' = [loops EXCEPT ![d] = [Cleared(d) EXCEPT ![l] = "free"]]
        /\ tasks' = [tasks EXCEPT ![d] = None]
        /\ adrift' = [adrift EXCEPT ![d] = IF answer = "error" THEN "failed"
                                           ELSE IF answer = "active" THEN "overtaken"
                                           ELSE adrift[d]]
    BY <1>5 DEF Arrive
  <2>2. Cleared(d) \in [Loops -> LoopState]
    BY ClearedType DEF IInv
  <2>3. [Cleared(d) EXCEPT ![l] = "free"] \in [Loops -> LoopState]
    BY <2>2 DEF LoopState
  <2>4. tasks' \in [Docs -> Loops \cup {None}] /\ adrift' \in [Docs -> Causes]
    BY <1>1, <2>1 DEF Causes
  <2>5. loops' \in [Docs -> [Loops -> LoopState]]
    BY <1>1, <2>1, <2>3
  <2>6. PageOK'
    BY <1>2, <1>3, <2>4, <2>5 DEF IInv, PageOK, world
  <2>7. TasksAreAlive'
    BY <1>1, <2>1 DEF IInv, TasksAreAlive
  \* what is shown as active without a task is so because of this answer, or was before
  <2>8. ActiveHasTask'
    <3> SUFFICES ASSUME NEW e \in Docs, shown'[e] = "active"
                 PROVE  tasks'[e] # None \/ adrift'[e] # "no"
      BY DEF ActiveHasTask
    <3>1. CASE e # d
      <4>1. shown'[e] = shown[e] /\ tasks'[e] = tasks[e] /\ adrift'[e] = adrift[e]
        BY <1>1, <1>2, <2>1, <3>1
      <4> QED BY <4>1 DEF IInv, ActiveHasTask
    <3>2. CASE e = d
      <4>1. CASE answer = "error"
        BY <1>1, <2>1, <3>2, <4>1
      <4>2. CASE answer = "active"
        BY <1>1, <2>1, <3>2, <4>2
      <4>3. CASE answer = "settled"
        BY <1>1, <1>2, <3>2, <4>3
      <4> QED BY <1>2, <4>1, <4>2, <4>3
    <3> QED BY <3>1, <3>2
  <2> QED BY <1>2, <2>6, <2>7, <2>8 DEF IInv, RequestsOK, ScreenOK, requests, screen
<1> QED BY <1>4, <1>5

------------------------------------------------------------------------------
\* The list starts a loop for every document it shows as active.
LEMMA ListArrivesStep ==
  ASSUME IInv, NEW i \in Loads, ListArrives(i)
  PROVE  IInv'
<1> DEFINE list == loads[i].list
<1>1. loads[i] \in Load /\ list \in [Docs -> Shown]
  BY DEF IInv, RequestsOK, Load
<1>2. /\ \A d \in Docs : ToRestart(d, list) => FreeLoops(d) # {}
      /\ shown' = list
      /\ loops' = [d \in Docs |-> IF ToRestart(d, list) THEN Started(d) ELSE Cleared(d)]
      /\ tasks' = [d \in Docs |-> IF ToRestart(d, list) THEN NewLoop(d) ELSE None]
      /\ adrift' = [d \in Docs |-> IF ToRestart(d, list) THEN "no" ELSE adrift[d]]
      /\ loads' = [loads EXCEPT ![i] = NoLoad]
      /\ UNCHANGED <<upload, deletion, screen, world>>
  BY DEF ListArrives
<1> HIDE DEF list
<1>3. \A d \in Docs :
        /\ Cleared(d) \in [Loops -> LoopState]
        /\ ToRestart(d, list) => /\ NewLoop(d) \in Loops
                                 /\ NewLoop(d) # None
                                 /\ Started(d) \in [Loops -> LoopState]
                                 /\ Started(d)[NewLoop(d)] = "timer"
  BY <1>2, ClearedType, StartedType DEF IInv
<1>4. loops' \in [Docs -> [Loops -> LoopState]] /\ tasks' \in [Docs -> Loops \cup {None}]
  BY <1>2, <1>3
<1>5. adrift' \in [Docs -> Causes]
  BY <1>2 DEF IInv, PageOK, Causes
<1>6. PageOK'
  BY <1>1, <1>2, <1>4, <1>5 DEF IInv, PageOK, world
<1>7. RequestsOK'
  BY <1>2, NoLoadType DEF IInv, RequestsOK
<1>8. TasksAreAlive'
  BY <1>2, <1>3 DEF TasksAreAlive
<1>9. ActiveHasTask'
  BY <1>2, <1>3 DEF ActiveHasTask, ToRestart
<1> QED BY <1>2, <1>6, <1>7, <1>8, <1>9 DEF IInv, ScreenOK, screen

LEMMA SummaryArrivesStep ==
  ASSUME IInv, SummaryArrives
  PROVE  IInv'
<1> DEFINE d == upload.doc
<1>1. d \in Docs /\ upload \in Upload /\ upload.step \in {"active", "settled"}
  BY DEF IInv, RequestsOK, Upload, SummaryArrives
<1>2. /\ FreeLoops(d) # {}
      /\ shown' = [shown EXCEPT ![d] = upload.step]
      /\ loops' = [loops EXCEPT ![d] = Started(d)]
      /\ tasks' = [tasks EXCEPT ![d] = NewLoop(d)]
      /\ adrift' = [adrift EXCEPT ![d] = "no"]
      /\ upload' = [upload EXCEPT !.step = "none"]
      /\ UNCHANGED <<loads, deletion, screen, world>>
  BY DEF SummaryArrives
<1> HIDE DEF d
<1>3. /\ NewLoop(d) \in Loops /\ NewLoop(d) # None
      /\ Started(d) \in [Loops -> LoopState] /\ Started(d)[NewLoop(d)] = "timer"
  BY <1>1, <1>2, StartedType DEF IInv
<1>4. PageOK'
  BY <1>1, <1>2, <1>3 DEF IInv, PageOK, Shown, Causes, world
<1>5. RequestsOK'
  BY <1>1, <1>2 DEF IInv, RequestsOK, Upload
<1>6. TasksAreAlive'
  BY <1>1, <1>2, <1>3 DEF IInv, PageOK, TasksAreAlive
<1>7. ActiveHasTask'
  BY <1>1, <1>2, <1>3 DEF IInv, PageOK, ActiveHasTask
<1> QED BY <1>2, <1>4, <1>5, <1>6, <1>7 DEF IInv, ScreenOK, screen

LEMMA DeletionArrivesStep ==
  ASSUME IInv, DeletionArrives
  PROVE  IInv'
<1> DEFINE d == deletion.doc
<1>1. d \in Docs /\ deletion \in Deletion
  BY DEF IInv, RequestsOK, Deletion
<1>2. /\ loops' = [loops EXCEPT ![d] = Cleared(d)]
      /\ tasks' = [tasks EXCEPT ![d] = None]
      /\ shown' = [shown EXCEPT ![d] = "absent"]
      /\ deletion' = [deletion EXCEPT !.step = "none"]
      /\ UNCHANGED <<adrift, loads, upload, screen, world>>
  BY DEF DeletionArrives
<1> HIDE DEF d
<1>3. Cleared(d) \in [Loops -> LoopState]
  BY <1>1, ClearedType DEF IInv
<1>4. PageOK'
  BY <1>1, <1>2, <1>3 DEF IInv, PageOK, Shown, world
<1>5. RequestsOK'
  BY <1>1, <1>2 DEF IInv, RequestsOK, Deletion
<1>6. TasksAreAlive'
  BY <1>1, <1>2 DEF IInv, PageOK, TasksAreAlive
<1>7. ActiveHasTask'
  BY <1>1, <1>2 DEF IInv, PageOK, ActiveHasTask
<1> QED BY <1>2, <1>4, <1>5, <1>6, <1>7 DEF IInv, ScreenOK, screen

\* The administration view stops every loop, and says so of every document it had.
LEMMA OpenAdminStep ==
  ASSUME IInv, OpenAdmin
  PROVE  IInv'
<1>1. /\ loops' = [d \in Docs |-> Cleared(d)]
      /\ tasks' = [d \in Docs |-> None]
      /\ adrift' = [d \in Docs |-> IF tasks[d] = None THEN adrift[d] ELSE "closed"]
      /\ view' = "admin"
      /\ UNCHANGED <<shown, requests, paused, world>>
  BY DEF OpenAdmin, StopAll
<1>2. \A d \in Docs : Cleared(d) \in [Loops -> LoopState]
  BY ClearedType DEF IInv
<1>3. PageOK'
  BY <1>1, <1>2 DEF IInv, PageOK, Causes, world
<1>4. TasksAreAlive' /\ ActiveHasTask'
  BY <1>1 DEF IInv, TasksAreAlive, ActiveHasTask
<1> QED BY <1>1, <1>3, <1>4 DEF IInv, RequestsOK, ScreenOK, requests

LEMMA ReloadStep ==
  ASSUME IInv, Reload
  PROVE  IInv'
<1>1. PageOK'
  BY DEF Reload, IInv, PageOK, Shown, LoopState, Causes, world
<1>2. loads' \in [Loads -> Load]
  BY NoLoadType DEF Reload
<1>3. ADoc \in Docs
  BY PollingAssumption DEF ADoc
<1>4. RequestsOK'
  BY <1>2, <1>3 DEF Reload, RequestsOK, Upload, Deletion
<1>5. ScreenOK' /\ TasksAreAlive' /\ ActiveHasTask'
  BY DEF Reload, ScreenOK, TasksAreAlive, ActiveHasTask
<1> QED BY <1>1, <1>4, <1>5 DEF IInv

------------------------------------------------------------------------------
\* The steps that leave the page alone: requests begin, the server reads and changes.
LEMMA RequestSteps ==
  ASSUME IInv,
         \/ \E i \in Loads : Refresh(i) \/ ReadList(i)
         \/ \E d \in Docs : StartUpload(d) \/ StartDeletion(d)
         \/ ReadSummary
  PROVE  IInv'
<1>1. UNCHANGED <<page, screen, world>> /\ RequestsOK'
  <2>1. ASSUME NEW i \in Loads, Refresh(i)
        PROVE  UNCHANGED <<page, screen, world>> /\ RequestsOK'
    <3>1. loads[i] \in Load
      BY DEF IInv, RequestsOK
    <3>2. [loads[i] EXCEPT !.step = "asked"] \in Load
      BY <3>1 DEF Load
    <3>3. loads' = [loads EXCEPT ![i] = [loads[i] EXCEPT !.step = "asked"]]
      BY <2>1 DEF Refresh
    <3> QED BY <2>1, <3>2, <3>3 DEF Refresh, IInv, RequestsOK
  <2>2. ASSUME NEW i \in Loads, ReadList(i)
        PROVE  UNCHANGED <<page, screen, world>> /\ RequestsOK'
    <3>1. [step |-> "read", list |-> [d \in Docs |-> Listed(d)]] \in Load
      BY DEF Load, Listed, Shown
    <3> QED BY <2>2, <3>1, NoLoadType DEF ReadList, IInv, RequestsOK
  <2>3. ASSUME NEW d \in Docs, StartUpload(d) \/ StartDeletion(d)
        PROVE  UNCHANGED <<page, screen, world>> /\ RequestsOK'
    BY <2>3 DEF StartUpload, StartDeletion, IInv, RequestsOK, Upload, Deletion
  <2>4. ASSUME ReadSummary
        PROVE  UNCHANGED <<page, screen, world>> /\ RequestsOK'
    BY <2>4 DEF ReadSummary, Answers, IInv, RequestsOK, Upload
  <2> QED BY <2>1, <2>2, <2>3, <2>4
<1> QED
  BY <1>1 DEF IInv, PageOK, ScreenOK, TasksAreAlive, ActiveHasTask, page, screen, world

LEMMA ServerSteps ==
  ASSUME IInv,
         \/ Store \/ Delete \/ ActivatePreset
         \/ \E d \in Docs : Settle(d) \/ Elsewhere(d)
         \/ Hide \/ Reveal \/ CloseAdmin
  PROVE  IInv'
<1>1. /\ UNCHANGED page /\ server' \in [Docs -> Stored] /\ rebuilds' \in 0..MaxRebuilds
      /\ RequestsOK' /\ ScreenOK'
  <2>1. server \in [Docs -> Stored] /\ rebuilds \in 0..MaxRebuilds /\ RequestsOK /\ ScreenOK
    BY DEF IInv, PageOK
  <2>2. ASSUME Store \/ Delete
        PROVE  /\ UNCHANGED page /\ server' \in [Docs -> Stored] /\ rebuilds' \in 0..MaxRebuilds
               /\ RequestsOK' /\ ScreenOK'
    BY <2>1, <2>2 DEF Store, Delete, Stored, RequestsOK, ScreenOK, Upload, Deletion, screen
  <2>3. ASSUME ActivatePreset
        PROVE  /\ UNCHANGED page /\ server' \in [Docs -> Stored] /\ rebuilds' \in 0..MaxRebuilds
               /\ RequestsOK' /\ ScreenOK'
    BY <2>1, <2>3, PollingAssumption
       DEF ActivatePreset, Stored, RequestsOK, ScreenOK, requests
  <2>4. ASSUME NEW d \in Docs, Settle(d) \/ Elsewhere(d)
        PROVE  /\ UNCHANGED page /\ server' \in [Docs -> Stored] /\ rebuilds' \in 0..MaxRebuilds
               /\ RequestsOK' /\ ScreenOK'
    BY <2>1, <2>4, PollingAssumption
       DEF Settle, Elsewhere, Stored, RequestsOK, ScreenOK, requests, screen
  <2>5. ASSUME Hide \/ Reveal \/ CloseAdmin
        PROVE  /\ UNCHANGED page /\ server' \in [Docs -> Stored] /\ rebuilds' \in 0..MaxRebuilds
               /\ RequestsOK' /\ ScreenOK'
    BY <2>1, <2>5 DEF Hide, Reveal, CloseAdmin, RequestsOK, ScreenOK, requests, world
  <2> QED BY <2>2, <2>3, <2>4, <2>5
<1> QED
  BY <1>1 DEF IInv, PageOK, TasksAreAlive, ActiveHasTask, page

LEMMA NextIInv ==
  ASSUME IInv, [Next]_vars
  PROVE  IInv'
<1>1. ASSUME NEW d \in Docs, NEW l \in Loops, Poll(d, l)
      PROVE  IInv'
  BY <1>1, TickStep, ReadStep, ArriveStep DEF Poll
<1>2. ASSUME Network
      PROVE  IInv'
  BY <1>2, RequestSteps, ServerSteps, ListArrivesStep, SummaryArrivesStep,
     DeletionArrivesStep DEF Network
<1>3. ASSUME Use
      PROVE  IInv'
  BY <1>3, RequestSteps, ServerSteps, OpenAdminStep, ReloadStep DEF Use
<1>4. ASSUME UNCHANGED vars
      PROVE  IInv'
  BY <1>4 DEF IInv, PageOK, RequestsOK, ScreenOK, TasksAreAlive, ActiveHasTask, vars, page,
              requests, screen, world
<1> QED BY <1>1, <1>2, <1>3, <1>4, ServerSteps DEF Next

\* The inductive invariant holds in every state of the page.
THEOREM Invariance == Spec => []IInv
<1>1. Init => IInv
  BY InitIInv
<1>2. IInv /\ [Next]_vars => IInv'
  BY NextIInv
<1> QED BY <1>1, <1>2, PTL DEF Spec

\* Every variable keeps its type.
THEOREM TypeCorrect == Spec => []TypeOK
<1>1. IInv => TypeOK
  BY DEF IInv, PageOK, RequestsOK, ScreenOK, TypeOK
<1> QED BY <1>1, Invariance, PTL

\* A document the page shows as active is polled by a loop that is alive, or one of the
\* three things that end its polling has happened (app-controller.js:513,
\* polling-service.js:12).
THEOREM ActiveStaysPolled == Spec => []ActiveIsPolled
<1>1. IInv => ActiveIsPolled
  BY DEF IInv, TasksAreAlive, ActiveHasTask, ActiveIsPolled
<1> QED BY <1>1, Invariance, PTL

==============================================================================
