---------------------------- MODULE Conversation -----------------------------
(* The conversation the browser shows: the chat operations of                 *)
(* static/js/app-controller.js, with the controls of views/chat-panel.js that *)
(* are disabled while one of them runs, and the retries that notifications    *)
(* offer, which nothing disables.                                             *)
(*                                                                            *)
(* As in Polling, a request is two steps of the world, and its continuation   *)
(* one action.  The text of an answer is left to AnswerStream.                *)
EXTENDS Naturals, Sequences, FiniteSets, SequencesExt

CONSTANTS
  Sessions,      \* chat sessions
  Scoped,        \* those whose scope is a document; the others ask all documents
  FirstLog,      \* the messages stored before the page is loaded
  None,
  PageSize,      \* messages of one page: 100 in the code
  Slots,         \* places for equal requests in flight
  MaxMessages,   \* bound: messages stored
  MaxUses        \* bound: what users do

ASSUME ConversationAssumption ==
  /\ None \notin Sessions /\ Scoped \subseteq Sessions /\ FirstLog \in Seq(Sessions)
  /\ PageSize \in Nat \ {0} /\ MaxUses \in Nat
  /\ MaxMessages \in Nat /\ Len(FirstLog) <= MaxMessages

VARIABLES
  log,        \* server: the session of each message, by message id
  status,     \* server: whether a session exists
  chats,      \* state.chatSessions
  active,     \* state.activeSessionId
  pane,       \* state.conversation
  hasOlder,   \* state.hasOlderMessages
  busy,       \* isLoadingConversation and isLoadingOlderMessages
  scope,      \* state.selectedDocumentId is the document of Scoped
  listing,    \* loadChatSessions
  selects,    \* requests of selectChatSession
  olders,     \* requests of loadOlderMessages
  deletion,   \* deleteConversation
  stream,     \* generateAnswer
  notice,     \* the retry that the notification offers
  late,       \* history: an answer was put into a pane it was not asked for
  awaited,    \* history: the session the user chose and has not been shown
  uses        \* counter of the bound

server == <<log, status>>
page == <<chats, active, pane, hasOlder, busy, scope, late, awaited>>
requests == <<listing, selects, olders, deletion, stream>>
vars == <<server, page, requests, notice, uses>>

------------------------------------------------------------------------------
\* Messages of the pane: stored ones have their id, the others were written here.
Item == [kind: {"stored", "local", "streaming", "error"}, id: Nat]
Own(kind) == [kind |-> kind, id |-> 0]
Page(ids) == [i \in DOMAIN ids |-> [kind |-> "stored", id |-> ids[i]]]
\* The places of the stored messages, and the messages with their places.
StoredAt(items) == {k \in DOMAIN items : items[k].kind = "stored"}
StoredPart(items) == {<<k, items[k].id>> : k \in StoredAt(items)}

MessagesOf(s) == {i \in DOMAIN log : log[i] = s}

\* list_messages: the newest messages below an id, oldest first, and whether there
\* are more.
Before(s, id) == {i \in MessagesOf(s) : i < id}
Newest(ids) == {i \in ids : Cardinality({j \in ids : j > i}) < PageSize}
InOrder(ids) ==
  CHOOSE q \in [1..Cardinality(ids) -> ids] : \A i, j \in DOMAIN q : i < j => q[i] < q[j]
PageBefore(s, id) == InOrder(Newest(Before(s, id)))
MoreBefore(s, id) == Cardinality(Before(s, id)) > PageSize
Top == Len(log) + 1

Live == {s \in Sessions : status[s] = "live"}

NoSelect == [step |-> "none", session |-> None, ids |-> << >>, more |-> FALSE, outer |-> "user"]
NoOlder == [step |-> "none", session |-> None, before |-> 0, ids |-> << >>, more |-> FALSE]
NoStream == [step |-> "none", original |-> None, session |-> None, messages |-> << >>]
NoNotice == [op |-> "none", session |-> None]

Generating == stream.step # "none"
\* renderSessionControls: the list of sessions and its buttons are disabled.
ControlsBusy ==
  \/ Generating \/ listing.step # "none" \/ deletion.step # "none"
  \/ busy.conversation \/ busy.older
Use == uses < MaxUses /\ uses' = uses + 1
Clicks(op) == notice.op = op /\ notice' = NoNotice

------------------------------------------------------------------------------
\* The pane is emptied for a session, or for a new conversation.
Empties(s) ==
  /\ active' = s /\ pane' = << >> /\ hasOlder' = FALSE /\ late' = FALSE

(* selectChatSession, up to its await.                                          *)
BeginSelect(i, s, outer) ==
  /\ selects[i].step = "none"
  /\ Empties(s) /\ busy' = [conversation |-> TRUE, older |-> FALSE] /\ awaited' = s
  /\ selects' = [selects EXCEPT ![i] = [NoSelect EXCEPT !.step = "asked", !.session = s,
                                                        !.outer = outer]]

Select(i, s) ==
  /\ Use /\ ~Generating
  /\ \/ ~ControlsBusy /\ s \in chats /\ UNCHANGED notice
     \/ notice.session = s /\ Clicks("select")
  /\ BeginSelect(i, s, "user")
  /\ UNCHANGED <<server, chats, scope, listing, olders, deletion, stream>>

ReadSelected(i) ==
  LET s == selects[i].session IN
  /\ selects[i].step = "asked"
  /\ selects' = [selects EXCEPT ![i] =
       IF s \notin Live THEN [@ EXCEPT !.step = "missing"]
       ELSE [@ EXCEPT !.step = "read", !.ids = PageBefore(s, Top), !.more = MoreBefore(s, Top)]]
  /\ UNCHANGED <<server, page, listing, olders, deletion, stream, notice, uses>>

SelectLost(i) ==
  /\ selects[i].step = "asked"
  /\ selects' = [selects EXCEPT ![i].step = "failed"]
  /\ UNCHANGED <<server, page, listing, olders, deletion, stream, notice, uses>>

\* finally: the flag falls, whichever load set it, and the caller goes on.
EndSelect(i) ==
  /\ busy' = [busy EXCEPT !.conversation = FALSE]
  /\ selects' = [selects EXCEPT ![i] = NoSelect]
  /\ listing' = IF selects[i].outer = "list" THEN [step |-> "none", chats |-> {}] ELSE listing
  /\ deletion' = IF selects[i].outer = "delete" THEN [step |-> "none", session |-> None] ELSE deletion
  /\ UNCHANGED <<server, olders, stream, uses>>

\* Variant: the answer is taken whatever was chosen since.
SupersededNever(s) == FALSE
\* Variant: a load whose flag has fallen is an old one.
SupersededByFlag(s) == active # s \/ ~busy.conversation

\* Another conversation was chosen while this one was loading.
Superseded(s) == active # s

SelectedArrives(i) ==
  LET s == selects[i].session IN
  /\ selects[i].step = "read"
  /\ IF Superseded(s)
       THEN UNCHANGED <<chats, active, pane, hasOlder, scope, late, awaited>>
       ELSE /\ chats' = chats \cup {s} /\ scope' = (s \in Scoped)
            /\ pane' = Page(selects[i].ids) /\ hasOlder' = selects[i].more
            /\ late' = FALSE /\ awaited' = None
            /\ UNCHANGED active
  /\ EndSelect(i) /\ UNCHANGED notice

\* A 404 empties the choice, whatever has been chosen since.
SelectedMissing(i) ==
  LET s == selects[i].session IN
  /\ selects[i].step = "missing"
  /\ chats' = chats \ {s} /\ active' = None
  /\ late' = (late \/ StoredAt(pane) # {}) /\ awaited' = None
  /\ notice' = [op |-> "list", session |-> None]
  /\ EndSelect(i) /\ UNCHANGED <<pane, hasOlder, scope>>

SelectedFails(i) ==
  LET s == selects[i].session IN
  /\ selects[i].step = "failed"
  /\ awaited' = IF awaited = s THEN None ELSE awaited
  /\ notice' = [op |-> "select", session |-> s]
  /\ EndSelect(i) /\ UNCHANGED <<chats, active, pane, hasOlder, scope, late>>

------------------------------------------------------------------------------
(* startNewConversation, by its button or by selectDocument for another scope.  *)
StartNew ==
  /\ Use /\ ~Generating
  /\ \/ ~ControlsBusy /\ active # None /\ UNCHANGED scope
     \/ ~busy.conversation /\ active \in chats /\ scope' = (active \notin Scoped)
  /\ Empties(None) /\ busy' = [busy EXCEPT !.conversation = FALSE] /\ awaited' = None
  /\ UNCHANGED <<server, chats, requests, notice>>

\* selectDocument without a conversation: the scope of the next one.
ChooseScope ==
  /\ Use /\ ~Generating /\ ~busy.conversation /\ active \notin chats
  /\ scope' = ~scope
  /\ UNCHANGED <<server, chats, active, pane, hasOlder, busy, late, awaited, requests, notice>>

(* loadOlderMessages.                                                           *)
LoadOlder(i) ==
  /\ Use /\ olders[i].step = "none"
  /\ active # None /\ pane # << >> /\ pane[1].kind = "stored" /\ hasOlder /\ ~busy.older
  /\ UNCHANGED notice \/ Clicks("older")
  /\ olders' = [olders EXCEPT ![i] = [NoOlder EXCEPT !.step = "asked", !.session = active,
                                                     !.before = pane[1].id]]
  /\ busy' = [busy EXCEPT !.older = TRUE]
  /\ UNCHANGED <<server, chats, active, pane, hasOlder, scope, late, awaited,
                 listing, selects, deletion, stream>>

ReadOlder(i) ==
  LET s == olders[i].session IN
  /\ olders[i].step = "asked"
  /\ \/ /\ s \in Live
        /\ olders' = [olders EXCEPT ![i] =
             [@ EXCEPT !.step = "read", !.ids = PageBefore(s, olders[i].before),
                       !.more = MoreBefore(s, olders[i].before)]]
     \/ olders' = [olders EXCEPT ![i].step = "failed"]
  /\ UNCHANGED <<server, page, listing, selects, deletion, stream, notice, uses>>

\* The page goes in front of whatever is shown now.
OlderArrives(i) ==
  LET asked == olders[i] IN
  /\ asked.step = "read"
  /\ pane' = Page(asked.ids) \o pane /\ hasOlder' = asked.more
  /\ late' = (late \/ active # asked.session \/ pane = << >> \/ pane[1].id # asked.before)
  /\ busy' = [busy EXCEPT !.older = FALSE]
  /\ olders' = [olders EXCEPT ![i] = NoOlder]
  /\ UNCHANGED <<server, chats, active, scope, awaited, listing, selects, deletion, stream,
                 notice, uses>>

OlderFails(i) ==
  /\ olders[i].step = "failed"
  /\ notice' = [op |-> "older", session |-> None]
  /\ busy' = [busy EXCEPT !.older = FALSE]
  /\ olders' = [olders EXCEPT ![i] = NoOlder]
  /\ UNCHANGED <<server, chats, active, pane, hasOlder, scope, late, awaited,
                 listing, selects, deletion, stream, uses>>

------------------------------------------------------------------------------
(* loadChatSessions: at the start, or by a notification.                        *)
ListChats ==
  /\ Use /\ listing.step = "none" /\ Clicks("list")
  /\ listing' = [step |-> "asked", chats |-> {}]
  /\ UNCHANGED <<server, page, selects, olders, deletion, stream>>

ReadChats ==
  /\ listing.step = "asked"
  /\ listing' \in {[step |-> "read", chats |-> Live], [step |-> "failed", chats |-> {}]}
  /\ UNCHANGED <<server, page, selects, olders, deletion, stream, notice, uses>>

\* The conversation that is active is loaded again, or the first of the list.
ChatsArrive(i) ==
  LET target == IF active \in listing.chats THEN active
                ELSE CHOOSE s \in listing.chats : TRUE IN
  /\ listing.step = "read"
  /\ chats' = listing.chats
  /\ IF Generating
       THEN /\ listing' = [step |-> "none", chats |-> {}]
            /\ UNCHANGED <<active, pane, hasOlder, busy, late, awaited, selects>>
       ELSE IF listing.chats = {}
       THEN /\ Empties(None) /\ busy' = [busy EXCEPT !.conversation = FALSE]
            /\ awaited' = None /\ listing' = [step |-> "none", chats |-> {}]
            /\ UNCHANGED selects
       ELSE /\ BeginSelect(i, target, "list")
            /\ listing' = [step |-> "selecting", chats |-> {}]
  /\ UNCHANGED <<server, scope, olders, deletion, stream, notice, uses>>

ChatsFail ==
  /\ listing.step = "failed"
  /\ listing' = [step |-> "none", chats |-> {}]
  /\ notice' = [op |-> "list", session |-> None]
  /\ UNCHANGED <<server, page, selects, olders, deletion, stream, uses>>

------------------------------------------------------------------------------
(* deleteConversation: of the active session, or again by a notification.       *)
DeleteChat(s) ==
  /\ Use /\ ~Generating /\ deletion.step = "none"
  /\ \/ ~ControlsBusy /\ s = active /\ UNCHANGED notice
     \/ notice.session = s /\ Clicks("delete")
  /\ deletion' = [step |-> "asked", session |-> s]
  /\ UNCHANGED <<server, page, listing, selects, olders, stream>>

RemoveChat ==
  /\ deletion.step = "asked"
  /\ \/ /\ deletion.session \in Live
        /\ status' = [status EXCEPT ![deletion.session] = "gone"]
        /\ \E step \in {"done", "failed"} : deletion' = [deletion EXCEPT !.step = step]
     \/ deletion' = [deletion EXCEPT !.step = "failed"] /\ UNCHANGED status
  /\ UNCHANGED <<log, page, listing, selects, olders, stream, notice, uses>>

\* The pane is emptied and the next session is selected, unless an answer has begun.
DeletionArrives(i) ==
  LET left == chats \ {deletion.session} IN
  /\ deletion.step = "done"
  /\ chats' = left
  /\ IF left = {} \/ Generating
       THEN /\ Empties(None) /\ awaited' = None
            /\ deletion' = [step |-> "none", session |-> None]
            /\ UNCHANGED <<busy, selects>>
       ELSE /\ BeginSelect(i, CHOOSE s \in left : TRUE, "delete")
            /\ deletion' = [deletion EXCEPT !.step = "selecting"]
  /\ UNCHANGED <<server, scope, listing, olders, stream, notice, uses>>

DeletionFails ==
  /\ deletion.step = "failed"
  /\ notice' = [op |-> "delete", session |-> deletion.session]
  /\ deletion' = [step |-> "none", session |-> None]
  /\ UNCHANGED <<server, page, listing, selects, olders, stream, uses>>

------------------------------------------------------------------------------
(* submitQuestion, retryQuestion, generateAnswer.                               *)
Ask(messages) ==
  /\ stream' = [step |-> "asked", original |-> active, session |-> active,
                messages |-> messages]
  /\ pane' = Append(messages, Own("streaming"))
  /\ UNCHANGED <<server, chats, active, hasOlder, busy, scope, late, awaited,
                 listing, selects, olders, deletion, notice>>

Submit == /\ Use /\ ~Generating /\ ~busy.conversation
          /\ Ask(Append(pane, Own("local")))

RetryQuestion(k) ==
  /\ Use /\ ~Generating /\ pane[k].kind = "error"
  /\ Ask(RemoveAt(pane, k))

\* The server opens the session, a new one if none was named, or refuses.
Open ==
  /\ stream.step = "asked"
  /\ \/ /\ stream.original \in Live
        /\ stream' = [stream EXCEPT !.step = "opened"] /\ UNCHANGED status
     \/ \E s \in Sessions :
          /\ stream.original = None /\ status[s] = "unborn" /\ (s \in Scoped) = scope
          /\ status' = [status EXCEPT ![s] = "live"]
          /\ stream' = [stream EXCEPT !.step = "opened", !.session = s]
     \/ stream' = [stream EXCEPT !.step = "failed"] /\ UNCHANGED status
  /\ UNCHANGED <<log, page, listing, selects, olders, deletion, notice, uses>>

\* The event session.
Opened ==
  /\ stream.step = "opened"
  /\ active' = stream.session /\ chats' = chats \cup {stream.session}
  /\ scope' = (stream.session \in Scoped)
  /\ stream' = [stream EXCEPT !.step = "streaming"]
  /\ UNCHANGED <<server, pane, hasOlder, busy, late, awaited, listing, selects, olders,
                 deletion, notice, uses>>

\* The exchange is stored, or the stream fails and a new session is removed.
Answer ==
  /\ stream.step = "streaming"
  /\ \/ /\ stream.session \in Live /\ Len(log) + 2 <= MaxMessages
        /\ log' = log \o <<stream.session, stream.session>>
        /\ \E step \in {"done", "failed"} : stream' = [stream EXCEPT !.step = step]
        /\ UNCHANGED status
     \/ /\ stream' = [stream EXCEPT !.step = "failed"]
        /\ status' = IF stream.original = None
                       THEN [status EXCEPT ![stream.session] = "gone"] ELSE status
        /\ UNCHANGED log
  /\ UNCHANGED <<page, listing, selects, olders, deletion, notice, uses>>

\* The event done; the temporary answer becomes the answer, if the pane still has it.
Done ==
  /\ stream.step = "done"
  /\ active' = stream.session /\ chats' = chats \cup {stream.session}
  /\ scope' = (stream.session \in Scoped)
  /\ pane' = [k \in DOMAIN pane |-> IF pane[k].kind = "streaming" THEN Own("local") ELSE pane[k]]
  /\ stream' = NoStream
  /\ UNCHANGED <<server, hasOlder, busy, late, awaited, listing, selects, olders, deletion,
                 notice, uses>>

\* The messages of the time of the question come back, with an error at the end.
Failed ==
  LET new == stream.original = None /\ active # None IN
  /\ stream.step = "failed"
  /\ active' = IF new THEN None ELSE active
  /\ chats' = IF new THEN chats \ {active} ELSE chats
  /\ pane' = Append(stream.messages, Own("error"))
  /\ late' = (late \/ StoredPart(pane) # StoredPart(stream.messages))
  /\ stream' = NoStream
  /\ UNCHANGED <<server, hasOlder, busy, scope, awaited, listing, selects, olders, deletion,
                 notice, uses>>

------------------------------------------------------------------------------
(* The document of Scoped is deleted: on this page, which forgets its sessions, *)
(* or elsewhere, which a later list of documents tells.                         *)
DeleteDocument ==
  /\ Use
  /\ status' = [s \in Sessions |-> IF s \in Scoped THEN "gone" ELSE status[s]]
  /\ UNCHANGED <<log, page, requests, notice>>

ForgetDocument ==
  /\ Scoped # {} /\ \A s \in Scoped : status[s] = "gone"
  /\ chats \cap Scoped # {}
  /\ chats' = chats \ Scoped
  /\ IF active \in chats \cap Scoped
       THEN Empties(None) /\ awaited' = None
       ELSE UNCHANGED <<active, pane, hasOlder, late, awaited>>
  /\ scope' = FALSE
  /\ UNCHANGED <<server, busy, requests, notice, uses>>

MissDocument ==
  /\ Scoped # {} /\ \A s \in Scoped : status[s] = "gone"
  /\ scope /\ scope' = FALSE
  /\ Empties(None) /\ awaited' = None
  /\ UNCHANGED <<server, chats, busy, requests, notice, uses>>

------------------------------------------------------------------------------
\* controller.start() has asked for the list.
Init ==
  /\ log = FirstLog
  /\ status = [s \in Sessions |-> IF \E i \in DOMAIN FirstLog : FirstLog[i] = s
                                    THEN "live" ELSE "unborn"]
  /\ chats = {} /\ active = None /\ pane = << >> /\ hasOlder = FALSE
  /\ busy = [conversation |-> FALSE, older |-> FALSE] /\ scope = FALSE
  /\ listing = [step |-> "asked", chats |-> {}]
  /\ selects = [i \in Slots |-> NoSelect] /\ olders = [i \in Slots |-> NoOlder]
  /\ deletion = [step |-> "none", session |-> None] /\ stream = NoStream
  /\ notice = NoNotice /\ late = FALSE /\ awaited = None /\ uses = 0

Loading(i) ==
  \/ ReadSelected(i) \/ SelectLost(i)
  \/ SelectedArrives(i) \/ SelectedMissing(i) \/ SelectedFails(i)

Network ==
  \/ \E i \in Slots : ReadOlder(i) \/ OlderArrives(i) \/ OlderFails(i)
  \/ ReadChats \/ ChatsFail \/ \E i \in Slots : ChatsArrive(i)
  \/ RemoveChat \/ DeletionFails \/ \E i \in Slots : DeletionArrives(i)
  \/ Open \/ Opened \/ Answer \/ Done \/ Failed

Users ==
  \/ \E i \in Slots : LoadOlder(i) \/ \E s \in Sessions : Select(i, s)
  \/ StartNew \/ ChooseScope \/ ListChats \/ Submit \/ DeleteDocument
  \/ \E s \in Sessions : DeleteChat(s)
  \/ \E k \in DOMAIN pane : RetryQuestion(k)

Next ==
  \/ \E i \in Slots : Loading(i)
  \/ Network \/ Users
  \/ ForgetDocument \/ MissDocument

Spec == Init /\ [][Next]_vars

\* Every request is answered or fails.
FairSpec == Spec /\ (\A i \in Slots : WF_vars(Loading(i))) /\ WF_vars(Network)

------------------------------------------------------------------------------
\* The state of a request, from its call to its continuation.
Session == Sessions \cup {None}
Listing == [step: {"none", "asked", "read", "failed", "selecting"}, chats: SUBSET Sessions]
SelectState == [step: {"none", "asked", "read", "missing", "failed"}, session: Session,
                ids: Seq(Nat), more: BOOLEAN, outer: {"user", "list", "delete"}]
OlderState == [step: {"none", "asked", "read", "failed"}, session: Session,
               before: Nat, ids: Seq(Nat), more: BOOLEAN]
Deletion == [step: {"none", "asked", "done", "failed", "selecting"}, session: Session]
Stream == [step: {"none", "asked", "opened", "streaming", "done", "failed"},
           original: Session, session: Session, messages: Seq(Item)]
Notice == [op: {"none", "list", "select", "older", "delete"}, session: Session]

\* Every variable keeps its type.
TypeOK ==
  /\ log \in Seq(Sessions) /\ Len(log) <= MaxMessages
  /\ status \in [Sessions -> {"unborn", "live", "gone"}]
  /\ chats \subseteq Sessions /\ active \in Session
  /\ pane \in Seq(Item) /\ hasOlder \in BOOLEAN
  /\ busy \in [conversation: BOOLEAN, older: BOOLEAN] /\ scope \in BOOLEAN
  /\ listing \in Listing /\ selects \in [Slots -> SelectState]
  /\ olders \in [Slots -> OlderState] /\ deletion \in Deletion
  /\ stream \in Stream /\ notice \in Notice
  /\ late \in BOOLEAN /\ awaited \in Session /\ uses \in 0..MaxUses

\* The places 1..n of a pane hold the consecutive messages of one session, older ones
\* are offered exactly when there are any, and no other place holds a stored message.
OneHistory(items, s, more) ==
  \E n \in DOMAIN items :
    /\ StoredAt(items) = 1..n
    /\ \A j, k \in 1..n : j < k => items[j].id < items[k].id
    /\ {items[k].id : k \in 1..n} =
         {m \in MessagesOf(s) : items[1].id <= m /\ m <= items[n].id}
    /\ more = (Before(s, items[1].id) # {})

\* The stored messages on the page are consecutive messages of the one conversation
\* that is active, each once and in order, in front of what was written here, and older
\* ones are offered exactly when there are any - whatever loads, deletions, streams and
\* lost documents overlap, as long as none of the three continuations that check nothing
\* has put its answer into a pane it was not asked for: an older page, a 404, and a
\* failed stream (app-controller.js:88, 97, 207, 482).
PaneIsOneHistory ==
  ~late /\ StoredAt(pane) # {} => active # None /\ OneHistory(pane, active, hasOlder)

\* The conversation chosen last is shown, or an error is, or it is given up for another
\* (app-controller.js:78).
ChoiceIsShown == awaited # None ~> awaited = None

\* The pane never mixes conversations, as app-controller.js:88 and :127 have it.
PaneNeverMixes ==
  \A k \in DOMAIN pane : pane[k].kind = "stored" => log[pane[k].id] = active

==============================================================================
