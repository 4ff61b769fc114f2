---------------------------- MODULE ChatSessions ----------------------------
(***************************************************************************)
(* Chat sessions and their messages: the synchronous chat, the streamed    *)
(* chat with the cleanup of a session it created in vain, and deletion.    *)
(*                                                                         *)
(* A synchronous chat is one transaction from the new session to the two   *)
(* messages.  A streamed chat commits a new session before the response    *)
(* starts, generates with no transaction open, and stores the exchange in  *)
(* one of its own; its client may leave at every event it is sent.         *)
(*                                                                         *)
(* What the database contributes: a message holds a lock on its session    *)
(* until its transaction ends, and a session that messages refer to cannot *)
(* be deleted (the foreign key has no ON DELETE).                          *)
(***************************************************************************)
EXTENDS Naturals, FiniteSets

CONSTANTS
  Requests,            \* chat requests, each asked at most once
  Deleters,            \* DELETE requests, and deletions of a session's document
  MaxSessions,         \* bound: sessions that may be made
  None,
  MaxContextMessages,  \* conversation_service.MAX_CONTEXT_MESSAGES
  MaxFaults, MaxCrashes

\* Sessions are numbered in the order they are made.
SessionIds == 1..MaxSessions

ASSUME ChatAssumption ==
  /\ MaxSessions \in Nat /\ None \notin SessionIds
  /\ MaxContextMessages \in Nat /\ MaxFaults \in Nat /\ MaxCrashes \in Nat

VARIABLES
  sessions,  \* chat_sessions: "unused", "open" (not committed), "live", "gone"
  messages,  \* committed rows of chat_messages
  pending,   \* pending[r]: rows r has inserted and not committed
  nextId,    \* the sequence of chat_messages.id
  req,       \* req[r]: the request
  dels,      \* dels[k]: the deletion
  lost,      \* history: sessions whose stream never ran or could not clean up
  faults, crashes

vars == <<sessions, messages, pending, nextId, req, dels, lost, faults, crashes>>

ChatMessage == [id: Nat, session: SessionIds, request: Requests,
                role: {"user", "assistant"}]

Step == {"idle", "retrieving", "response", "generating", "storing", "answer",
         "commit", "refresh", "events", "failing", "cancelled", "cleanup", "end"}

\* What the client was told last.
Outcome == {"nothing", "done", "error", "left"}

Request == [pc: Step, stream: BOOLEAN, created: BOOLEAN,
            session: SessionIds \cup {None},
            history: SUBSET Requests, earlier: SUBSET Requests,
            outcome: Outcome]

Deletion == [pc: {"idle", "delete", "end"}, session: SessionIds \cup {None},
             loaded: SUBSET ChatMessage]

Idle == [pc |-> "idle", stream |-> FALSE, created |-> FALSE, session |-> None,
         history |-> {}, earlier |-> {}, outcome |-> "nothing"]
NoDeletion == [pc |-> "idle", session |-> None, loaded |-> {}]

TypeOK ==
  /\ sessions \in [SessionIds -> {"unused", "open", "live", "gone"}]
  /\ messages \in SUBSET ChatMessage
  /\ pending \in [Requests -> SUBSET ChatMessage]
  /\ nextId \in Nat
  /\ req \in [Requests -> Request]
  /\ dels \in [Deleters -> Deletion]
  /\ lost \subseteq SessionIds
  /\ faults \in Nat /\ crashes \in Nat

Init ==
  /\ sessions = [s \in SessionIds |-> "unused"]
  /\ messages = {}
  /\ pending = [r \in Requests |-> {}]
  /\ nextId = 1
  /\ req = [r \in Requests |-> Idle]
  /\ dels = [k \in Deleters |-> NoDeletion]
  /\ lost = {}
  /\ faults = 0 /\ crashes = 0

-----------------------------------------------------------------------------
(* The rows.                                                               *)

At(r, pc) == req[r].pc = pc
Goto(r, pc) == req' = [req EXCEPT ![r].pc = pc]
End(r, outcome) == req' = [req EXCEPT ![r].pc = "end", ![r].outcome = outcome]
Running(r) == ~At(r, "idle") /\ ~At(r, "end")

MessagesOf(s) == {m \in messages : m.session = s}
Live(s) == sessions[s] = "live"

\* The session of r, which only r sees until it is committed.
Visible(r) == sessions[req[r].session] \in {"open", "live"}

\* A deletion waits for the transactions that have inserted a message.
Locked(s) == \E r \in Requests : \E m \in pending[r] : m.session = s

NextSession(s) == sessions[s] = "unused" /\ \A x \in 1..(s - 1) : sessions[x] # "unused"

Fault == faults < MaxFaults /\ faults' = faults + 1
NoFault == faults' = faults

\* Variant: the newest message is left out.
RecentMessagesButLast(s) ==
  {m \in MessagesOf(s) :
     Cardinality({x \in MessagesOf(s) : x.id > m.id}) \in 1..MaxContextMessages}

\* list_recent_messages: the newest of the session's messages.
RecentMessages(s) ==
  {m \in MessagesOf(s) :
     Cardinality({x \in MessagesOf(s) : x.id > m.id}) < MaxContextMessages}

\* The requests whose answers a question in session s is given as context.
Answered(s) == {m.request : m \in {x \in RecentMessages(s) : x.role = "assistant"}}

Insert(r, role) ==
  /\ pending' = [pending EXCEPT ![r] = @ \cup
       {[id |-> nextId, session |-> req[r].session, request |-> r, role |-> role]}]
  /\ nextId' = nextId + 1

\* Variant: ON DELETE CASCADE.
DeleteRowCascading(s, loaded) ==
  /\ sessions' = [sessions EXCEPT ![s] = IF Live(s) THEN "gone" ELSE @]
  /\ messages' = {m \in messages : m.session # s}

\* db.delete(session) and the commit, for an object whose messages were loaded
\* before: one that was inserted since makes the foreign key refuse it all.
DeleteRow(s, loaded) ==
  IF Live(s) /\ MessagesOf(s) \subseteq loaded
  THEN /\ sessions' = [sessions EXCEPT ![s] = "gone"]
       /\ messages' = messages \ loaded
  ELSE UNCHANGED <<sessions, messages>>

-----------------------------------------------------------------------------
(* chat and chat_stream.                                                   *)

\* The session of the request is found or, by the synchronous chat, made.
Ask(r) ==
  /\ At(r, "idle")
  /\ \E stream \in BOOLEAN :
       \/ \E s \in SessionIds :
            /\ Live(s)
            /\ req' = [req EXCEPT ![r] =
                 [Idle EXCEPT !.pc = "retrieving", !.stream = stream, !.session = s,
                              !.history = Answered(s),
                              !.earlier = {q \in Requests : /\ req[q].session = s
                                                            /\ req[q].outcome = "done"}]]
            /\ UNCHANGED sessions
       \/ /\ stream
          /\ \E s \in SessionIds : sessions[s] = "unused"
          /\ req' = [req EXCEPT ![r] = [Idle EXCEPT !.pc = "retrieving", !.stream = TRUE,
                                                    !.created = TRUE]]
          /\ UNCHANGED sessions
       \/ \E s \in SessionIds :
            /\ ~stream /\ NextSession(s)
            /\ sessions' = [sessions EXCEPT ![s] = "open"]
            /\ req' = [req EXCEPT ![r] = [Idle EXCEPT !.pc = "retrieving", !.session = s]]
  /\ UNCHANGED <<messages, pending, nextId, dels, lost, faults, crashes>>

\* The transaction of r ends without a commit.
Rollback(r) ==
  /\ pending' = [pending EXCEPT ![r] = {}]
  /\ sessions' = [s \in SessionIds |->
       IF s = req[r].session /\ sessions[s] = "open" THEN "gone" ELSE sessions[s]]

\* Planning, retrieval, or the generation of a synchronous answer fails.
FailRequest(r) ==
  /\ At(r, "retrieving")
  /\ Rollback(r)
  /\ End(r, "error")
  /\ UNCHANGED <<messages, nextId, dels, lost, faults, crashes>>

\* The synchronous chat has its answer.
AnswerChat(r) ==
  /\ At(r, "retrieving") /\ ~req[r].stream
  /\ Goto(r, "storing")
  /\ UNCHANGED <<sessions, messages, pending, nextId, dels, lost, faults, crashes>>

\* The stream's new session is committed only now.
StartResponse(r) ==
  /\ At(r, "retrieving") /\ req[r].stream
  /\ IF req[r].created
       THEN \E s \in SessionIds :
              /\ NextSession(s)
              /\ sessions' = [sessions EXCEPT ![s] = "live"]
              /\ req' = [req EXCEPT ![r].pc = "response", ![r].session = s]
       ELSE Goto(r, "response") /\ UNCHANGED sessions
  /\ UNCHANGED <<messages, pending, nextId, dels, lost, faults, crashes>>

\* The client has left before the first event: the generator is dropped
\* without having run, and so without its except branches.
DropResponse(r) ==
  /\ At(r, "response")
  /\ End(r, "left")
  /\ lost' = (IF req[r].created THEN lost \cup {req[r].session} ELSE lost)
  /\ UNCHANGED <<sessions, messages, pending, nextId, dels, faults, crashes>>

BeginStream(r) ==
  /\ At(r, "response")
  /\ Goto(r, IF Visible(r) THEN "generating" ELSE "failing")
  /\ UNCHANGED <<sessions, messages, pending, nextId, dels, lost, faults, crashes>>

\* The answer is complete, or its generation fails.
Generate(r) ==
  /\ At(r, "generating")
  /\ Goto(r, "storing") \/ Goto(r, "failing")
  /\ UNCHANGED <<sessions, messages, pending, nextId, dels, lost, faults, crashes>>

\* GeneratorExit, at an event that is being sent.
LeaveStream(r) ==
  /\ At(r, "generating") \/ (At(r, "events") /\ req[r].stream)
  /\ Goto(r, "cancelled")
  /\ UNCHANGED <<sessions, messages, pending, nextId, dels, lost, faults, crashes>>

-----------------------------------------------------------------------------
(* _persist_exchange and its transaction.                                  *)

StoreQuestion(r) ==
  /\ At(r, "storing") /\ Visible(r)
  /\ Insert(r, "user")
  /\ Goto(r, "answer")
  /\ UNCHANGED <<sessions, messages, dels, lost, faults, crashes>>

StoreAnswer(r) ==
  /\ At(r, "answer")
  /\ Insert(r, "assistant")
  /\ Goto(r, "commit")
  /\ UNCHANGED <<sessions, messages, dels, lost, faults, crashes>>

\* Variant: the session is closed without a commit.
CloseExchange(r) ==
  /\ At(r, "commit")
  /\ pending' = [pending EXCEPT ![r] = {}]
  /\ sessions' = [sessions EXCEPT ![req[r].session] = "live"]
  /\ Goto(r, "refresh")
  /\ UNCHANGED <<messages, nextId, dels, lost, faults, crashes>>

CommitExchange(r) ==
  /\ At(r, "commit")
  /\ messages' = messages \cup pending[r]
  /\ pending' = [pending EXCEPT ![r] = {}]
  /\ sessions' = [sessions EXCEPT ![req[r].session] = "live"]
  /\ Goto(r, "refresh")
  /\ UNCHANGED <<nextId, dels, lost, faults, crashes>>

\* Variant: the transaction of a failed stream is not ended.
FailStoringLeavingOpen(r) ==
  /\ \/ At(r, "storing") /\ ~Visible(r) /\ NoFault
     \/ At(r, "storing") /\ Fault
     \/ At(r, "answer") /\ Fault
     \/ At(r, "commit") /\ Fault
  /\ IF req[r].stream THEN Goto(r, "failing") ELSE End(r, "error")
  /\ UNCHANGED <<sessions, messages, pending, nextId, dels, lost, crashes>>

\* The session has disappeared, or the database fails.
FailStoring(r) ==
  /\ \/ At(r, "storing") /\ ~Visible(r) /\ NoFault
     \/ At(r, "storing") /\ Fault
     \/ At(r, "answer") /\ Fault
     \/ At(r, "commit") /\ Fault
  /\ Rollback(r)
  /\ IF req[r].stream THEN Goto(r, "failing") ELSE End(r, "error")
  /\ UNCHANGED <<messages, nextId, dels, lost, crashes>>

\* db.refresh reads the session once more: it may have been deleted since.
RefreshSession(r) ==
  /\ At(r, "refresh")
  /\ \/ Visible(r) /\ NoFault /\ Goto(r, "events")
     \/ /\ (~Visible(r) /\ NoFault) \/ Fault
        /\ IF req[r].stream THEN Goto(r, "failing") ELSE End(r, "error")
  /\ UNCHANGED <<sessions, messages, pending, nextId, dels, lost, crashes>>

SendDone(r) ==
  /\ At(r, "events")
  /\ End(r, "done")
  /\ UNCHANGED <<sessions, messages, pending, nextId, dels, lost, faults, crashes>>

-----------------------------------------------------------------------------
(* The except branches of the stream, and _cleanup_empty_session.          *)

Told(r) == IF At(r, "cancelled") \/ req[r].outcome = "left" THEN "left" ELSE "error"

\* Variant: only errors clean up, not clients that leave.
CleanUpErrorsOnly(r) ==
  /\ At(r, "failing") \/ At(r, "cancelled")
  /\ IF /\ At(r, "failing") /\ req[r].created
        /\ Visible(r) /\ MessagesOf(req[r].session) = {}
       THEN req' = [req EXCEPT ![r].pc = "cleanup", ![r].outcome = Told(r)]
       ELSE End(r, Told(r))
  /\ UNCHANGED <<sessions, messages, pending, nextId, dels, lost, faults, crashes>>

\* A stream looks at the session it created, if any.
CleanUp(r) ==
  /\ At(r, "failing") \/ At(r, "cancelled")
  /\ IF req[r].created /\ Visible(r) /\ MessagesOf(req[r].session) = {}
       THEN req' = [req EXCEPT ![r].pc = "cleanup", ![r].outcome = Told(r)]
       ELSE End(r, Told(r))
  /\ UNCHANGED <<sessions, messages, pending, nextId, dels, lost, faults, crashes>>

\* The session had no messages when it was looked at.  If it has now, the
\* error of the foreign key breaks off the response without an error event.
DeleteEmptySession(r) ==
  LET s == req[r].session IN
  /\ At(r, "cleanup") /\ ~Locked(s)
  /\ DeleteRow(s, {})
  /\ End(r, IF Live(s) /\ MessagesOf(s) # {} THEN "left" ELSE req[r].outcome)
  /\ UNCHANGED <<pending, nextId, dels, lost, faults, crashes>>

\* The database fails once more.
FailCleanUp(r) ==
  /\ At(r, "failing") \/ At(r, "cancelled") \/ At(r, "cleanup")
  /\ req[r].created /\ Fault
  /\ End(r, "left")
  /\ lost' = lost \cup {req[r].session}
  /\ UNCHANGED <<sessions, messages, pending, nextId, dels, crashes>>

-----------------------------------------------------------------------------
(* delete_chat_session, and delete_sessions_for_document for one session.  *)

AskDelete(k) ==
  /\ dels[k].pc = "idle"
  /\ \E s \in SessionIds :
       /\ Live(s)
       /\ dels' = [dels EXCEPT ![k] = [pc |-> "delete", session |-> s,
                                       loaded |-> MessagesOf(s)]]
  /\ UNCHANGED <<sessions, messages, pending, nextId, req, lost, faults, crashes>>

DeleteSession(k) ==
  /\ dels[k].pc = "delete" /\ ~Locked(dels[k].session)
  /\ \/ DeleteRow(dels[k].session, dels[k].loaded) /\ NoFault
     \/ Fault /\ UNCHANGED <<sessions, messages>>
  /\ dels' = [dels EXCEPT ![k] = [NoDeletion EXCEPT !.pc = "end"]]
  /\ UNCHANGED <<pending, nextId, req, lost, crashes>>

\* The process dies: the database ends its transactions.
Crash ==
  /\ crashes < MaxCrashes
  /\ \E r \in Requests : Running(r)
  /\ crashes' = crashes + 1
  /\ lost' = lost \cup {req[r].session : r \in {x \in Requests :
                           Running(x) /\ req[x].created /\ req[x].session # None}}
  /\ pending' = [r \in Requests |-> {}]
  /\ sessions' = [s \in SessionIds |-> IF sessions[s] = "open" THEN "gone" ELSE sessions[s]]
  /\ req' = [r \in Requests |->
       IF Running(r) THEN [req[r] EXCEPT !.pc = "end", !.outcome = "left"] ELSE req[r]]
  /\ dels' = [k \in Deleters |->
       IF dels[k].pc = "delete" THEN [NoDeletion EXCEPT !.pc = "end"] ELSE dels[k]]
  /\ UNCHANGED <<messages, nextId, faults>>

-----------------------------------------------------------------------------

Progress(r) ==
  \/ FailRequest(r) \/ AnswerChat(r) \/ StartResponse(r) \/ DropResponse(r)
  \/ BeginStream(r) \/ Generate(r) \/ LeaveStream(r)
  \/ StoreQuestion(r) \/ StoreAnswer(r) \/ CommitExchange(r) \/ FailStoring(r)
  \/ RefreshSession(r) \/ SendDone(r)
  \/ CleanUp(r) \/ DeleteEmptySession(r) \/ FailCleanUp(r)

Next ==
  \/ \E r \in Requests : Ask(r) \/ Progress(r)
  \/ \E k \in Deleters : AskDelete(k) \/ DeleteSession(k)
  \/ Crash

Spec == Init /\ [][Next]_vars

\* The server runs the requests it has accepted; calls of models and of the
\* database end by their timeouts.
FairSpec ==
  /\ Spec
  /\ \A r \in Requests : WF_vars(Progress(r))
  /\ \A k \in Deleters : WF_vars(DeleteSession(k))

-----------------------------------------------------------------------------
(* Properties.                                                             *)

\* A question and its answer are stored together, in the session of their
\* request, and messages go only with their session (chat.py:134).
ExchangesAreWhole ==
  \A r \in Requests :
    LET stored == {m \in messages : m.request = r} IN
    stored # {} => /\ {m.role : m \in stored} = {"user", "assistant"}
                   /\ Cardinality(stored) = 2
                   /\ \A m \in stored : m.session = req[r].session /\ Live(m.session)

\* A step that empties a session carries out a deletion of that session.
EmptiedByDeletion ==
  \A s \in SessionIds : MessagesOf(s) # {} /\ MessagesOf(s)' = {} =>
    \E k \in Deleters :
      dels[k].pc = "delete" /\ dels[k].session = s /\ dels'[k].pc = "end"

\* The cleanup of a stream that failed never takes along what another request
\* has stored in the session meanwhile (chat.py:165).
CleanupKeepsAnswers == [][EmptiedByDeletion]_vars

\* A client that was told "done" finds the exchange in the session for as long
\* as the session is there.
DoneIsStored ==
  \A r \in Requests : req[r].outcome = "done" /\ Live(req[r].session) =>
    \E m \in messages : m.request = r

\* A client that was told of an error finds no exchange of that request, so
\* that asking again does not store it twice; unless the database failed
\* between the commit and the events.
ErrorIsNotStored ==
  faults = 0 => \A r \in Requests : req[r].outcome = "error" =>
    \A m \in messages : m.request # r

\* What the client is told last is what it finds when it comes back, through
\* deletions, faults and crashes (chat.py:227).
OutcomeIsStored == DoneIsStored /\ ErrorIsNotStored

\* A question asked after an answer of the same session was delivered is given
\* that answer as context, as long as the context has room for all of them.
ContextHasEarlierAnswers ==
  IsFiniteSet(Requests) /\ 2 * Cardinality(Requests) <= MaxContextMessages =>
    \A r \in Requests : req[r].earlier \subseteq req[r].history

\* chat.py:166: a failed stream leaves no empty session behind, but for the
\* streams that never ran and those whose cleanup a crash or a fault cut off.
EmptySessionsAreLost ==
  \A s \in SessionIds \ lost :
    Live(s) /\ MessagesOf(s) = {} => \E r \in Requests : Running(r) /\ req[r].session = s

\* A session that is listed holds whole exchanges, and at least one
\* (chat.py:134, :166).
SessionsHoldExchanges == ExchangesAreWhole /\ EmptySessionsAreLost

\* Claimed by chat.py:166 without that exception.
NoEmptySessions ==
  crashes = 0 => \A s \in SessionIds :
    Live(s) /\ MessagesOf(s) = {} => \E r \in Requests : Running(r) /\ req[r].session = s

\* Every accepted request ends, and so does every deletion: no transaction
\* keeps its locks.
RequestsEnd ==
  /\ \A r \in Requests : Running(r) ~> At(r, "end")
  /\ \A k \in Deleters : dels[k].pc = "delete" ~> dels[k].pc = "end"

=============================================================================
