------------------------- MODULE ChatSessionsProofs -------------------------
(***************************************************************************)
(* Proofs about ChatSessions, for every set of requests and deletions and  *)
(* all bounds.  The invariant says who a session that is not committed     *)
(* belongs to, what each request has inserted and stored at each of its    *)
(* steps, and who is still going to look at a session that is empty.       *)
(***************************************************************************)
EXTENDS ChatSessions, FiniteSetTheorems, TLAPS

\* The steps at which a request has its session.
Late == {"response", "generating", "storing", "answer", "commit", "refresh",
         "events", "failing", "cancelled", "cleanup"}

Row(i, r, role) == [id |-> i, session |-> req[r].session, request |-> r, role |-> role]
Exchange(i, j, r) == {Row(i, r, "user"), Row(j, r, "assistant")}
Own(r) == {m \in messages : m.request = r}

SessionOk(r) ==
  /\ req[r].created => req[r].stream
  /\ req[r].pc \in Late => req[r].session \in SessionIds
  /\ req[r].pc = "retrieving" =>
       IF req[r].created THEN req[r].session = None ELSE req[r].session \in SessionIds
  /\ req[r].session \in SessionIds => sessions[req[r].session] # "unused"

\* A session that is not committed is known to one request only.
OpenIsPrivate ==
  \A r, q \in Requests : r # q /\ req[r].session = req[q].session =>
    \A s \in SessionIds : s = req[r].session => sessions[s] # "open"

PendingOk(r) ==
  /\ req[r].pc \notin {"answer", "commit"} => pending[r] = {}
  /\ req[r].pc \in {"answer", "commit"} => Visible(r)
  /\ req[r].pc = "answer" => \E i \in Nat : pending[r] = {Row(i, r, "user")}
  /\ req[r].pc = "commit" => \E i, j \in Nat : pending[r] = Exchange(i, j, r)

MessagesOk == \A m \in messages : m.session = req[m.request].session /\ Live(m.session)

OwnOk(r) ==
  Own(r) # {} => /\ req[r].pc \in {"refresh", "events", "failing", "cancelled", "end"}
                 /\ \E i, j \in Nat : Own(r) = Exchange(i, j, r)

DoneOk(r) ==
  req[r].pc \in {"refresh", "events"} \/ req[r].outcome = "done" =>
    /\ req[r].session \in SessionIds
    /\ Live(req[r].session) => Own(r) # {}

\* The client is told nothing before the request ends.
ToldOk(r) == req[r].pc \notin {"cleanup", "end"} => req[r].outcome = "nothing"

ErrorOk(r) ==
  faults = 0 /\ (req[r].pc = "failing" \/ req[r].outcome = "error") => Own(r) = {}

RequestsOk ==
  \A r \in Requests : /\ SessionOk(r) /\ PendingOk(r) /\ OwnOk(r)
                      /\ ToldOk(r) /\ DoneOk(r) /\ ErrorOk(r)

DeletionOk(k) ==
  dels[k].pc = "delete" => /\ dels[k].session \in SessionIds
                           /\ \A m \in dels[k].loaded : m.session = dels[k].session

\* An empty session has the stream that made it, on its way to the cleanup.
EmptyOk ==
  \A s \in SessionIds \ lost : Live(s) /\ MessagesOf(s) = {} =>
    \E r \in Requests : req[r].created /\ req[r].session = s /\ req[r].pc \in Late

IInv == /\ RequestsOk /\ OpenIsPrivate /\ MessagesOk
        /\ (\A k \in Deleters : DeletionOk(k)) /\ EmptyOk

-----------------------------------------------------------------------------

Kept(q) == /\ req'[q].session = req[q].session
           /\ req'[q].created = req[q].created
           /\ req'[q].stream = req[q].stream

\* Request r goes on to a step and is told an outcome; nothing else of it, and
\* no other request, changes.
Moves(r, pc, outcome) ==
  /\ req' \in [Requests -> Request]
  /\ \A q \in Requests : Kept(q) /\ (q # r => req'[q] = req[q])
  /\ req'[r].pc = pc /\ req'[r].outcome = outcome

LEMMA FieldsTyped ==
  ASSUME NEW r \in Request
  PROVE  /\ \A x \in Step : LET s == [r EXCEPT !.pc = x] IN
              /\ s \in Request /\ s.pc = x /\ s.outcome = r.outcome
              /\ s.session = r.session /\ s.created = r.created /\ s.stream = r.stream
         /\ \A x \in Outcome : LET s == [r EXCEPT !.outcome = x] IN
              /\ s \in Request /\ s.outcome = x /\ s.pc = r.pc
              /\ s.session = r.session /\ s.created = r.created /\ s.stream = r.stream
         /\ \A x \in SessionIds : LET s == [r EXCEPT !.session = x] IN
              /\ s \in Request /\ s.session = x /\ s.pc = r.pc
              /\ s.outcome = r.outcome /\ s.created = r.created /\ s.stream = r.stream
  BY DEF Request

LEMMA GotoMoves ==
  ASSUME TypeOK, NEW r \in Requests, NEW x \in Step, Goto(r, x)
  PROVE  Moves(r, x, req[r].outcome)
  <1> DEFINE u == [req[r] EXCEPT !.pc = x]
  <1>1. req \in [Requests -> Request] /\ req[r] \in Request
    BY DEF TypeOK
  <1>2. u \in Request /\ u.pc = x /\ u.outcome = req[r].outcome /\ u.session = req[r].session
          /\ u.created = req[r].created /\ u.stream = req[r].stream
    BY <1>1, FieldsTyped
  <1>3. req' = [req EXCEPT ![r] = u]
    BY <1>1 DEF Goto
  <1> HIDE DEF u
  <1>4. req'[r] = u /\ \A q \in Requests : q # r => req'[q] = req[q]
    BY <1>1, <1>3
  <1>5. req' \in [Requests -> Request]
    BY <1>1, <1>2, <1>3
  <1> QED BY <1>2, <1>4, <1>5 DEF Moves, Kept

LEMMA BothMove ==
  ASSUME TypeOK, NEW r \in Requests, NEW x \in Step, NEW y \in Outcome,
         req' = [req EXCEPT ![r].pc = x, ![r].outcome = y]
  PROVE  Moves(r, x, y)
  <1> DEFINE v == [req[r] EXCEPT !.pc = x]
             u == [v EXCEPT !.outcome = y]
  <1>1. req \in [Requests -> Request] /\ req[r] \in Request
    BY DEF TypeOK
  <1>2. v \in Request /\ v.pc = x /\ v.session = req[r].session
          /\ v.created = req[r].created /\ v.stream = req[r].stream
    BY <1>1, FieldsTyped
  <1>3. req' = [req EXCEPT ![r] = u]
    BY <1>1
  <1> HIDE DEF v
  <1>4. u \in Request /\ u.pc = x /\ u.outcome = y /\ u.session = req[r].session
          /\ u.created = req[r].created /\ u.stream = req[r].stream
    BY <1>2, FieldsTyped
  <1> HIDE DEF u
  <1>5. req'[r] = u /\ \A q \in Requests : q # r => req'[q] = req[q]
    BY <1>1, <1>3
  <1>6. req' \in [Requests -> Request]
    BY <1>1, <1>3, <1>4
  <1> QED BY <1>4, <1>5, <1>6 DEF Moves, Kept

\* The steps that store nothing new: messages and sessions only go.
LEMMA Frame ==
  ASSUME TypeOK, IInv,
         \A q \in Requests : Kept(q),
         \A q \in Requests : req'[q].pc = "retrieving" => req[q].pc = "retrieving",
         \A q \in Requests : req'[q].pc \in Late => req[q].session \in SessionIds,
         \A q \in Requests : PendingOk(q)' /\ ToldOk(q)',
         \A s \in SessionIds : \/ sessions'[s] = sessions[s]
                               \/ sessions[s] # "unused" /\ sessions'[s] = "gone",
         messages' \subseteq messages,
         \A m \in messages' : sessions'[m.session] = sessions[m.session],
         \A m \in messages : m \notin messages' => ~Live(m.session)',
         \A q \in Requests : Own(q)' # {} => Own(q)' = Own(q),
         \A q \in Requests : Own(q) # {} =>
            req'[q].pc \in {"refresh", "events", "failing", "cancelled", "end"},
         \A q \in Requests : req'[q].pc \in {"refresh", "events"} \/ req'[q].outcome = "done"
            => req[q].pc \in {"refresh", "events"} \/ req[q].outcome = "done",
         \A q \in Requests : faults' = 0 /\ (req'[q].pc = "failing" \/ req'[q].outcome = "error")
            => Own(q) = {},
         \A k \in Deleters : DeletionOk(k)',
         lost \subseteq lost',
         \A q \in Requests : req[q].created /\ req[q].pc \in Late /\ req'[q].pc \notin Late
            => \/ req[q].session \in lost' \/ MessagesOf(req[q].session) # {}
               \/ ~Live(req[q].session)'
  PROVE  IInv'
  <1>1. \A q \in Requests : SessionOk(q)'
    BY DEF IInv, RequestsOk, SessionOk, Kept
  <1>2. OpenIsPrivate'
    BY DEF IInv, OpenIsPrivate, Kept
  <1>3. MessagesOk'
    <2> SUFFICES ASSUME NEW m \in messages'
                 PROVE  m.session = req'[m.request].session /\ sessions'[m.session] = "live"
      BY DEF MessagesOk, Live
    <2>1. m \in messages /\ m.request \in Requests
      BY DEF TypeOK, ChatMessage
    <2> QED BY <2>1 DEF IInv, MessagesOk, Live, Kept
  <1>4. \A q \in Requests : OwnOk(q)'
    <2> SUFFICES ASSUME NEW q \in Requests, Own(q)' # {}  PROVE OwnOk(q)'
      BY DEF OwnOk
    <2>1. Own(q)' = Own(q) /\ Own(q) # {}
      OBVIOUS
    <2>2. PICK i, j \in Nat : Own(q) = Exchange(i, j, q)
      BY <2>1 DEF IInv, RequestsOk, OwnOk
    <2>3. Exchange(i, j, q)' = Exchange(i, j, q)
      BY DEF Exchange, Row, Kept
    <2> QED BY <2>1, <2>2, <2>3 DEF OwnOk
  <1>5. \A q \in Requests : DoneOk(q)'
    <2> SUFFICES ASSUME NEW q \in Requests,
                        req'[q].pc \in {"refresh", "events"} \/ req'[q].outcome = "done"
                 PROVE  /\ req'[q].session \in SessionIds
                        /\ sessions'[req'[q].session] = "live" => Own(q)' # {}
      BY DEF DoneOk, Live
    <2>1. req'[q].session = req[q].session /\ req[q].session \in SessionIds
      BY DEF IInv, RequestsOk, DoneOk, Kept
    <2>2. ASSUME sessions'[req[q].session] = "live"  PROVE Own(q)' # {}
      <3>1. Live(req[q].session)
        BY <2>1, <2>2 DEF Live
      <3>2. PICK m \in messages : m.request = q
        BY <3>1 DEF IInv, RequestsOk, DoneOk, Own
      <3>3. m.session = req[q].session
        BY <3>2 DEF IInv, MessagesOk
      <3> QED BY <3>2, <3>3, <2>2 DEF Live, Own
    <2> QED BY <2>1, <2>2
  <1>6. \A q \in Requests : ErrorOk(q)'
    BY DEF ErrorOk
  <1>7. EmptyOk'
    <2> SUFFICES ASSUME NEW s \in SessionIds, s \notin lost', Live(s)', MessagesOf(s)' = {}
                 PROVE  \E r \in Requests : /\ req'[r].created /\ req'[r].session = s
                                            /\ req'[r].pc \in Late
      BY DEF EmptyOk
    <2>1. Live(s) /\ s \notin lost
      BY DEF Live
    <2>2. MessagesOf(s) = {}
      BY DEF MessagesOf, Live
    <2>3. PICK r \in Requests : req[r].created /\ req[r].session = s /\ req[r].pc \in Late
      BY <2>1, <2>2 DEF IInv, EmptyOk
    <2> QED BY <2>2, <2>3 DEF Kept
  <1> QED BY <1>1, <1>2, <1>3, <1>4, <1>5, <1>6, <1>7 DEF IInv, RequestsOk

-----------------------------------------------------------------------------
(* One lemma for the steps of one request that leave the rows alone.       *)

LEMMA PendingKept ==
  ASSUME IInv, NEW q \in Requests, req'[q] = req[q], pending'[q] = pending[q],
         Visible(q) => Visible(q)'
  PROVE  PendingOk(q)'
  <1>1. PendingOk(q)
    BY DEF IInv, RequestsOk
  <1> QED BY <1>1 DEF PendingOk, Exchange, Row

LEMMA Quiet ==
  ASSUME TypeOK, IInv, NEW r \in Requests, NEW x \in Step, NEW y \in Outcome,
         Moves(r, x, y), UNCHANGED <<sessions, messages, pending, dels>>,
         lost \subseteq lost', faults' = 0 => faults = 0,
         req[r].pc \notin {"idle", "answer", "commit"},
         req[r].pc = "retrieving" => ~req[r].created,
         x \notin {"idle", "retrieving", "answer", "commit"},
         Own(r) # {} => x \in {"refresh", "events", "failing", "cancelled", "end"},
         x \in {"refresh", "events"} \/ y = "done"
            => req[r].pc \in {"refresh", "events"} \/ req[r].outcome = "done",
         x \notin {"cleanup", "end"} => y = "nothing",
         faults' = 0 /\ (x = "failing" \/ y = "error") => Own(r) = {},
         req[r].created /\ x = "end"
            => \/ req[r].session \in lost' \/ MessagesOf(req[r].session) # {}
               \/ ~Live(req[r].session),
         req[r].pc # "end"
  PROVE  IInv'
  <1>1. /\ \A q \in Requests : Kept(q) /\ (q # r => req'[q] = req[q])
        /\ req'[r].pc = x /\ req'[r].outcome = y
    BY DEF Moves
  <1>2. \A q \in Requests : Own(q)' = Own(q)
    BY DEF Own
  <1>3. req[r].session \in SessionIds /\ req[r] \in Request
    BY DEF TypeOK, IInv, RequestsOk, SessionOk, Request, Step, Late
  <1>4. \A q \in Requests : req'[q].pc \in Late => req[q].session \in SessionIds
    BY <1>1, <1>3 DEF IInv, RequestsOk, SessionOk
  <1>5. \A q \in Requests : PendingOk(q)'
    <2>1. PendingOk(r)'
      BY <1>1 DEF IInv, RequestsOk, PendingOk
    <2>2. ASSUME NEW q \in Requests, q # r  PROVE PendingOk(q)'
      <3>1. Visible(q) => Visible(q)'
        BY <1>1, <2>2 DEF Visible
      <3> QED BY <1>1, <2>2, <3>1, PendingKept
    <2> QED BY <2>1, <2>2
  <1>6. \A q \in Requests : Own(q) # {} =>
            req'[q].pc \in {"refresh", "events", "failing", "cancelled", "end"}
    BY <1>1 DEF IInv, RequestsOk, OwnOk
  <1>7. \A q \in Requests : req'[q].pc \in {"refresh", "events"} \/ req'[q].outcome = "done"
            => req[q].pc \in {"refresh", "events"} \/ req[q].outcome = "done"
    BY <1>1
  <1>8. \A q \in Requests : faults' = 0 /\ (req'[q].pc = "failing" \/ req'[q].outcome = "error")
            => Own(q) = {}
    BY <1>1 DEF IInv, RequestsOk, ErrorOk
  <1>9. \A k \in Deleters : DeletionOk(k)'
    BY DEF IInv, DeletionOk
  <1>10. \A q \in Requests : req[q].created /\ req[q].pc \in Late /\ req'[q].pc \notin Late
            => \/ req[q].session \in lost' \/ MessagesOf(req[q].session) # {}
               \/ ~Live(req[q].session)'
    <2> SUFFICES ASSUME NEW q \in Requests, req[q].created, req[q].pc \in Late,
                        req'[q].pc \notin Late
                 PROVE  \/ req[q].session \in lost' \/ MessagesOf(req[q].session) # {}
                        \/ ~Live(req[q].session)
      BY <1>1 DEF Live, Kept
    <2>1. q = r
      BY <1>1
    <2>2. x = "end"
      BY <1>1, <2>1 DEF Step, Late
    <2> QED BY <2>1, <2>2
  <1>11. \A q \in Requests : req'[q].pc = "retrieving" => req[q].pc = "retrieving"
    BY <1>1
  <1>12. \A m \in messages : m \in messages'
    OBVIOUS
  <1>13. \A q \in Requests : Kept(q) /\ ToldOk(q)'
    BY <1>1 DEF IInv, RequestsOk, ToldOk
  <1> QED BY <1>2, <1>4, <1>5, <1>6, <1>7, <1>8, <1>9, <1>10, <1>11, <1>12, <1>13, Frame

\* The type of what such steps change.
LEMMA QuietTyped ==
  ASSUME TypeOK, req' \in [Requests -> Request], lost' \subseteq SessionIds,
         UNCHANGED <<sessions, messages, pending, nextId, dels, crashes>>, faults' \in Nat
  PROVE  TypeOK'
  BY DEF TypeOK

LEMMA FaultTyped ==
  ASSUME TypeOK, NoFault \/ Fault
  PROVE  faults' \in Nat /\ (faults' = 0 => faults = 0)
  BY DEF TypeOK, NoFault, Fault

LEMMA OutcomeTyped ==
  ASSUME TypeOK, NEW r \in Requests
  PROVE  /\ req[r].outcome \in Outcome /\ req[r].pc \in Step
         /\ "end" \in Step /\ "failing" \in Step /\ "done" \in Outcome
         /\ "error" \in Outcome /\ "left" \in Outcome
  BY DEF TypeOK, Request, Step, Outcome

LEMMA QuietSteps ==
  ASSUME TypeOK, IInv, NEW r \in Requests,
         AnswerChat(r) \/ BeginStream(r) \/ Generate(r) \/ LeaveStream(r)
  PROVE  TypeOK' /\ IInv'
  <1>1. UNCHANGED <<sessions, messages, pending, nextId, dels, lost, faults, crashes>>
    BY DEF AnswerChat, BeginStream, Generate, LeaveStream
  <1>2. PICK x \in Step : /\ Goto(r, x)
                          /\ x \in {"storing", "generating", "failing", "cancelled"}
                          /\ req[r].pc \in {"retrieving", "response", "generating", "events"}
                          /\ req[r].pc = "retrieving" => ~req[r].stream
                          /\ req[r].pc = "events" => x = "cancelled"
    BY DEF AnswerChat, BeginStream, Generate, LeaveStream, At, Step
  <1>3. Moves(r, x, req[r].outcome)
    BY <1>2, GotoMoves
  <1>4. SessionOk(r) /\ OwnOk(r) /\ ErrorOk(r) /\ ToldOk(r)
    BY DEF IInv, RequestsOk
  <1>5. req[r].pc = "events" \/ Own(r) = {}
    BY <1>2, <1>4 DEF OwnOk
  <1>6. TypeOK'
    <2>1. faults' \in Nat /\ lost' \subseteq SessionIds
      BY <1>1 DEF TypeOK
    <2>2. req' \in [Requests -> Request]
      BY <1>3 DEF Moves
    <2> QED BY <1>1, <2>1, <2>2, QuietTyped
  <1>7. IInv'
    <2>1. req[r].pc = "retrieving" => ~req[r].created
      BY <1>2, <1>4 DEF SessionOk
    <2>2. Own(r) # {} => x \in {"refresh", "events", "failing", "cancelled", "end"}
      BY <1>2, <1>5
    <2>3. faults' = 0 /\ (x = "failing" \/ req[r].outcome = "error") => Own(r) = {}
      BY <1>1, <1>2, <1>4, <1>5 DEF ErrorOk
    <2>4. req[r].outcome = "nothing"
      BY <1>2, <1>4 DEF ToldOk
    <2> QED BY <1>1, <1>2, <1>3, <2>1, <2>2, <2>3, <2>4, OutcomeTyped, Quiet
  <1> QED BY <1>6, <1>7

LEMMA DropStep ==
  ASSUME TypeOK, IInv, NEW r \in Requests, DropResponse(r)
  PROVE  TypeOK' /\ IInv'
  <1>1. /\ req[r].pc = "response" /\ End(r, "left")
        /\ lost' = (IF req[r].created THEN lost \cup {req[r].session} ELSE lost)
        /\ UNCHANGED <<sessions, messages, pending, nextId, dels, faults, crashes>>
    BY DEF DropResponse, At
  <1>2. Moves(r, "end", "left")
    BY <1>1, OutcomeTyped, BothMove DEF End
  <1>3. SessionOk(r) /\ OwnOk(r)
    BY DEF IInv, RequestsOk
  <1>4. req[r].session \in SessionIds /\ Own(r) = {}
    BY <1>1, <1>3 DEF SessionOk, OwnOk, Late
  <1>5. req' \in [Requests -> Request] /\ lost' \subseteq SessionIds /\ faults' \in Nat
    BY <1>1, <1>2, <1>4 DEF TypeOK, Moves
  <1>6. TypeOK'
    BY <1>1, <1>5, QuietTyped
  <1>7. lost \subseteq lost' /\ (req[r].created => req[r].session \in lost')
    BY <1>1
  <1> QED BY <1>1, <1>2, <1>4, <1>6, <1>7, OutcomeTyped, Quiet

LEMMA RefreshStep ==
  ASSUME TypeOK, IInv, NEW r \in Requests, RefreshSession(r)
  PROVE  TypeOK' /\ IInv'
  <1>1. /\ req[r].pc = "refresh"
        /\ UNCHANGED <<sessions, messages, pending, nextId, dels, lost, crashes>>
    BY DEF RefreshSession, At
  <1>2. faults' \in Nat /\ (faults' = 0 => faults = 0)
    BY FaultTyped DEF RefreshSession
  <1>3. /\ SessionOk(r) /\ OwnOk(r) /\ DoneOk(r) /\ ErrorOk(r)
        /\ req[r].outcome = "nothing"
    BY <1>1 DEF IInv, RequestsOk, ToldOk
  <1>4. req[r].session \in SessionIds /\ (Own(r) # {} => Visible(r))
    <2>1. req[r].session \in SessionIds
      BY <1>1, <1>3 DEF SessionOk, Late
    <2>2. ASSUME NEW m \in Own(r)  PROVE Visible(r)
      BY <2>2 DEF Own, IInv, MessagesOk, Live, Visible
    <2> QED BY <2>1, <2>2
  <1>5. CASE Goto(r, "events")
    <2>1. Moves(r, "events", req[r].outcome)
      BY <1>5, GotoMoves DEF Step
    <2>2. req' \in [Requests -> Request] /\ lost' \subseteq SessionIds
      BY <1>1, <2>1 DEF TypeOK, Moves
    <2>3. TypeOK'
      BY <1>1, <1>2, <2>2, QuietTyped
    <2>4. faults' = 0 /\ req[r].outcome = "error" => Own(r) = {}
      BY <1>2, <1>3 DEF ErrorOk
    <2>5. IInv'
      BY <1>1, <1>2, <1>3, <2>1, <2>4, OutcomeTyped, Quiet DEF Step
    <2> QED BY <2>3, <2>5
  <1>6. ASSUME (~Visible(r) /\ NoFault) \/ Fault, NEW x \in {"failing", "end"}, NEW y \in Outcome,
               Moves(r, x, y), y = req[r].outcome \/ (x = "end" /\ y = "error"),
               x = "end" => ~req[r].stream
        PROVE  TypeOK' /\ IInv'
    <2>1. req' \in [Requests -> Request] /\ lost' \subseteq SessionIds
      BY <1>1, <1>6 DEF TypeOK, Moves
    <2>2. TypeOK'
      BY <1>1, <1>2, <2>1, QuietTyped
    <2>3. faults' = 0 => Own(r) = {}
      BY <1>4, <1>6 DEF Fault, TypeOK
    <2>4. x = "end" => ~req[r].created
      BY <1>3, <1>6 DEF SessionOk
    <2>5. IInv'
      BY <1>1, <1>2, <1>3, <1>6, <2>3, <2>4, OutcomeTyped, Quiet
    <2> QED BY <2>2, <2>5
  <1>7. CASE /\ (~Visible(r) /\ NoFault) \/ Fault
             /\ IF req[r].stream THEN Goto(r, "failing") ELSE End(r, "error")
    <2>1. CASE req[r].stream
      BY <1>6, <1>7, <2>1, OutcomeTyped, GotoMoves
    <2>2. CASE ~req[r].stream
      BY <1>6, <1>7, <2>2, OutcomeTyped, BothMove DEF End
    <2> QED BY <2>1, <2>2
  <1> QED BY <1>5, <1>7 DEF RefreshSession

LEMMA DoneStep ==
  ASSUME TypeOK, IInv, NEW r \in Requests, SendDone(r)
  PROVE  TypeOK' /\ IInv'
  <1>1. /\ req[r].pc = "events" /\ End(r, "done")
        /\ UNCHANGED <<sessions, messages, pending, nextId, dels, lost, faults, crashes>>
    BY DEF SendDone, At
  <1>2. Moves(r, "end", "done")
    BY <1>1, OutcomeTyped, BothMove DEF End
  <1>3. req' \in [Requests -> Request] /\ lost' \subseteq SessionIds /\ faults' \in Nat
    BY <1>1, <1>2 DEF TypeOK, Moves
  <1>4. TypeOK'
    BY <1>1, <1>3, QuietTyped
  <1>5. ~Live(req[r].session) \/ MessagesOf(req[r].session) # {}
    <2> SUFFICES ASSUME Live(req[r].session)  PROVE MessagesOf(req[r].session) # {}
      OBVIOUS
    <2>1. PICK m \in messages : m.request = r
      BY <1>1 DEF IInv, RequestsOk, DoneOk, Own
    <2> QED BY <2>1 DEF IInv, MessagesOk, MessagesOf
  <1> QED BY <1>1, <1>2, <1>4, <1>5, OutcomeTyped, Quiet

LEMMA CleanUpSteps ==
  ASSUME TypeOK, IInv, NEW r \in Requests, CleanUp(r)
  PROVE  TypeOK' /\ IInv'
  <1>1. /\ req[r].pc \in {"failing", "cancelled"}
        /\ UNCHANGED <<sessions, messages, pending, nextId, dels, lost, faults, crashes>>
    BY DEF CleanUp, At
  <1>2. PICK x \in {"cleanup", "end"} :
          /\ req' = [req EXCEPT ![r].pc = x, ![r].outcome = Told(r)]
          /\ x = "cleanup" => MessagesOf(req[r].session) = {}
          /\ x = "end" => \/ ~req[r].created \/ ~Visible(r)
                          \/ MessagesOf(req[r].session) # {}
    BY DEF CleanUp, End
  <1>3. Told(r) \in {"left", "error"} /\ x \in Step /\ Told(r) \in Outcome
    BY DEF Told, Step, Outcome
  <1>4. Moves(r, x, Told(r))
    BY <1>2, <1>3, BothMove
  <1>5. req' \in [Requests -> Request] /\ lost' \subseteq SessionIds /\ faults' \in Nat
    BY <1>1, <1>4 DEF TypeOK, Moves
  <1>6. TypeOK'
    BY <1>1, <1>5, QuietTyped
  <1>7. ErrorOk(r) /\ OwnOk(r)
    BY DEF IInv, RequestsOk
  <1>8. x = "cleanup" => Own(r) = {}
    BY <1>2 DEF Own, MessagesOf, IInv, MessagesOk
  <1>9. faults' = 0 /\ Told(r) = "error" => Own(r) = {}
    BY <1>1, <1>7 DEF ErrorOk, Told, At
  <1>10. req[r].created /\ x = "end" =>
           MessagesOf(req[r].session) # {} \/ ~Live(req[r].session)
    BY <1>2 DEF Visible, Live
  <1> QED BY <1>1, <1>2, <1>3, <1>4, <1>6, <1>8, <1>9, <1>10, Quiet

LEMMA FailCleanUpStep ==
  ASSUME TypeOK, IInv, NEW r \in Requests, FailCleanUp(r)
  PROVE  TypeOK' /\ IInv'
  <1>1. /\ req[r].pc \in {"failing", "cancelled", "cleanup"} /\ End(r, "left")
        /\ lost' = lost \cup {req[r].session}
        /\ UNCHANGED <<sessions, messages, pending, nextId, dels, crashes>>
    BY DEF FailCleanUp, At
  <1>2. Moves(r, "end", "left")
    BY <1>1, OutcomeTyped, BothMove DEF End
  <1>3. faults' \in Nat /\ (faults' = 0 => faults = 0)
    BY FaultTyped DEF FailCleanUp
  <1>4. req[r].session \in SessionIds
    BY <1>1 DEF IInv, RequestsOk, SessionOk, Late
  <1>5. req' \in [Requests -> Request] /\ lost' \subseteq SessionIds
    BY <1>1, <1>2, <1>4 DEF TypeOK, Moves
  <1>6. TypeOK'
    BY <1>1, <1>3, <1>5, QuietTyped
  <1>7. lost \subseteq lost' /\ req[r].session \in lost'
    BY <1>1
  <1> QED BY <1>1, <1>2, <1>3, <1>6, <1>7, OutcomeTyped, Quiet

-----------------------------------------------------------------------------
(* The end of a transaction without a commit.                              *)

LEMMA RollbackTyped ==
  ASSUME TypeOK, NEW r \in Requests, Rollback(r)
  PROVE  /\ sessions' \in [SessionIds -> {"unused", "open", "live", "gone"}]
         /\ pending' \in [Requests -> SUBSET ChatMessage]
         /\ pending'[r] = {} /\ \A q \in Requests : q # r => pending'[q] = pending[q]
         /\ \A s \in SessionIds : \/ sessions'[s] = sessions[s]
                                  \/ /\ s = req[r].session /\ sessions[s] = "open"
                                     /\ sessions'[s] = "gone"
  BY DEF Rollback, TypeOK

LEMMA RollbackStep ==
  ASSUME TypeOK, IInv, NEW r \in Requests, NEW x \in {"failing", "end"}, NEW y \in Outcome,
         Rollback(r), Moves(r, x, y), y = req[r].outcome \/ (x = "end" /\ y = "error"),
         UNCHANGED <<messages, nextId, dels, lost, crashes>>,
         faults' \in Nat, faults' = 0 => faults = 0,
         req[r].pc \in {"retrieving", "storing", "answer", "commit"},
         x = "failing" => req[r].pc # "retrieving",
         x = "end" => ~req[r].stream \/ req[r].pc = "retrieving"
  PROVE  TypeOK' /\ IInv'
  <1>1. /\ \A q \in Requests : Kept(q) /\ (q # r => req'[q] = req[q])
        /\ req'[r].pc = x /\ req'[r].outcome = y
    BY DEF Moves
  <1>2. TypeOK'
    BY RollbackTyped DEF TypeOK, Moves
  <1>3. /\ SessionOk(r) /\ OwnOk(r) /\ Own(r) = {}
        /\ \A q \in Requests : OwnOk(q) /\ DoneOk(q) /\ ErrorOk(q) /\ SessionOk(q)
    BY DEF IInv, RequestsOk, OwnOk
  <1>4. \A q \in Requests : Own(q)' = Own(q)
    BY DEF Own
  <1>5. \A q \in Requests : PendingOk(q)'
    <2>1. PendingOk(r)'
      BY <1>1, RollbackTyped DEF PendingOk
    <2>2. ASSUME NEW q \in Requests, q # r  PROVE PendingOk(q)'
      <3>1. ASSUME req[q].session \in SessionIds, Visible(q)
            PROVE  Visible(q)'
        <4>1. req[q].session # req[r].session \/ sessions[req[q].session] # "open"
          BY <2>2, <3>1 DEF IInv, OpenIsPrivate
        <4>2. sessions'[req[q].session] = sessions[req[q].session]
          BY <3>1, <4>1, RollbackTyped
        <4> QED BY <1>1, <3>1, <4>2 DEF Visible, Kept
      <3>2. PendingOk(q) /\ SessionOk(q)
        BY DEF IInv, RequestsOk
      <3>3. req'[q] = req[q] /\ pending'[q] = pending[q]
        BY <1>1, <2>2, RollbackTyped
      <3>4. req[q].pc \in {"answer", "commit"} => Visible(q)'
        BY <3>1, <3>2 DEF PendingOk, SessionOk, Late
      <3> QED BY <3>2, <3>3, <3>4 DEF PendingOk, Exchange, Row
    <2> QED BY <2>1, <2>2
  <1>6. \A m \in messages : sessions'[m.session] = sessions[m.session]
    <2> TAKE m \in messages
    <2>1. m.session \in SessionIds /\ sessions[m.session] = "live"
      BY DEF TypeOK, ChatMessage, IInv, MessagesOk, Live
    <2> QED BY <2>1, RollbackTyped
  <1>7. \A s \in SessionIds : \/ sessions'[s] = sessions[s]
                              \/ sessions[s] # "unused" /\ sessions'[s] = "gone"
    BY RollbackTyped
  <1>8. \A q \in Requests : req'[q].pc \in Late => req[q].session \in SessionIds
    BY <1>1, <1>3 DEF SessionOk, Late
  <1>9. \A q \in Requests : Own(q) # {} =>
            req'[q].pc \in {"refresh", "events", "failing", "cancelled", "end"}
    BY <1>1, <1>3 DEF OwnOk
  <1>10. \A q \in Requests : req'[q].pc \in {"refresh", "events"} \/ req'[q].outcome = "done"
            => req[q].pc \in {"refresh", "events"} \/ req[q].outcome = "done"
    BY <1>1
  <1>11. \A q \in Requests : faults' = 0 /\ (req'[q].pc = "failing" \/ req'[q].outcome = "error")
            => Own(q) = {}
    BY <1>1, <1>3 DEF ErrorOk
  <1>12. \A k \in Deleters : DeletionOk(k)'
    BY DEF IInv, DeletionOk
  <1>13. \A q \in Requests : req[q].created /\ req[q].pc \in Late => req'[q].pc \in Late
    BY <1>1, <1>3 DEF SessionOk, Late
  <1>14. \A q \in Requests : req'[q].pc = "retrieving" => req[q].pc = "retrieving"
    BY <1>1
  <1>15. messages' = messages /\ \A q \in Requests : Kept(q) /\ ToldOk(q)'
    BY <1>1 DEF IInv, RequestsOk, ToldOk
  <1>16. lost \subseteq lost'
    OBVIOUS
  <1>17. IInv'
    BY <1>4, <1>5, <1>6, <1>7, <1>8, <1>9, <1>10, <1>11, <1>12, <1>13, <1>14, <1>15, <1>16,
       Frame
  <1> QED BY <1>2, <1>17

LEMMA FailSteps ==
  ASSUME TypeOK, IInv, NEW r \in Requests, FailRequest(r) \/ FailStoring(r)
  PROVE  TypeOK' /\ IInv'
  <1>1. CASE FailRequest(r)
    <2>1. Moves(r, "end", "error")
      BY <1>1, OutcomeTyped, BothMove DEF FailRequest, End
    <2>2. faults' \in Nat /\ (faults' = 0 => faults = 0)
      BY <1>1 DEF FailRequest, TypeOK
    <2> QED BY <1>1, <2>1, <2>2, OutcomeTyped, RollbackStep DEF FailRequest, At
  <1>2. CASE FailStoring(r)
    <2>1. faults' \in Nat /\ (faults' = 0 => faults = 0)
      BY <1>2, FaultTyped DEF FailStoring
    <2>2. CASE req[r].stream
      <3>1. Moves(r, "failing", req[r].outcome)
        BY <1>2, <2>2, OutcomeTyped, GotoMoves DEF FailStoring
      <3> QED BY <1>2, <2>1, <3>1, OutcomeTyped, RollbackStep DEF FailStoring, At
    <2>3. CASE ~req[r].stream
      <3>1. Moves(r, "end", "error")
        BY <1>2, <2>3, OutcomeTyped, BothMove DEF FailStoring, End
      <3> QED BY <1>2, <2>1, <2>3, <3>1, OutcomeTyped, RollbackStep DEF FailStoring, At
    <2> QED BY <2>2, <2>3
  <1> QED BY <1>1, <1>2

-----------------------------------------------------------------------------
(* Deletions.                                                              *)

\* Either nothing happens, or the session goes with its messages and no others.
Deleted(s) ==
  \/ UNCHANGED <<sessions, messages>>
  \/ /\ Live(s) /\ sessions' = [sessions EXCEPT ![s] = "gone"]
     /\ messages' = {m \in messages : m.session # s}

LEMMA RowDeleted ==
  ASSUME NEW s \in SessionIds, NEW loaded, \A m \in loaded : m.session = s,
         DeleteRow(s, loaded)
  PROVE  Deleted(s)
  <1>1. CASE Live(s) /\ MessagesOf(s) \subseteq loaded
    <2>1. messages \ loaded = {m \in messages : m.session # s}
      BY <1>1 DEF MessagesOf
    <2> QED BY <1>1, <2>1 DEF DeleteRow, Deleted
  <1>2. CASE ~(Live(s) /\ MessagesOf(s) \subseteq loaded)
    BY <1>2 DEF DeleteRow, Deleted
  <1> QED BY <1>1, <1>2

LEMMA DeletedTyped ==
  ASSUME TypeOK, NEW s \in SessionIds, Deleted(s)
  PROVE  /\ sessions' \in [SessionIds -> {"unused", "open", "live", "gone"}]
         /\ messages' \subseteq messages
         /\ \A x \in SessionIds : \/ sessions'[x] = sessions[x]
                                  \/ x = s /\ sessions[x] = "live" /\ sessions'[x] = "gone"
         /\ \A m \in messages' : sessions'[m.session] = sessions[m.session]
         /\ \A m \in messages : m \notin messages' => m.session = s /\ ~Live(m.session)'
  <1>1. \A m \in messages : m.session \in SessionIds
    BY DEF TypeOK, ChatMessage
  <1> QED BY <1>1 DEF TypeOK, Deleted, Live

\* What a deletion means for every request: its messages stay or go together,
\* and what it has not committed is in another session.
LEMMA DeletedRequests ==
  ASSUME TypeOK, IInv, NEW s \in SessionIds, Deleted(s), ~Locked(s), NEW q \in Requests
  PROVE  /\ Own(q)' # {} => Own(q)' = Own(q)
         /\ req[q].pc \in {"answer", "commit"} => sessions'[req[q].session] = sessions[req[q].session]
  <1>1. ASSUME Own(q)' # {}  PROVE Own(q)' = Own(q)
    <2>1. \A m \in Own(q) : m.session = req[q].session
      BY DEF Own, IInv, MessagesOk
    <2>2. CASE messages' = messages
      BY <2>2 DEF Own
    <2>3. CASE messages' = {m \in messages : m.session # s}
      <3>1. PICK m \in Own(q) : m.session # s
        BY <1>1, <2>3 DEF Own
      <3>2. \A n \in Own(q) : n.session # s
        BY <2>1, <3>1
      <3> QED BY <2>3, <3>2 DEF Own
    <2> QED BY <2>2, <2>3 DEF Deleted
  <1>2. ASSUME req[q].pc \in {"answer", "commit"}
        PROVE  sessions'[req[q].session] = sessions[req[q].session]
    <2>1. PendingOk(q) /\ SessionOk(q)
      BY DEF IInv, RequestsOk
    <2>2. PICK i \in Nat : Row(i, q, "user") \in pending[q]
      BY <1>2, <2>1 DEF PendingOk, Exchange
    <2>3. req[q].session # s
      BY <2>2 DEF Locked, Row
    <2>4. req[q].session \in SessionIds
      BY <1>2, <2>1 DEF SessionOk, Late
    <2> QED BY <2>3, <2>4, DeletedTyped
  <1> QED BY <1>1, <1>2

LEMMA DeletedKept ==
  ASSUME TypeOK, IInv, NEW s \in SessionIds, Deleted(s), ~Locked(s), NEW q \in Requests,
         pending'[q] = pending[q], Kept(q),
         \/ req'[q] = req[q]
         \/ req[q].pc \notin {"answer", "commit"} /\ req'[q].pc \notin {"answer", "commit"}
  PROVE  PendingOk(q)'
  <1>1. PendingOk(q)
    BY DEF IInv, RequestsOk
  <1>2. CASE req'[q] = req[q]
    <2>1. req[q].pc \in {"answer", "commit"} => Visible(q)'
      BY <1>1, <1>2, DeletedRequests DEF PendingOk, Visible
    <2> QED BY <1>1, <1>2, <2>1 DEF PendingOk, Exchange, Row
  <1>3. CASE req[q].pc \notin {"answer", "commit"} /\ req'[q].pc \notin {"answer", "commit"}
    BY <1>1, <1>3 DEF PendingOk
  <1> QED BY <1>2, <1>3

LEMMA DeleteEmptyStep ==
  ASSUME TypeOK, IInv, NEW r \in Requests, DeleteEmptySession(r)
  PROVE  TypeOK' /\ IInv'
  <1> DEFINE s == req[r].session
             y == IF Live(s) /\ MessagesOf(s) # {} THEN "left" ELSE req[r].outcome
  <1>1. /\ req[r].pc = "cleanup" /\ ~Locked(s) /\ DeleteRow(s, {}) /\ End(r, y)
        /\ UNCHANGED <<pending, nextId, dels, lost, faults, crashes>>
    BY DEF DeleteEmptySession, At
  <1>2. y \in Outcome /\ (y = "left" \/ y = req[r].outcome)
    BY OutcomeTyped
  <1>3. s \in SessionIds
    BY <1>1 DEF IInv, RequestsOk, SessionOk, Late
  <1>4. Deleted(s) /\ (Live(s) /\ MessagesOf(s) = {} => sessions'[s] = "gone")
    <2>1. Deleted(s)
      BY <1>1, <1>3, RowDeleted
    <2>2. Live(s) /\ MessagesOf(s) = {} => sessions'[s] = "gone"
      BY <1>1, <1>3 DEF DeleteRow, TypeOK
    <2> QED BY <2>1, <2>2
  <1> HIDE DEF y
  <1>5. Moves(r, "end", y)
    BY <1>1, <1>2, OutcomeTyped, BothMove DEF End
  <1>6. /\ \A q \in Requests : Kept(q) /\ (q # r => req'[q] = req[q])
        /\ req'[r].pc = "end" /\ req'[r].outcome = y
    BY <1>5 DEF Moves
  <1>7. TypeOK'
    <2>1. messages' \in SUBSET ChatMessage
      BY <1>3, <1>4, DeletedTyped DEF TypeOK
    <2>2. sessions' \in [SessionIds -> {"unused", "open", "live", "gone"}]
      BY <1>3, <1>4, DeletedTyped
    <2> QED BY <1>1, <1>5, <2>1, <2>2 DEF TypeOK, Moves
  <1>8. \A q \in Requests : Own(q)' # {} => Own(q)' = Own(q)
    BY <1>1, <1>3, <1>4, DeletedRequests
  <1>9. \A q \in Requests : PendingOk(q)'
    <2>1. \A q \in Requests : pending'[q] = pending[q]
      BY <1>1
    <2> QED BY <1>1, <1>3, <1>4, <1>6, <2>1, DeletedKept
  <1>10. \A q \in Requests : OwnOk(q) /\ DoneOk(q) /\ ErrorOk(q) /\ SessionOk(q)
    BY DEF IInv, RequestsOk
  <1>11. Own(r) = {}
    BY <1>1, <1>10 DEF OwnOk
  <1>12. \A q \in Requests : req'[q].pc \in Late => req[q].session \in SessionIds
    BY <1>3, <1>6, <1>10 DEF SessionOk
  <1>13. \A q \in Requests : Own(q) # {} =>
            req'[q].pc \in {"refresh", "events", "failing", "cancelled", "end"}
    BY <1>6, <1>10, <1>11 DEF OwnOk
  <1>14. \A q \in Requests : req'[q].pc \in {"refresh", "events"} \/ req'[q].outcome = "done"
            => req[q].pc \in {"refresh", "events"} \/ req[q].outcome = "done"
    BY <1>2, <1>6
  <1>15. \A q \in Requests : faults' = 0 /\ (req'[q].pc = "failing" \/ req'[q].outcome = "error")
            => Own(q) = {}
    BY <1>1, <1>6, <1>10, <1>11 DEF ErrorOk
  <1>16. \A k \in Deleters : DeletionOk(k)'
    BY <1>1 DEF IInv, DeletionOk
  <1>17. \A q \in Requests : req[q].created /\ req[q].pc \in Late /\ req'[q].pc \notin Late
            => MessagesOf(req[q].session) # {} \/ ~Live(req[q].session)'
    <2>1. ASSUME MessagesOf(s) = {}  PROVE sessions'[s] # "live"
      BY <2>1, <1>3, <1>4, DeletedTyped DEF Live
    <2>2. ~Live(req[r].session)' \/ MessagesOf(s) # {}
      BY <1>6, <2>1 DEF Live, Kept
    <2> QED BY <1>6, <2>2
  <1>18. lost \subseteq lost' /\ \A q \in Requests : Kept(q) /\ ToldOk(q)'
    BY <1>1, <1>6 DEF IInv, RequestsOk, ToldOk
  <1>19. \A q \in Requests : req'[q].pc = "retrieving" => req[q].pc = "retrieving"
    BY <1>6
  <1>20. /\ messages' \subseteq messages
         /\ \A m \in messages' : sessions'[m.session] = sessions[m.session]
         /\ \A m \in messages : m \notin messages' => ~Live(m.session)'
         /\ \A x \in SessionIds : \/ sessions'[x] = sessions[x]
                                  \/ sessions[x] # "unused" /\ sessions'[x] = "gone"
    BY <1>3, <1>4, DeletedTyped
  <1>21. IInv'
    BY <1>8, <1>9, <1>12, <1>13, <1>14, <1>15, <1>16, <1>17, <1>18, <1>19, <1>20, Frame
  <1> QED BY <1>7, <1>21

LEMMA SameRequests ==
  ASSUME TypeOK, IInv, UNCHANGED <<req, lost>>, faults' = 0 => faults = 0
  PROVE  /\ \A q \in Requests : Kept(q) /\ ToldOk(q)'
         /\ \A q \in Requests : req'[q].pc \in Late => req[q].session \in SessionIds
         /\ \A q \in Requests : Own(q) # {} =>
              req'[q].pc \in {"refresh", "events", "failing", "cancelled", "end"}
         /\ \A q \in Requests :
              faults' = 0 /\ (req'[q].pc = "failing" \/ req'[q].outcome = "error")
                => Own(q) = {}
  BY DEF IInv, RequestsOk, OwnOk, ErrorOk, ToldOk, SessionOk, Kept

LEMMA AskDeleteStep ==
  ASSUME TypeOK, IInv, NEW k \in Deleters, AskDelete(k)
  PROVE  TypeOK' /\ IInv'
  <1>1. UNCHANGED <<sessions, messages, pending, nextId, req, lost, faults, crashes>>
    BY DEF AskDelete
  <1>2. PICK s \in SessionIds :
          dels' = [dels EXCEPT ![k] = [pc |-> "delete", session |-> s, loaded |-> MessagesOf(s)]]
    BY DEF AskDelete
  <1>3. MessagesOf(s) \subseteq ChatMessage
    BY DEF MessagesOf, TypeOK
  <1> DEFINE d == [pc |-> "delete", session |-> s, loaded |-> MessagesOf(s)]
  <1>4. d \in Deletion /\ \A m \in d.loaded : m.session = d.session
    BY <1>3 DEF Deletion, MessagesOf
  <1>5. d.session \in SessionIds
    OBVIOUS
  <1> HIDE DEF d
  <1>6. dels' = [dels EXCEPT ![k] = d]
    BY <1>2 DEF d
  <1>7. dels' \in [Deleters -> Deletion] /\ dels'[k] = d
          /\ \A j \in Deleters : j # k => dels'[j] = dels[j]
    BY <1>4, <1>6 DEF TypeOK
  <1>8. TypeOK'
    BY <1>1, <1>7 DEF TypeOK
  <1>9. \A j \in Deleters : DeletionOk(j)'
    BY <1>4, <1>5, <1>7 DEF IInv, DeletionOk
  <1>10. \A q \in Requests : PendingOk(q)' /\ Own(q)' = Own(q)
    <2>1. \A q \in Requests : PendingOk(q)
      BY DEF IInv, RequestsOk
    <2> QED BY <1>1, <2>1 DEF PendingOk, Visible, Exchange, Row, Own
  <1>11. IInv'
    <2>1. \A q \in Requests : req'[q] = req[q]
      BY <1>1
    <2> QED BY <1>1, <1>9, <1>10, <2>1, SameRequests, Frame
  <1> QED BY <1>8, <1>11

LEMMA DeleteStep ==
  ASSUME TypeOK, IInv, NEW k \in Deleters, DeleteSession(k)
  PROVE  TypeOK' /\ IInv'
  <1> DEFINE s == dels[k].session
             d == [NoDeletion EXCEPT !.pc = "end"]
  <1>1. /\ dels[k].pc = "delete" /\ ~Locked(s)
        /\ dels' = [dels EXCEPT ![k] = d]
        /\ UNCHANGED <<pending, nextId, req, lost, crashes>>
    BY DEF DeleteSession
  <1>2. s \in SessionIds /\ \A m \in dels[k].loaded : m.session = s
    BY <1>1 DEF IInv, DeletionOk
  <1>3. faults' \in Nat /\ (faults' = 0 => faults = 0)
    BY FaultTyped DEF DeleteSession
  <1>4. Deleted(s)
    <2>1. CASE DeleteRow(s, dels[k].loaded)
      BY <1>2, <2>1, RowDeleted
    <2>2. CASE UNCHANGED <<sessions, messages>>
      BY <2>2 DEF Deleted
    <2> QED BY <2>1, <2>2 DEF DeleteSession
  <1>5. d \in Deletion /\ d.pc = "end"
    BY DEF NoDeletion, Deletion
  <1> HIDE DEF d
  <1>6. dels' \in [Deleters -> Deletion] /\ dels'[k] = d
          /\ \A j \in Deleters : j # k => dels'[j] = dels[j]
    BY <1>1, <1>5 DEF TypeOK
  <1>7. TypeOK'
    <2>1. messages' \in SUBSET ChatMessage
      BY <1>2, <1>4, DeletedTyped DEF TypeOK
    <2>2. sessions' \in [SessionIds -> {"unused", "open", "live", "gone"}]
      BY <1>2, <1>4, DeletedTyped
    <2> QED BY <1>1, <1>3, <1>6, <2>1, <2>2 DEF TypeOK
  <1>8. \A j \in Deleters : DeletionOk(j)'
    BY <1>5, <1>6 DEF IInv, DeletionOk
  <1>9. \A q \in Requests : Own(q)' # {} => Own(q)' = Own(q)
    BY <1>1, <1>2, <1>4, DeletedRequests
  <1>10. \A q \in Requests : PendingOk(q)'
    <2>1. \A q \in Requests : pending'[q] = pending[q] /\ req'[q] = req[q] /\ Kept(q)
      BY <1>1 DEF Kept
    <2> QED BY <1>1, <1>2, <1>4, <2>1, DeletedKept
  <1>11. /\ messages' \subseteq messages
         /\ \A m \in messages' : sessions'[m.session] = sessions[m.session]
         /\ \A m \in messages : m \notin messages' => ~Live(m.session)'
         /\ \A x \in SessionIds : \/ sessions'[x] = sessions[x]
                                  \/ sessions[x] # "unused" /\ sessions'[x] = "gone"
    BY <1>2, <1>4, DeletedTyped
  <1>12. IInv'
    <2>1. \A q \in Requests : req'[q] = req[q]
      BY <1>1
    <2>2. lost \subseteq lost'
      BY <1>1
    <2> QED BY <1>1, <1>3, <1>8, <1>9, <1>10, <1>11, <2>1, <2>2, SameRequests, Frame
  <1> QED BY <1>7, <1>12

-----------------------------------------------------------------------------
(* The crash.                                                              *)

LEMMA CrashStep ==
  ASSUME TypeOK, IInv, Crash
  PROVE  TypeOK' /\ IInv'
  <1> DEFINE left(r) == [req[r] EXCEPT !.pc = "end", !.outcome = "left"]
  <1>1. /\ pending' = [r \in Requests |-> {}]
        /\ sessions' = [s \in SessionIds |-> IF sessions[s] = "open" THEN "gone" ELSE sessions[s]]
        /\ req' = [r \in Requests |-> IF Running(r) THEN left(r) ELSE req[r]]
        /\ lost \subseteq lost'
        /\ UNCHANGED <<messages, nextId, faults>>
    BY DEF Crash
  <1>2. ASSUME NEW r \in Requests
        PROVE  /\ left(r) \in Request /\ left(r).pc = "end" /\ left(r).outcome = "left"
               /\ left(r).session = req[r].session /\ left(r).created = req[r].created
               /\ left(r).stream = req[r].stream
    <2> DEFINE u == [req[r] EXCEPT !.pc = "end"]
    <2>1. req[r] \in Request /\ left(r) = [u EXCEPT !.outcome = "left"]
      BY DEF TypeOK, Request
    <2>2. u \in Request /\ u.pc = "end" /\ u.session = req[r].session
            /\ u.created = req[r].created /\ u.stream = req[r].stream
      BY <2>1, OutcomeTyped, FieldsTyped
    <2> HIDE DEF u, left
    <2> QED BY <2>1, <2>2, OutcomeTyped, FieldsTyped
  <1> HIDE DEF left
  <1>3. /\ req' \in [Requests -> Request]
        /\ \A r \in Requests :
             /\ Kept(r)
             /\ Running(r) => req'[r].pc = "end" /\ req'[r].outcome = "left"
             /\ ~Running(r) => req'[r] = req[r]
             /\ req'[r].pc \in {"idle", "end"}
    <2>1. \A r \in Requests : req'[r] = IF Running(r) THEN left(r) ELSE req[r]
      BY <1>1
    <2>2. req' \in [Requests -> Request]
      BY <1>1, <1>2 DEF TypeOK
    <2> QED BY <1>2, <2>1, <2>2 DEF Kept, Running, At
  <1>4. lost' \subseteq SessionIds /\ crashes' \in Nat
    <2>1. \A r \in Requests : req[r].session \in SessionIds \cup {None}
      BY DEF TypeOK, Request
    <2> DEFINE Cut == {x \in Requests : Running(x) /\ req[x].created /\ req[x].session # None}
               Ends == {req[r].session : r \in Cut}
    <2>2. lost' = lost \cup Ends
      BY DEF Crash
    <2>3. \A x \in Cut : req[x].session \in SessionIds
      BY <2>1
    <2> HIDE DEF Cut
    <2>4. Ends \subseteq SessionIds
      BY <2>3
    <2> HIDE DEF Ends
    <2>5. lost' \subseteq SessionIds
      BY <2>2, <2>4 DEF TypeOK
    <2>6. crashes' = crashes + 1
      BY DEF Crash
    <2>7. crashes' \in Nat
      BY <2>6 DEF TypeOK
    <2> QED BY <2>7, <2>5
  <1>5. /\ sessions' \in [SessionIds -> {"unused", "open", "live", "gone"}]
        /\ \A s \in SessionIds :
             \/ sessions'[s] = sessions[s]
             \/ sessions[s] = "open" /\ sessions'[s] = "gone"
    BY <1>1 DEF TypeOK
  <1>6. /\ dels' \in [Deleters -> Deletion]
        /\ \A k \in Deleters : dels'[k].pc # "delete"
    <2> DEFINE d == [NoDeletion EXCEPT !.pc = "end"]
    <2>1. d \in Deletion /\ d.pc = "end"
      BY DEF NoDeletion, Deletion
    <2>2. dels' = [k \in Deleters |-> IF dels[k].pc = "delete" THEN d ELSE dels[k]]
      BY DEF Crash
    <2> HIDE DEF d
    <2> QED BY <2>1, <2>2 DEF TypeOK
  <1>7. TypeOK'
    <2>1. pending' \in [Requests -> SUBSET ChatMessage]
      BY <1>1
    <2> QED BY <1>1, <1>3, <1>4, <1>5, <1>6, <2>1 DEF TypeOK
  <1>8. \A q \in Requests : PendingOk(q)'
    BY <1>1, <1>3 DEF PendingOk
  <1>9. \A q \in Requests : Own(q)' = Own(q)
    BY <1>1 DEF Own
  <1>10. \A m \in messages : sessions'[m.session] = sessions[m.session]
    <2> TAKE m \in messages
    <2>1. m.session \in SessionIds /\ sessions[m.session] = "live"
      BY DEF TypeOK, ChatMessage, IInv, MessagesOk, Live
    <2> QED BY <2>1, <1>5
  <1>11. \A q \in Requests : OwnOk(q) /\ DoneOk(q) /\ ErrorOk(q) /\ SessionOk(q)
    BY DEF IInv, RequestsOk
  <1>12. \A q \in Requests : Own(q) # {} =>
            req'[q].pc \in {"refresh", "events", "failing", "cancelled", "end"}
    BY <1>3, <1>11 DEF OwnOk
  <1>13. \A q \in Requests : req'[q].pc \in {"refresh", "events"} \/ req'[q].outcome = "done"
            => req[q].pc \in {"refresh", "events"} \/ req[q].outcome = "done"
    BY <1>3
  <1>14. \A q \in Requests : faults' = 0 /\ (req'[q].pc = "failing" \/ req'[q].outcome = "error")
            => Own(q) = {}
    BY <1>1, <1>3, <1>11 DEF ErrorOk
  <1>15. \A k \in Deleters : DeletionOk(k)'
    BY <1>6 DEF DeletionOk
  <1>16. \A q \in Requests : req[q].created /\ req[q].pc \in Late => req[q].session \in lost'
    <2> TAKE q \in Requests
    <2> HAVE req[q].created /\ req[q].pc \in Late
    <2>1. Running(q) /\ req[q].session \in SessionIds
      BY <1>11 DEF Running, At, Late, SessionOk
    <2>2. req[q].session # None
      BY <2>1, ChatAssumption
    <2> QED BY <2>1, <2>2 DEF Crash
  <1>17. \A q \in Requests : /\ Kept(q) /\ ToldOk(q)'
                             /\ req'[q].pc \notin Late /\ req'[q].pc # "retrieving"
    BY <1>3 DEF Late, ToldOk, IInv, RequestsOk
  <1>18. messages' = messages
    BY <1>1
  <1>19. \A s \in SessionIds : \/ sessions'[s] = sessions[s]
                               \/ sessions[s] # "unused" /\ sessions'[s] = "gone"
    BY <1>5
  <1>20. IInv'
    BY <1>1, <1>8, <1>9, <1>10, <1>12, <1>13, <1>14, <1>15, <1>16, <1>17, <1>18, <1>19, Frame
  <1> QED BY <1>7, <1>20

-----------------------------------------------------------------------------
(* New requests and new sessions.                                          *)

\* Session s is in use already, or it is made for the request at hand.
NewOrLive(q) ==
  \/ UNCHANGED sessions /\ (q.session \in SessionIds => Live(q.session))
  \/ \E s \in SessionIds :
       /\ q.session = s /\ sessions[s] = "unused"
       /\ \/ sessions' = [sessions EXCEPT ![s] = "open"]
          \/ /\ sessions' = [sessions EXCEPT ![s] = "live"]
             /\ q.created /\ q.pc = "response"

LEMMA NewOrLiveTyped ==
  ASSUME TypeOK, NEW q, NewOrLive(q)
  PROVE  /\ sessions' \in [SessionIds -> {"unused", "open", "live", "gone"}]
         /\ \A s \in SessionIds :
              \/ sessions'[s] = sessions[s]
              \/ /\ sessions[s] = "unused" /\ s = q.session
                 /\ \/ sessions'[s] = "open"
                    \/ sessions'[s] = "live" /\ q.created /\ q.pc = "response"
         /\ q.session \in SessionIds =>
              \/ Live(q.session) /\ sessions'[q.session] = sessions[q.session]
              \/ sessions[q.session] = "unused" /\ sessions'[q.session] # "unused"
  BY DEF TypeOK, NewOrLive, Live

LEMMA Begin ==
  ASSUME TypeOK, IInv, NEW r \in Requests, NEW u \in Request,
         req' \in [Requests -> Request], req'[r] = u,
         \A q \in Requests : q # r => req'[q] = req[q],
         NewOrLive(u), UNCHANGED <<messages, pending, nextId, dels, lost, faults, crashes>>,
         req[r].pc = "idle" \/ (req[r].pc = "retrieving" /\ req[r].created),
         u.pc \in {"retrieving", "response"}, u.outcome = "nothing",
         u.created => u.stream, u.pc = "response" => u.session \in SessionIds,
         u.pc = "retrieving" =>
           IF u.created THEN u.session = None ELSE u.session \in SessionIds
  PROVE  TypeOK' /\ IInv'
  <1>1. /\ \A s \in SessionIds :
             \/ sessions'[s] = sessions[s]
             \/ /\ sessions[s] = "unused" /\ s = u.session
                /\ \/ sessions'[s] = "open"
                   \/ sessions'[s] = "live" /\ u.created /\ u.pc = "response"
        /\ u.session \in SessionIds =>
             \/ Live(u.session) /\ sessions'[u.session] = sessions[u.session]
             \/ sessions[u.session] = "unused" /\ sessions'[u.session] # "unused"
    BY NewOrLiveTyped
  <1>2. TypeOK'
    BY NewOrLiveTyped DEF TypeOK
  <1>3. \A q \in Requests : OwnOk(q) /\ DoneOk(q) /\ ErrorOk(q) /\ SessionOk(q) /\ PendingOk(q)
    BY DEF IInv, RequestsOk
  <1>4. \A q \in Requests : Own(q)' = Own(q)
    BY DEF Own
  <1>5. Own(r) = {} /\ pending[r] = {}
    BY <1>3 DEF OwnOk, PendingOk
  <1>6. \A q \in Requests \ {r} : req[q].session \in SessionIds =>
          sessions'[req[q].session] = sessions[req[q].session]
    BY <1>1, <1>3 DEF SessionOk
  <1>7. \A q \in Requests : SessionOk(q)'
    <2>1. SessionOk(r)'
      BY <1>1 DEF SessionOk, Late, Live
    <2>2. ASSUME NEW q \in Requests \ {r}  PROVE SessionOk(q)'
      BY <1>3, <1>6 DEF SessionOk
    <2> QED BY <2>1, <2>2
  <1>8. \A q \in Requests : PendingOk(q)'
    <2>1. PendingOk(r)'
      BY <1>5 DEF PendingOk
    <2>2. ASSUME NEW q \in Requests \ {r}  PROVE PendingOk(q)'
      <3>1. req'[q] = req[q] /\ pending'[q] = pending[q]
        OBVIOUS
      <3>2. req[q].pc \in {"answer", "commit"} => Visible(q)'
        <4>1. req[q].pc \in {"answer", "commit"} => req[q].session \in SessionIds /\ Visible(q)
          BY <1>3 DEF PendingOk, SessionOk, Late
        <4> QED BY <1>6, <3>1, <4>1 DEF Visible
      <3>3. PendingOk(q)
        BY <1>3
      <3> QED BY <3>1, <3>2, <3>3 DEF PendingOk, Exchange, Row
    <2> QED BY <2>1, <2>2
  <1>9. \A q \in Requests : OwnOk(q)'
    <2>1. OwnOk(r)'
      BY <1>4, <1>5 DEF OwnOk
    <2>2. ASSUME NEW q \in Requests \ {r}  PROVE OwnOk(q)'
      <3>1. req'[q] = req[q] /\ OwnOk(q) /\ Own(q)' = Own(q)
        BY <1>3, <1>4
      <3> QED BY <3>1 DEF OwnOk, Exchange, Row
    <2> QED BY <2>1, <2>2
  <1>10. \A q \in Requests : DoneOk(q)'
    <2>1. DoneOk(r)'
      BY DEF DoneOk
    <2>2. ASSUME NEW q \in Requests \ {r}  PROVE DoneOk(q)'
      <3>1. req'[q] = req[q] /\ DoneOk(q) /\ Own(q)' = Own(q)
        BY <1>3, <1>4
      <3> QED BY <1>6, <3>1 DEF DoneOk, Live
    <2> QED BY <2>1, <2>2
  <1>11. \A q \in Requests : ErrorOk(q)'
    BY <1>3, <1>4, <1>5 DEF ErrorOk
  <1>12. OpenIsPrivate'
    <2> SUFFICES ASSUME NEW p \in Requests, NEW q \in Requests, p # q,
                        req'[p].session = req'[q].session, NEW s \in SessionIds,
                        s = req'[p].session
                 PROVE  sessions'[s] # "open"
      BY DEF OpenIsPrivate
    <2>1. ASSUME NEW x \in Requests, x # r, u.session = req[x].session, s = u.session
          PROVE  sessions'[s] # "open"
      <3>1. sessions[s] # "unused"
        BY <1>3, <2>1 DEF SessionOk
      <3> QED BY <1>1, <2>1, <3>1 DEF Live
    <2>2. CASE p = r
      BY <2>1, <2>2
    <2>3. CASE q = r
      BY <2>1, <2>3
    <2>4. CASE p # r /\ q # r
      <3>1. req'[p] = req[p] /\ req'[q] = req[q]
        BY <2>4
      <3>2. sessions[s] # "open"
        BY <3>1 DEF IInv, OpenIsPrivate
      <3>3. sessions'[s] = sessions[s]
        BY <1>6, <2>4, <3>1
      <3> QED BY <3>2, <3>3
    <2> QED BY <2>2, <2>3, <2>4
  <1>13. MessagesOk'
    <2> SUFFICES ASSUME NEW m \in messages
                 PROVE  m.session = req'[m.request].session /\ sessions'[m.session] = "live"
      BY DEF MessagesOk, Live
    <2>1. m.request \in Requests /\ m.session \in SessionIds
      BY DEF TypeOK, ChatMessage
    <2>2. m.session = req[m.request].session /\ sessions[m.session] = "live"
      BY DEF IInv, MessagesOk, Live
    <2>3. m.request # r
      BY <1>5 DEF Own
    <2> QED BY <1>1, <2>1, <2>2, <2>3
  <1>14. \A k \in Deleters : DeletionOk(k)'
    BY DEF IInv, DeletionOk
  <1>15. EmptyOk'
    <2> SUFFICES ASSUME NEW s \in SessionIds, s \notin lost, sessions'[s] = "live",
                        MessagesOf(s) = {}
                 PROVE  \E q \in Requests : /\ req'[q].created /\ req'[q].session = s
                                            /\ req'[q].pc \in Late
      BY DEF EmptyOk, Live, MessagesOf
    <2>1. CASE sessions[s] = "live"
      <3>1. PICK q \in Requests : req[q].created /\ req[q].session = s /\ req[q].pc \in Late
        BY <2>1 DEF IInv, EmptyOk, Live
      <3>2. q # r
        BY <3>1 DEF Late
      <3> QED BY <3>1, <3>2
    <2>2. CASE sessions[s] # "live"
      BY <1>1, <2>2 DEF Late
    <2> QED BY <2>1, <2>2
  <1>16. RequestsOk'
    <2>1. \A q \in Requests : ToldOk(q)'
      BY DEF IInv, RequestsOk, ToldOk
    <2> QED BY <1>7, <1>8, <1>9, <1>10, <1>11, <2>1 DEF RequestsOk
  <1> QED BY <1>2, <1>12, <1>13, <1>14, <1>15, <1>16 DEF IInv

\* The three ways in which a request begins.
Found(stream, s, history, earlier) ==
  [Idle EXCEPT !.pc = "retrieving", !.stream = stream, !.session = s,
               !.history = history, !.earlier = earlier]
Promised == [Idle EXCEPT !.pc = "retrieving", !.stream = TRUE, !.created = TRUE]
Made(s) == [Idle EXCEPT !.pc = "retrieving", !.session = s]

LEMMA FoundTyped ==
  ASSUME NEW stream, stream \in BOOLEAN, NEW s \in SessionIds,
         NEW history \in SUBSET Requests, NEW earlier \in SUBSET Requests
  PROVE  LET u == Found(stream, s, history, earlier) IN
           /\ u \in Request /\ u.pc = "retrieving" /\ u.created = FALSE
           /\ u.session = s /\ u.outcome = "nothing"
  BY DEF Found, Idle, Request, Step, Outcome

LEMMA PromisedTyped ==
  /\ Promised \in Request /\ Promised.pc = "retrieving" /\ Promised.created = TRUE
  /\ Promised.stream = TRUE /\ Promised.session = None /\ Promised.outcome = "nothing"
  BY DEF Promised, Idle, Request, Step, Outcome

LEMMA MadeTyped ==
  ASSUME NEW s \in SessionIds
  PROVE  /\ Made(s) \in Request /\ Made(s).pc = "retrieving" /\ Made(s).created = FALSE
         /\ Made(s).session = s /\ Made(s).outcome = "nothing"
  BY DEF Made, Idle, Request, Step, Outcome

LEMMA AnsweredTyped ==
  ASSUME TypeOK, NEW s \in SessionIds
  PROVE  Answered(s) \subseteq Requests
  <1>1. RecentMessages(s) \subseteq messages
    BY DEF RecentMessages, MessagesOf
  <1>2. \A m \in messages : m.request \in Requests
    BY DEF TypeOK, ChatMessage
  <1> QED BY <1>1, <1>2 DEF Answered

LEMMA AskStep ==
  ASSUME TypeOK, IInv, NEW r \in Requests, Ask(r)
  PROVE  TypeOK' /\ IInv'
  <1>1. /\ req[r].pc = "idle"
        /\ UNCHANGED <<messages, pending, nextId, dels, lost, faults, crashes>>
    BY DEF Ask, At
  <1>3. ASSUME NEW u \in Request, req' = [req EXCEPT ![r] = u], NewOrLive(u),
               u.pc = "retrieving", u.outcome = "nothing", u.created => u.stream,
               IF u.created THEN u.session = None ELSE u.session \in SessionIds
        PROVE  TypeOK' /\ IInv'
    <2>1. /\ req' \in [Requests -> Request] /\ req'[r] = u
          /\ \A q \in Requests : q # r => req'[q] = req[q]
      BY <1>3 DEF TypeOK
    <2> QED BY <1>1, <1>3, <2>1, Begin
  <1>4. ASSUME NEW stream \in BOOLEAN, NEW s \in SessionIds, Live(s), UNCHANGED sessions,
               NEW earlier \in SUBSET Requests,
               req' = [req EXCEPT ![r] = Found(stream, s, Answered(s), earlier)]
        PROVE  TypeOK' /\ IInv'
    <2> DEFINE u == Found(stream, s, Answered(s), earlier)
    <2>1. Answered(s) \in SUBSET Requests
      BY AnsweredTyped
    <2>2. /\ u \in Request /\ u.pc = "retrieving" /\ u.created = FALSE
          /\ u.session = s /\ u.outcome = "nothing"
      <3> DEFINE h == Answered(s)
      <3>1. h \in SUBSET Requests
        BY <2>1
      <3> HIDE DEF h
      <3>2. LET v == Found(stream, s, h, earlier) IN
              /\ v \in Request /\ v.pc = "retrieving" /\ v.created = FALSE
              /\ v.session = s /\ v.outcome = "nothing"
        BY <3>1 DEF Found, Idle, Request, Step, Outcome
      <3> QED BY <3>2 DEF h
    <2>3. NewOrLive(u)
      BY <1>4, <2>2 DEF NewOrLive
    <2>4. req' = [req EXCEPT ![r] = u]
      BY <1>4
    <2> HIDE DEF u
    <2> QED BY <1>3, <2>2, <2>3, <2>4
  <1>5. ASSUME UNCHANGED sessions, req' = [req EXCEPT ![r] = Promised]
        PROVE  TypeOK' /\ IInv'
    <2>1. NewOrLive(Promised)
      BY <1>5, PromisedTyped, ChatAssumption DEF NewOrLive
    <2> QED BY <1>3, <1>5, <2>1, PromisedTyped
  <1>6. ASSUME NEW s \in SessionIds, NextSession(s),
               sessions' = [sessions EXCEPT ![s] = "open"],
               req' = [req EXCEPT ![r] = Made(s)]
        PROVE  TypeOK' /\ IInv'
    <2>1. NewOrLive(Made(s))
      BY <1>6, MadeTyped DEF NewOrLive, NextSession
    <2> QED BY <1>3, <1>6, <2>1, MadeTyped
  <1>7. \/ \E stream \in BOOLEAN, s \in SessionIds, earlier \in SUBSET Requests :
             /\ Live(s) /\ UNCHANGED sessions
             /\ req' = [req EXCEPT ![r] = Found(stream, s, Answered(s), earlier)]
        \/ UNCHANGED sessions /\ req' = [req EXCEPT ![r] = Promised]
        \/ \E s \in SessionIds :
             /\ NextSession(s) /\ sessions' = [sessions EXCEPT ![s] = "open"]
             /\ req' = [req EXCEPT ![r] = Made(s)]
    <2>1. \A s : {q \in Requests : req[q].session = s /\ req[q].outcome = "done"} \in SUBSET Requests
      OBVIOUS
    <2> QED BY <2>1 DEF Ask, Found, Promised, Made
  <1> QED BY <1>4, <1>5, <1>6, <1>7

LEMMA StartStep ==
  ASSUME TypeOK, IInv, NEW r \in Requests, StartResponse(r)
  PROVE  TypeOK' /\ IInv'
  <1>1. /\ req[r].pc = "retrieving" /\ req[r].stream
        /\ UNCHANGED <<messages, pending, nextId, dels, lost, faults, crashes>>
    BY DEF StartResponse, At
  <1>2. OwnOk(r) /\ SessionOk(r) /\ ErrorOk(r) /\ req[r].outcome = "nothing"
    BY <1>1 DEF IInv, RequestsOk, ToldOk
  <1>3. "response" \in Step
    BY DEF Step
  <1>4. CASE req[r].created
    <2>1. PICK s \in SessionIds :
            /\ NextSession(s) /\ sessions' = [sessions EXCEPT ![s] = "live"]
            /\ req' = [req EXCEPT ![r].pc = "response", ![r].session = s]
      BY <1>4 DEF StartResponse
    <2> DEFINE v == [req[r] EXCEPT !.pc = "response"]
               u == [v EXCEPT !.session = s]
    <2>2. req[r] \in Request /\ req' = [req EXCEPT ![r] = u]
      BY <2>1 DEF TypeOK
    <2>3. /\ v \in Request /\ v.pc = "response" /\ v.outcome = req[r].outcome
          /\ v.created = req[r].created /\ v.stream = req[r].stream
      BY <1>3, <2>2, FieldsTyped
    <2> HIDE DEF v
    <2>4. /\ u \in Request /\ u.pc = "response" /\ u.outcome = req[r].outcome
          /\ u.created = req[r].created /\ u.stream = req[r].stream /\ u.session = s
      BY <2>3, FieldsTyped
    <2> HIDE DEF u
    <2>5. NewOrLive(u)
      BY <1>4, <2>1, <2>4 DEF NewOrLive, NextSession
    <2>6. u.created => u.stream
      BY <1>1, <2>4
    <2>7. /\ req' \in [Requests -> Request] /\ req'[r] = u
          /\ \A q \in Requests : q # r => req'[q] = req[q]
      BY <2>2, <2>4 DEF TypeOK
    <2> QED BY <1>1, <1>2, <1>4, <2>4, <2>5, <2>6, <2>7, Begin
  <1>5. CASE ~req[r].created
    <2>1. Goto(r, "response") /\ UNCHANGED sessions
      BY <1>5 DEF StartResponse
    <2>2. Moves(r, "response", req[r].outcome)
      BY <1>3, <2>1, GotoMoves
    <2>3. req' \in [Requests -> Request] /\ lost' \subseteq SessionIds /\ faults' \in Nat
      BY <1>1, <2>2 DEF TypeOK, Moves
    <2>4. TypeOK'
      BY <1>1, <2>1, <2>3, QuietTyped
    <2>5. Own(r) = {}
      BY <1>1, <1>2 DEF OwnOk
    <2> QED BY <1>1, <1>2, <1>3, <1>5, <2>1, <2>2, <2>4, <2>5, OutcomeTyped, Quiet
  <1> QED BY <1>4, <1>5

-----------------------------------------------------------------------------
(* The exchange.                                                           *)

LEMMA InsertTyped ==
  ASSUME TypeOK, NEW r \in Requests, NEW role \in {"user", "assistant"},
         req[r].session \in SessionIds, Insert(r, role)
  PROVE  /\ pending' \in [Requests -> SUBSET ChatMessage] /\ nextId' \in Nat
         /\ pending'[r] = pending[r] \cup {Row(nextId, r, role)}
         /\ \A q \in Requests : q # r => pending'[q] = pending[q]
  <1>1. Row(nextId, r, role) \in ChatMessage
    BY DEF Row, ChatMessage, TypeOK
  <1>2. pending' = [pending EXCEPT ![r] = @ \cup {Row(nextId, r, role)}] /\ nextId' = nextId + 1
    BY DEF Insert, Row
  <1>3. pending \in [Requests -> SUBSET ChatMessage] /\ nextId \in Nat
    BY DEF TypeOK
  <1> HIDE DEF Row
  <1> QED BY <1>1, <1>2, <1>3

LEMMA StoreSteps ==
  ASSUME TypeOK, IInv, NEW r \in Requests, StoreQuestion(r) \/ StoreAnswer(r)
  PROVE  TypeOK' /\ IInv'
  <1>1. UNCHANGED <<sessions, messages, dels, lost, faults, crashes>>
    BY DEF StoreQuestion, StoreAnswer
  <1>2. \A q \in Requests : OwnOk(q) /\ DoneOk(q) /\ ErrorOk(q) /\ SessionOk(q) /\ PendingOk(q)
    BY DEF IInv, RequestsOk
  <1>3. \/ /\ req[r].pc = "storing" /\ Visible(r) /\ Insert(r, "user") /\ Goto(r, "answer")
        \/ /\ req[r].pc = "answer" /\ Insert(r, "assistant") /\ Goto(r, "commit")
    BY DEF StoreQuestion, StoreAnswer, At
  <1>4. PICK x \in {"answer", "commit"}, role \in {"user", "assistant"} :
          /\ Insert(r, role) /\ Goto(r, x)
          /\ \/ req[r].pc = "storing" /\ Visible(r) /\ x = "answer" /\ role = "user"
             \/ req[r].pc = "answer" /\ x = "commit" /\ role = "assistant"
    <2>1. \E x \in {"answer", "commit"}, role \in {"user", "assistant"} :
            /\ Insert(r, role) /\ Goto(r, x)
            /\ \/ req[r].pc = "storing" /\ Visible(r) /\ x = "answer" /\ role = "user"
               \/ req[r].pc = "answer" /\ x = "commit" /\ role = "assistant"
      <3>1. CASE req[r].pc = "storing" /\ Visible(r) /\ Insert(r, "user") /\ Goto(r, "answer")
        BY <3>1
      <3>2. CASE req[r].pc = "answer" /\ Insert(r, "assistant") /\ Goto(r, "commit")
        BY <3>2
      <3> QED BY <1>3, <3>1, <3>2
    <2> QED BY <2>1
  <1>5. req[r].session \in SessionIds /\ Visible(r) /\ Own(r) = {}
    BY <1>2, <1>4 DEF SessionOk, Late, PendingOk, OwnOk
  <1>6. Moves(r, x, req[r].outcome)
    BY <1>4, GotoMoves DEF Step
  <1>7. /\ req' \in [Requests -> Request]
        /\ \A q \in Requests : Kept(q) /\ (q # r => req'[q] = req[q])
        /\ req'[r].pc = x /\ req'[r].outcome = req[r].outcome
    BY <1>6 DEF Moves
  <1>8. TypeOK'
    BY <1>1, <1>4, <1>5, <1>7, InsertTyped DEF TypeOK
  <1>9. \A q \in Requests : PendingOk(q)'
    <2>1. Visible(r)' /\ req'[r].session = req[r].session
      BY <1>1, <1>5, <1>7 DEF Visible, Kept
    <2>2. nextId \in Nat
      BY DEF TypeOK
    <2>3. ASSUME req[r].pc = "storing"  PROVE PendingOk(r)'
      <3>1. pending'[r] = {Row(nextId, r, "user")}
        BY <1>2, <1>4, <1>5, <2>3, InsertTyped DEF PendingOk
      <3>2. x = "answer"
        BY <1>4, <2>3
      <3>3. \E i \in Nat : pending'[r] =
              {[id |-> i, session |-> req'[r].session, request |-> r, role |-> "user"]}
        BY <2>1, <2>2, <3>1 DEF Row
      <3> QED BY <1>7, <2>1, <3>2, <3>3 DEF PendingOk, Row
    <2>4. ASSUME req[r].pc = "answer"  PROVE PendingOk(r)'
      <3>1. PICK i \in Nat : pending[r] = {Row(i, r, "user")}
        BY <1>2, <2>4 DEF PendingOk
      <3>2. pending'[r] = {Row(i, r, "user"), Row(nextId, r, "assistant")}
        BY <1>4, <1>5, <2>4, <3>1, InsertTyped
      <3>3. x = "commit"
        BY <1>4, <2>4
      <3>4. \E a, b \in Nat : pending'[r] =
              {[id |-> a, session |-> req'[r].session, request |-> r, role |-> "user"],
               [id |-> b, session |-> req'[r].session, request |-> r, role |-> "assistant"]}
        BY <2>1, <2>2, <3>2 DEF Row
      <3> QED BY <1>7, <2>1, <3>3, <3>4 DEF PendingOk, Exchange, Row
    <2>5. PendingOk(r)'
      BY <1>4, <2>3, <2>4
    <2>6. ASSUME NEW q \in Requests, q # r  PROVE PendingOk(q)'
      <3>1. Visible(q) => Visible(q)'
        BY <1>1, <1>7, <2>6 DEF Visible
      <3>2. pending'[q] = pending[q]
        BY <1>4, <1>5, <2>6, InsertTyped
      <3> QED BY <1>7, <2>6, <3>1, <3>2, PendingKept
    <2> QED BY <2>5, <2>6
  <1>10. \A q \in Requests : Own(q)' = Own(q)
    BY <1>1 DEF Own
  <1>11. \A q \in Requests : req'[q].pc \in Late => req[q].session \in SessionIds
    BY <1>2, <1>5, <1>7 DEF SessionOk
  <1>12. \A q \in Requests : Own(q) # {} =>
            req'[q].pc \in {"refresh", "events", "failing", "cancelled", "end"}
    BY <1>2, <1>5, <1>7 DEF OwnOk
  <1>13. \A q \in Requests : req'[q].pc \in {"refresh", "events"} \/ req'[q].outcome = "done"
            => req[q].pc \in {"refresh", "events"} \/ req[q].outcome = "done"
    BY <1>7
  <1>14. \A q \in Requests : faults' = 0 /\ (req'[q].pc = "failing" \/ req'[q].outcome = "error")
            => Own(q) = {}
    BY <1>1, <1>2, <1>5, <1>7 DEF ErrorOk
  <1>15. \A k \in Deleters : DeletionOk(k)'
    BY <1>1 DEF IInv, DeletionOk
  <1>16. \A q \in Requests : req[q].created /\ req[q].pc \in Late => req'[q].pc \in Late
    BY <1>7 DEF Late
  <1>17. \A q \in Requests : req'[q].pc = "retrieving" => req[q].pc = "retrieving"
    BY <1>7
  <1>18. \A q \in Requests : Kept(q) /\ ToldOk(q)'
    BY <1>7, <1>4 DEF IInv, RequestsOk, ToldOk
  <1>19. IInv'
    BY <1>1, <1>9, <1>10, <1>11, <1>12, <1>13, <1>14, <1>15, <1>16, <1>17, <1>18, Frame
  <1> QED BY <1>8, <1>19

LEMMA CommitStep ==
  ASSUME TypeOK, IInv, NEW r \in Requests, CommitExchange(r)
  PROVE  TypeOK' /\ IInv'
  <1> DEFINE s == req[r].session
  <1>1. /\ req[r].pc = "commit" /\ Goto(r, "refresh")
        /\ messages' = messages \cup pending[r]
        /\ pending' = [pending EXCEPT ![r] = {}]
        /\ sessions' = [sessions EXCEPT ![s] = "live"]
        /\ UNCHANGED <<nextId, dels, lost, faults, crashes>>
    BY DEF CommitExchange, At
  <1>2. \A q \in Requests : /\ OwnOk(q) /\ DoneOk(q) /\ ErrorOk(q) /\ ToldOk(q)
                            /\ SessionOk(q) /\ PendingOk(q)
    BY DEF IInv, RequestsOk
  <1>3. Moves(r, "refresh", req[r].outcome)
    BY <1>1, GotoMoves DEF Step
  <1>4. /\ req' \in [Requests -> Request]
        /\ \A q \in Requests : Kept(q) /\ (q # r => req'[q] = req[q])
        /\ req'[r].pc = "refresh" /\ req'[r].outcome = req[r].outcome
    BY <1>3 DEF Moves
  <1>5. s \in SessionIds /\ Visible(r) /\ Own(r) = {}
    BY <1>1, <1>2 DEF SessionOk, Late, PendingOk, OwnOk
  <1>6. PICK i, j \in Nat : pending[r] = Exchange(i, j, r)
    BY <1>1, <1>2 DEF PendingOk
  <1>7. \A m \in pending[r] : m.request = r /\ m.session = s
    BY <1>6 DEF Exchange, Row
  <1>8. /\ pending'[r] = {} /\ \A q \in Requests : q # r => pending'[q] = pending[q]
        /\ sessions'[s] = "live" /\ \A x \in SessionIds : x # s => sessions'[x] = sessions[x]
        /\ pending[r] \in SUBSET ChatMessage
    BY <1>1, <1>5 DEF TypeOK
  <1>9. TypeOK'
    <2>1. messages' \in SUBSET ChatMessage
      BY <1>1, <1>8 DEF TypeOK
    <2>2. pending' \in [Requests -> SUBSET ChatMessage]
      BY <1>1 DEF TypeOK
    <2>3. sessions' \in [SessionIds -> {"unused", "open", "live", "gone"}]
      BY <1>1 DEF TypeOK
    <2> QED BY <1>1, <1>4, <2>1, <2>2, <2>3 DEF TypeOK
  <1>10. Own(r)' = Exchange(i, j, r) /\ \A q \in Requests : q # r => Own(q)' = Own(q)
    <2>1. \A m \in pending[r] : m.request = r
      BY <1>7
    <2>2. \A m \in messages : m.request # r
      BY <1>5 DEF Own
    <2>3. Own(r)' = pending[r]
      BY <1>1, <2>1, <2>2 DEF Own
    <2>4. \A q \in Requests : q # r => Own(q)' = Own(q)
      BY <1>1, <2>1 DEF Own
    <2> QED BY <1>6, <2>3, <2>4
  \* A request other than r does not see an uncommitted session of r.
  <1>11. ASSUME NEW q \in Requests, q # r, req[q].session \in SessionIds
         PROVE  sessions'[req[q].session] = sessions[req[q].session]
    <2>1. CASE req[q].session = s
      <3>1. sessions[s] # "open"
        BY <1>5, <1>11, <2>1 DEF IInv, OpenIsPrivate
      <3>2. sessions[s] = "live"
        BY <1>5, <3>1 DEF Visible
      <3> QED BY <1>8, <2>1, <3>2
    <2>2. CASE req[q].session # s
      BY <1>8, <1>11, <2>2
    <2> QED BY <2>1, <2>2
  <1>12. \A q \in Requests : SessionOk(q)'
    <2>1. SessionOk(r)'
      BY <1>2, <1>4, <1>5, <1>8 DEF SessionOk, Kept
    <2>2. ASSUME NEW q \in Requests, q # r  PROVE SessionOk(q)'
      BY <1>2, <1>4, <1>11, <2>2 DEF SessionOk
    <2> QED BY <2>1, <2>2
  <1>13. \A q \in Requests : PendingOk(q)'
    <2>1. PendingOk(r)'
      BY <1>4, <1>8 DEF PendingOk
    <2>2. ASSUME NEW q \in Requests, q # r  PROVE PendingOk(q)'
      <3>1. req'[q] = req[q] /\ pending'[q] = pending[q]
        BY <1>4, <1>8, <2>2
      <3>2. PendingOk(q) /\ (req[q].pc \in {"answer", "commit"} => req[q].session \in SessionIds)
        BY <1>2 DEF SessionOk, Late
      <3>3. req[q].pc \in {"answer", "commit"} => Visible(q)'
        BY <1>11, <2>2, <3>1, <3>2 DEF PendingOk, Visible
      <3> QED BY <3>1, <3>2, <3>3 DEF PendingOk, Exchange, Row
    <2> QED BY <2>1, <2>2
  <1>14. \A q \in Requests : OwnOk(q)'
    <2>1. OwnOk(r)'
      <3>1. Exchange(i, j, r)' = Exchange(i, j, r)
        BY <1>4 DEF Exchange, Row, Kept
      <3>2. Own(r)' = Exchange(i, j, r)'
        BY <1>10, <3>1
      <3> QED BY <1>4, <3>2 DEF OwnOk
    <2>2. ASSUME NEW q \in Requests, q # r  PROVE OwnOk(q)'
      <3>1. req'[q] = req[q] /\ Own(q)' = Own(q) /\ OwnOk(q)
        BY <1>2, <1>4, <1>10, <2>2
      <3> QED BY <3>1 DEF OwnOk, Exchange, Row
    <2> QED BY <2>1, <2>2
  <1>15. \A q \in Requests : DoneOk(q)'
    <2>1. DoneOk(r)'
      <3>1. Own(r)' # {}
        BY <1>10 DEF Exchange
      <3> QED BY <1>4, <1>5, <3>1 DEF DoneOk, Kept
    <2>2. ASSUME NEW q \in Requests, q # r  PROVE DoneOk(q)'
      <3>1. req'[q] = req[q] /\ Own(q)' = Own(q) /\ DoneOk(q)
        BY <1>2, <1>4, <1>10, <2>2
      <3> QED BY <1>11, <2>2, <3>1 DEF DoneOk, Live
    <2> QED BY <2>1, <2>2
  <1>16. \A q \in Requests : ErrorOk(q)'
    <2>1. ErrorOk(r)'
      BY <1>1, <1>2, <1>4 DEF ErrorOk, ToldOk
    <2>2. ASSUME NEW q \in Requests, q # r  PROVE ErrorOk(q)'
      <3>1. req'[q] = req[q] /\ Own(q)' = Own(q)
        BY <1>4, <1>10, <2>2
      <3> QED BY <1>1, <1>2, <3>1 DEF ErrorOk
    <2> QED BY <2>1, <2>2
  <1>17. \A q \in Requests : ToldOk(q)'
    BY <1>1, <1>2, <1>4 DEF ToldOk
  <1>18. OpenIsPrivate'
    <2> SUFFICES ASSUME NEW p \in Requests, NEW q \in Requests, p # q,
                        req'[p].session = req'[q].session, NEW x \in SessionIds,
                        x = req'[p].session
                 PROVE  sessions'[x] # "open"
      BY DEF OpenIsPrivate
    <2>1. req[p].session = req[q].session /\ x = req[p].session
      BY <1>4 DEF Kept
    <2>2. sessions[x] # "open"
      BY <2>1 DEF IInv, OpenIsPrivate
    <2> QED BY <1>8, <2>2
  <1>19. MessagesOk'
    <2> SUFFICES ASSUME NEW m \in messages'
                 PROVE  m.session = req'[m.request].session /\ sessions'[m.session] = "live"
      BY DEF MessagesOk, Live
    <2>1. CASE m \in messages
      <3>1. m.request \in Requests /\ m.session \in SessionIds
        BY <2>1 DEF TypeOK, ChatMessage
      <3>2. m.session = req[m.request].session /\ sessions[m.session] = "live"
        BY <2>1 DEF IInv, MessagesOk, Live
      <3> QED BY <1>4, <1>8, <3>1, <3>2 DEF Kept
    <2>2. CASE m \in pending[r]
      BY <1>4, <1>7, <1>8, <2>2 DEF Kept
    <2> QED BY <1>1, <2>1, <2>2
  <1>20. \A k \in Deleters : DeletionOk(k)'
    BY <1>1 DEF IInv, DeletionOk
  <1>21. EmptyOk'
    <2> SUFFICES ASSUME NEW x \in SessionIds, x \notin lost, sessions'[x] = "live",
                        MessagesOf(x)' = {}
                 PROVE  \E q \in Requests : /\ req'[q].created /\ req'[q].session = x
                                            /\ req'[q].pc \in Late
      BY <1>1 DEF EmptyOk, Live
    <2>1. x # s
      <3>1. Row(i, r, "user") \in messages' /\ Row(i, r, "user").session = s
        BY <1>1, <1>6 DEF Exchange, Row
      <3> QED BY <3>1 DEF MessagesOf
    <2>2. sessions[x] = "live" /\ MessagesOf(x) = {}
      BY <1>1, <1>8, <2>1 DEF MessagesOf
    <2>3. PICK q \in Requests : req[q].created /\ req[q].session = x /\ req[q].pc \in Late
      BY <2>2 DEF IInv, EmptyOk, Live
    <2> QED BY <1>4, <2>1, <2>3
  <1>22. RequestsOk'
    BY <1>12, <1>13, <1>14, <1>15, <1>16, <1>17 DEF RequestsOk
  <1> QED BY <1>9, <1>18, <1>19, <1>20, <1>21, <1>22 DEF IInv

-----------------------------------------------------------------------------
(* The theorems.                                                           *)

LEMMA InitInv == Init => TypeOK /\ IInv
  <1> SUFFICES ASSUME Init  PROVE TypeOK /\ IInv
    OBVIOUS
  <1>1. Idle \in Request /\ Idle.pc = "idle" /\ Idle.session = None
          /\ Idle.outcome = "nothing" /\ Idle.created = FALSE
    BY DEF Idle, Request, Step, Outcome
  <1>2. NoDeletion \in Deletion /\ NoDeletion.pc = "idle"
    BY DEF NoDeletion, Deletion
  <1>3. TypeOK
    BY <1>1, <1>2 DEF Init, TypeOK
  <1>4. \A r \in Requests : req[r] = Idle /\ pending[r] = {} /\ Own(r) = {}
    BY DEF Init, Own
  <1>5. RequestsOk
    BY <1>1, <1>4, ChatAssumption
    DEF RequestsOk, SessionOk, PendingOk, OwnOk, ToldOk, DoneOk, ErrorOk, Late
  <1>6. OpenIsPrivate /\ MessagesOk /\ EmptyOk
    BY DEF Init, OpenIsPrivate, MessagesOk, EmptyOk, Live
  <1>7. \A k \in Deleters : DeletionOk(k)
    BY <1>2 DEF Init, DeletionOk
  <1> QED BY <1>3, <1>5, <1>6, <1>7 DEF IInv

LEMMA ProgressStep ==
  ASSUME TypeOK, IInv, NEW r \in Requests, Progress(r)
  PROVE  TypeOK' /\ IInv'
  BY FailSteps, QuietSteps, StartStep, DropStep, StoreSteps, CommitStep, RefreshStep,
     DoneStep, CleanUpSteps, DeleteEmptyStep, FailCleanUpStep DEF Progress

LEMMA NextInv ==
  ASSUME TypeOK, IInv, [Next]_vars
  PROVE  TypeOK' /\ IInv'
  <1>1. CASE UNCHANGED vars
    <2>1. TypeOK'
      BY <1>1 DEF vars, TypeOK
    <2>2. IInv'
      BY <1>1 DEF vars, IInv, RequestsOk, OpenIsPrivate, MessagesOk, DeletionOk, EmptyOk,
             SessionOk, PendingOk, OwnOk, ToldOk, DoneOk, ErrorOk, Own, Exchange, Row,
             Visible, Live, MessagesOf
    <2> QED BY <2>1, <2>2
  <1>2. CASE Next
    BY <1>2, AskStep, ProgressStep, AskDeleteStep, DeleteStep, CrashStep DEF Next
  <1> QED BY <1>1, <1>2

\* Whatever requests and deletions do, the invariant holds: who a session
\* belongs to until it is committed, what each request has stored at each step.
THEOREM Invariant == Spec => [](TypeOK /\ IInv)
  <1>1. Init => TypeOK /\ IInv
    BY InitInv
  <1>2. TypeOK /\ IInv /\ [Next]_vars => (TypeOK /\ IInv)'
    BY NextInv
  <1> QED BY <1>1, <1>2, PTL DEF Spec

\* Every variable keeps its type; the proof shows that a request that stores a
\* message or looks at a session has one (chat.py: new_session_parameters).
THEOREM TypeCorrect == Spec => []TypeOK
  BY Invariant, PTL

\* A question and its answer are stored together, in the session of their
\* request, however its transaction ends (chat.py: _persist_exchange).
THEOREM WholeExchanges == Spec => []ExchangesAreWhole
  <1>1. ASSUME TypeOK, IInv  PROVE ExchangesAreWhole
    <2> SUFFICES ASSUME NEW r \in Requests, Own(r) # {}
                 PROVE  /\ {m.role : m \in Own(r)} = {"user", "assistant"}
                        /\ Cardinality(Own(r)) = 2
                        /\ \A m \in Own(r) : m.session = req[r].session /\ Live(m.session)
      BY DEF ExchangesAreWhole, Own
    <2>1. PICK i, j \in Nat : Own(r) = Exchange(i, j, r)
      BY <1>1 DEF IInv, RequestsOk, OwnOk
    <2>2. /\ Row(i, r, "user").role = "user" /\ Row(j, r, "assistant").role = "assistant"
          /\ Row(i, r, "user") # Row(j, r, "assistant")
      BY DEF Row
    <2>3. {m.role : m \in Own(r)} = {"user", "assistant"}
      BY <2>1, <2>2 DEF Exchange
    <2>4. Cardinality(Own(r)) = 2
      <3> DEFINE one == {Row(i, r, "user")}
      <3>1. IsFiniteSet(one) /\ Cardinality(one) = 1
        BY FS_Singleton
      <3>2. Cardinality(one \cup {Row(j, r, "assistant")}) = Cardinality(one) + 1
        BY <2>2, <3>1, FS_AddElement
      <3>3. Own(r) = one \cup {Row(j, r, "assistant")}
        BY <2>1 DEF Exchange
      <3> QED BY <3>1, <3>2, <3>3
    <2>5. \A m \in Own(r) : m.session = req[r].session /\ Live(m.session)
      BY <1>1 DEF Own, IInv, MessagesOk
    <2> QED BY <2>3, <2>4, <2>5
  <1> QED BY <1>1, Invariant, PTL

\* A client that was told "done" finds its exchange for as long as the session
\* is there (chat.py: the events are sent after the commit).
THEOREM DoneStored == Spec => []DoneIsStored
  <1>1. ASSUME IInv  PROVE DoneIsStored
    BY <1>1 DEF IInv, RequestsOk, DoneOk, Own, DoneIsStored
  <1> QED BY <1>1, Invariant, PTL

\* A client that was told of an error finds nothing of its request stored, as
\* long as the database has not failed (chat.py: the except branches).
THEOREM ErrorNotStored == Spec => []ErrorIsNotStored
  <1>1. ASSUME IInv  PROVE ErrorIsNotStored
    BY <1>1 DEF IInv, RequestsOk, ErrorOk, Own, ErrorIsNotStored
  <1> QED BY <1>1, Invariant, PTL

\* A session without messages has a request at work on it, unless its stream
\* never ran or its cleanup was cut off (chat.py: _cleanup_empty_session).
THEOREM EmptySessions == Spec => []EmptySessionsAreLost
  <1>1. ASSUME IInv  PROVE EmptySessionsAreLost
    <2> SUFFICES ASSUME NEW s \in SessionIds \ lost, Live(s), MessagesOf(s) = {}
                 PROVE  \E r \in Requests : Running(r) /\ req[r].session = s
      BY DEF EmptySessionsAreLost
    <2>1. PICK r \in Requests : req[r].created /\ req[r].session = s /\ req[r].pc \in Late
      BY <1>1 DEF IInv, EmptyOk
    <2> QED BY <2>1 DEF Running, At, Late
  <1> QED BY <1>1, Invariant, PTL

\* What the client was told last is what is stored, while the database has not
\* failed after a commit.
THEOREM OutcomeStored == Spec => []OutcomeIsStored
  BY DoneStored, ErrorNotStored, PTL DEF OutcomeIsStored

\* A live session holds whole exchanges, and at least one unless its stream is
\* at work or was lost.
THEOREM SessionsHold == Spec => []SessionsHoldExchanges
  BY WholeExchanges, EmptySessions, PTL DEF SessionsHoldExchanges

\* The cleanup of a failed stream takes no message along: only a deletion the
\* user asked for empties a session (chat.py: delete_session after the check).
THEOREM CleanupKeeps == Spec => CleanupKeepsAnswers
  <1>1. TypeOK /\ IInv /\ [Next]_vars => [EmptiedByDeletion]_vars
    <2> DEFINE Deletes(s) == \E k \in Deleters :
                 dels[k].pc = "delete" /\ dels[k].session = s /\ dels'[k].pc = "end"
    <2> SUFFICES ASSUME TypeOK, IInv, Next,
                        NEW s \in SessionIds, NEW m \in MessagesOf(s), MessagesOf(s)' = {}
                 PROVE  Deletes(s)
      BY DEF EmptiedByDeletion
    <2>1. m \in messages /\ m \notin messages' /\ m.session = s
      BY DEF MessagesOf
    <2>2. ASSUME messages \subseteq messages'  PROVE FALSE
      BY <2>1, <2>2
    <2>3. ASSUME NEW r \in Requests, Ask(r) \/ Progress(r)  PROVE FALSE
      <3>1. CASE DeleteEmptySession(r)
        BY <2>2, <3>1 DEF DeleteEmptySession, DeleteRow, MessagesOf
      <3>2. CASE ~DeleteEmptySession(r)
        <4>1. CASE Ask(r) \/ AnswerChat(r) \/ StartResponse(r) \/ DropResponse(r)
          BY <2>2, <4>1 DEF Ask, AnswerChat, StartResponse, DropResponse
        <4>2. CASE BeginStream(r) \/ Generate(r) \/ LeaveStream(r) \/ RefreshSession(r)
          BY <2>2, <4>2 DEF BeginStream, Generate, LeaveStream, RefreshSession
        <4>3. CASE SendDone(r) \/ CleanUp(r) \/ FailCleanUp(r)
          BY <2>2, <4>3 DEF SendDone, CleanUp, FailCleanUp
        <4>4. CASE StoreQuestion(r) \/ StoreAnswer(r) \/ CommitExchange(r)
          BY <2>2, <4>4 DEF StoreQuestion, StoreAnswer, CommitExchange
        <4>5. CASE FailRequest(r) \/ FailStoring(r)
          BY <2>2, <4>5 DEF FailRequest, FailStoring
        <4> QED BY <2>3, <3>2, <4>1, <4>2, <4>3, <4>4, <4>5 DEF Progress
      <3> QED BY <3>1, <3>2
    <2>4. ASSUME NEW k \in Deleters, AskDelete(k)  PROVE FALSE
      BY <2>2, <2>4 DEF AskDelete
    <2>5. ASSUME NEW k \in Deleters, DeleteSession(k)  PROVE Deletes(s)
      <3>1. dels[k].pc = "delete" /\ dels' = [dels EXCEPT ![k] = [NoDeletion EXCEPT !.pc = "end"]]
        BY <2>5 DEF DeleteSession
      <3>2. dels'[k].pc = "end"
        BY <3>1 DEF TypeOK, NoDeletion
      <3>3. \A x \in dels[k].loaded : x.session = dels[k].session
        BY <3>1 DEF IInv, DeletionOk
      <3>4. dels[k].session = s
        BY <2>1, <2>5, <3>3 DEF DeleteSession, DeleteRow
      <3> QED BY <3>1, <3>2, <3>4
    <2>6. CASE Crash
      BY <2>2, <2>6 DEF Crash
    <2> QED BY <2>3, <2>4, <2>5, <2>6 DEF Next
  <1> QED BY <1>1, Invariant, PTL DEF Spec, CleanupKeepsAnswers

-----------------------------------------------------------------------------
(* The context of a question.                                              *)

\* No request has stored more than its question and its answer.
LEMMA MessagesAreFew ==
  ASSUME TypeOK, IInv, IsFiniteSet(Requests)
  PROVE  IsFiniteSet(messages) /\ Cardinality(messages) <= 2 * Cardinality(Requests)
  <1> DEFINE Roles == {"user", "assistant"}
             T == Requests \X Roles
             f == [m \in messages |-> <<m.request, m.role>>]
  <1>1. IsFiniteSet(Roles) /\ Cardinality(Roles) = 2
    <2>1. Roles = {"user"} \cup {"assistant"} /\ "assistant" \notin {"user"}
      OBVIOUS
    <2>2. IsFiniteSet({"user"}) /\ Cardinality({"user"}) = 1
      BY FS_Singleton
    <2>3. /\ IsFiniteSet({"user"} \cup {"assistant"})
          /\ Cardinality({"user"} \cup {"assistant"}) = Cardinality({"user"}) + 1
      BY <2>1, <2>2, FS_AddElement
    <2> QED BY <2>1, <2>2, <2>3
  <1>2. IsFiniteSet(T) /\ Cardinality(T) = Cardinality(Requests) * 2
    BY <1>1, FS_Product
  <1>3. ASSUME NEW m \in messages, NEW x \in messages,
               m.request = x.request, m.role = x.role
        PROVE  m = x
    <2>1. m.request \in Requests /\ m \in Own(m.request) /\ x \in Own(m.request)
      BY <1>3 DEF TypeOK, ChatMessage, Own
    <2>2. PICK i, j \in Nat : Own(m.request) = Exchange(i, j, m.request)
      BY <2>1 DEF IInv, RequestsOk, OwnOk
    <2> QED BY <1>3, <2>1, <2>2 DEF Exchange, Row
  <1>4. f \in Injection(messages, T)
    BY <1>3 DEF Injection, IsInjective, TypeOK, ChatMessage
  <1>5. IsFiniteSet(messages) /\ Cardinality(messages) <= Cardinality(T)
    BY <1>2, <1>4, FS_Injection
  <1>6. Cardinality(Requests) \in Nat
    BY FS_CardinalityType
  <1> QED BY <1>2, <1>5, <1>6

\* With room for all exchanges, every message is recent.
LEMMA AllRecent ==
  ASSUME TypeOK, IInv, IsFiniteSet(Requests),
         2 * Cardinality(Requests) <= MaxContextMessages,
         NEW s \in SessionIds, NEW m \in MessagesOf(s)
  PROVE  m \in RecentMessages(s)
  <1> DEFINE newer == {x \in MessagesOf(s) : x.id > m.id}
  <1>1. IsFiniteSet(messages) /\ Cardinality(messages) <= 2 * Cardinality(Requests)
    BY MessagesAreFew
  <1>2. m \in messages /\ m.id \in Nat
    BY DEF MessagesOf, TypeOK, ChatMessage
  <1>3. /\ IsFiniteSet(messages \ {m})
        /\ Cardinality(messages \ {m}) = Cardinality(messages) - 1
    BY <1>1, <1>2, FS_RemoveElement
  <1>4. newer \in SUBSET (messages \ {m})
    BY <1>2 DEF MessagesOf
  <1>5. /\ Cardinality(newer) <= Cardinality(messages \ {m})
        /\ Cardinality(newer) \in Nat
    BY <1>3, <1>4, FS_Subset, FS_CardinalityType
  <1>6. /\ Cardinality(messages) \in Nat /\ Cardinality(Requests) \in Nat
        /\ MaxContextMessages \in Nat
    BY <1>1, FS_CardinalityType, ChatAssumption
  <1>7. Cardinality(newer) < MaxContextMessages
    BY <1>1, <1>3, <1>5, <1>6
  <1> QED BY <1>7 DEF RecentMessages

\* What a question is given was decided when it was asked.
LEMMA ContextStays ==
  ASSUME TypeOK, NEW q \in Requests,
         \/ \E r \in Requests : Progress(r)
         \/ \E k \in Deleters : AskDelete(k) \/ DeleteSession(k)
         \/ Crash \/ UNCHANGED vars
  PROVE  req'[q].earlier = req[q].earlier /\ req'[q].history = req[q].history
  <1>a. req[q] \in Request
    BY DEF TypeOK
  <1>1. ASSUME NEW r \in Requests, NEW x, NEW y, NEW z,
               \/ req' = [req EXCEPT ![r].pc = x]
               \/ req' = [req EXCEPT ![r].pc = x, ![r].outcome = y]
               \/ req' = [req EXCEPT ![r].pc = x, ![r].session = z]
        PROVE  req'[q].earlier = req[q].earlier /\ req'[q].history = req[q].history
    <2>1. \/ req'[q] = req[q]
          \/ req'[q] = [req[q] EXCEPT !.pc = x]
          \/ req'[q] = [req[q] EXCEPT !.pc = x, !.outcome = y]
          \/ req'[q] = [req[q] EXCEPT !.pc = x, !.session = z]
      BY <1>1 DEF TypeOK
    <2> QED BY <1>a, <2>1 DEF Request
  <1>2. ASSUME NEW r \in Requests, Progress(r)
        PROVE  req'[q].earlier = req[q].earlier /\ req'[q].history = req[q].history
    <2>1. CASE FailRequest(r) \/ DropResponse(r) \/ SendDone(r) \/ FailCleanUp(r)
      BY <1>1, <2>1 DEF FailRequest, DropResponse, SendDone, FailCleanUp, End
    <2>2. CASE AnswerChat(r) \/ BeginStream(r) \/ Generate(r) \/ LeaveStream(r)
      BY <1>1, <2>2 DEF AnswerChat, BeginStream, Generate, LeaveStream, Goto
    <2>3. CASE StartResponse(r)
      BY <1>1, <2>3 DEF StartResponse, Goto
    <2>4. CASE StoreQuestion(r) \/ StoreAnswer(r) \/ CommitExchange(r)
      BY <1>1, <2>4 DEF StoreQuestion, StoreAnswer, CommitExchange, Goto
    <2>5. CASE FailStoring(r) \/ RefreshSession(r)
      BY <1>1, <2>5 DEF FailStoring, RefreshSession, Goto, End
    <2>6. CASE CleanUp(r) \/ DeleteEmptySession(r)
      BY <1>1, <2>6 DEF CleanUp, DeleteEmptySession, End
    <2> QED BY <1>2, <2>1, <2>2, <2>3, <2>4, <2>5, <2>6 DEF Progress
  <1>3. CASE Crash
    <2>1. req'[q] = IF Running(q) THEN [req[q] EXCEPT !.pc = "end", !.outcome = "left"]
                    ELSE req[q]
      BY <1>3 DEF Crash
    <2> QED BY <1>a, <2>1 DEF Request
  <1>4. CASE UNCHANGED req
    BY <1>4
  <1> QED BY <1>2, <1>3, <1>4 DEF AskDelete, DeleteSession, vars

\* A delivered answer is there to be given to the next question.
LEMMA AskGivesAnswers ==
  ASSUME TypeOK, IInv, ContextHasEarlierAnswers, NEW r \in Requests, Ask(r)
  PROVE  ContextHasEarlierAnswers'
  <1> SUFFICES ASSUME IsFiniteSet(Requests),
                      2 * Cardinality(Requests) <= MaxContextMessages, NEW p \in Requests
               PROVE  req'[p].earlier \subseteq req'[p].history
    BY DEF ContextHasEarlierAnswers
  <1>1. CASE p # r
    <2>1. req'[p] = req[p]
      BY <1>1 DEF Ask, TypeOK
    <2> QED BY <2>1 DEF ContextHasEarlierAnswers
  <1>2. CASE p = r
    <2>2. CASE req'[r].earlier = {}
      BY <1>2, <2>2
    <2>3. ASSUME NEW s \in SessionIds, Live(s), req'[r].history = Answered(s),
                 req'[r].earlier = {q \in Requests : /\ req[q].session = s
                                                     /\ req[q].outcome = "done"}
          PROVE  req'[r].earlier \subseteq req'[r].history
      <3>1. ASSUME NEW q \in Requests, req[q].session = s, req[q].outcome = "done"
            PROVE  q \in Answered(s)
        <4>1. Own(q) # {}
          BY <2>3, <3>1 DEF IInv, RequestsOk, DoneOk
        <4>2. PICK i, j \in Nat : Own(q) = Exchange(i, j, q)
          BY <4>1 DEF IInv, RequestsOk, OwnOk
        <4> DEFINE m == Row(j, q, "assistant")
        <4>3. /\ m \in MessagesOf(s) /\ m.role = "assistant" /\ m.request = q
          BY <3>1, <4>2 DEF Exchange, Row, Own, MessagesOf
        <4> HIDE DEF m
        <4>4. m \in RecentMessages(s)
          BY <4>3, AllRecent
        <4> QED BY <4>3, <4>4 DEF Answered
      <3> QED BY <2>3, <3>1
    <2>4. \/ req'[r].earlier = {}
          \/ \E s \in SessionIds : /\ Live(s) /\ req'[r].history = Answered(s)
                                   /\ req'[r].earlier = {q \in Requests :
                                         req[q].session = s /\ req[q].outcome = "done"}
      <3>1. PICK stream \in BOOLEAN :
              \/ \E s \in SessionIds :
                   /\ Live(s)
                   /\ req' = [req EXCEPT ![r] =
                        [Idle EXCEPT !.pc = "retrieving", !.stream = stream, !.session = s,
                                     !.history = Answered(s),
                                     !.earlier = {q \in Requests : /\ req[q].session = s
                                                                   /\ req[q].outcome = "done"}]]
              \/ req' = [req EXCEPT ![r] = [Idle EXCEPT !.pc = "retrieving", !.stream = TRUE,
                                                        !.created = TRUE]]
              \/ \E s \in SessionIds :
                   req' = [req EXCEPT ![r] = [Idle EXCEPT !.pc = "retrieving", !.session = s]]
        BY DEF Ask
      <3> QED BY <3>1 DEF TypeOK, Idle
    <2> QED BY <1>2, <2>2, <2>3, <2>4
  <1> QED BY <1>1, <1>2

\* An answer that was delivered is in the context of the questions asked after it,
\* for any number of requests the context has room for.
THEOREM ContextGiven == Spec => []ContextHasEarlierAnswers
  <1>1. Init => ContextHasEarlierAnswers
    BY DEF Init, Idle, ContextHasEarlierAnswers
  <1>2. TypeOK /\ IInv /\ ContextHasEarlierAnswers /\ [Next]_vars => ContextHasEarlierAnswers'
    <2> SUFFICES ASSUME TypeOK, IInv, ContextHasEarlierAnswers, [Next]_vars
                 PROVE  ContextHasEarlierAnswers'
      OBVIOUS
    <2>1. CASE \E r \in Requests : Ask(r)
      BY <2>1, AskGivesAnswers
    <2>2. CASE ~\E r \in Requests : Ask(r)
      <3>1. \/ \E r \in Requests : Progress(r)
            \/ \E k \in Deleters : AskDelete(k) \/ DeleteSession(k)
            \/ Crash \/ UNCHANGED vars
        BY <2>2 DEF Next
      <3> QED BY <3>1, ContextStays DEF ContextHasEarlierAnswers
    <2> QED BY <2>1, <2>2
  <1> QED BY <1>1, <1>2, Invariant, PTL DEF Spec
=============================================================================
