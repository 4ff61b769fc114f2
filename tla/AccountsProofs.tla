---------------------------- MODULE AccountsProofs ----------------------------
(* Proofs about Accounts, for every set of requests, users, tokens and rows   *)
(* and all bounds.  The invariant says of each request in flight what of its  *)
(* account, of the sessions and of the rows still is as the request has left  *)
(* it or found it, although it holds no lock for most of its life.            *)
EXTENDS Accounts, FiniteSetTheorems, WellFoundedInduction, TLAPS

\* What request q has of its account.
FineAccount(q) ==
  q.step # "idle" =>
    /\ accounts[q.user].state # "unborn"
    /\ q.step = "inserted" => Born(q.user)
    /\ q.op = "login" /\ ~q.raced /\ Born(q.user) => q.stamp = accounts[q.user].stamp
    /\ q.op = "reset" /\ ~q.raced /\ Born(q.user) /\ q.must => accounts[q.user].must

\* What request q has of the sessions: its own token, and those it has not swept.
FineSessions(q) ==
  /\ q.op = "change" => /\ sessions[q.token].state # "unborn"
                        /\ HasSession(q.token) => sessions[q.token].user = q.user
  /\ q.op \in {"change", "reset"} /\ q.step = "swept" =>
       \A t \in Tokens : HasSession(t) /\ sessions[t].user = q.user /\ ~sessions[t].raced =>
         t \in q.swept \/ (q.op = "change" /\ t = q.token)

\* What request q has locked, or deleted, or is still to store.
FineRows(q) ==
  /\ \A d \in q.claimed :
       /\ rows[d].state # "unborn"
       /\ q.step \in {"claimed", "swept"} => rows[d].state # "active"
       /\ q.step = "removed" => rows[d].state = "gone"
  /\ \A d \in q.todo :
       /\ rows[d].state # "unborn"
       /\ q.step = "saved" /\ HasRow(d) => d \in files

\* Whose sessions request q has locked, and in which order which documents.
FineLocks(q) ==
  /\ \A t \in q.swept : /\ sessions[t].state # "unborn"
                        /\ HasSession(t) => sessions[t].user = q.user
  /\ q.swept # {} => q.step = "swept"
  /\ q.claimed # {} => q.step = "removed" \/ q.op = "delete"
  /\ q.step \in {"checked", "inserted", "locked", "committed", "saved"} => q.claimed = {}
  /\ q.step \in {"listing", "claimed"} =>
       \A d \in q.claimed \cup q.todo : HasRow(d) => Document(d)
  /\ q.step = "listing" => \A d \in q.claimed, e \in q.todo : d < e

\* Keys that have not been given out.
TablesFresh ==
  /\ \A u \in Ids : accounts[u].state = "unborn" =>
       accounts[u].given = "user" /\ accounts[u].stamp = 0
  /\ \A t \in Tokens : sessions[t].state = "unborn" =>
       sessions[t].stamp = 0 /\ ~sessions[t].raced
  /\ \A d \in RowIds : rows[d].state = "active" => Document(d)

Fine(q) == FineAccount(q) /\ FineSessions(q) /\ FineRows(q) /\ FineLocks(q)

RequestsFine == \A r \in Requests : Fine(requests[r])

Safe == SessionsMatchPassword /\ TemporaryMustChange /\ RowsHaveOwners

IInv == TablesFresh /\ RequestsFine /\ Safe

Inv == TypeOK /\ IInv

-----------------------------------------------------------------------------

LEMMA Chosen == AnId \in Ids /\ AToken \in Tokens
BY AccountAssumption DEF AnId, AToken

\* The next key of a table is one that has not been given out.
LEMMA NextKey ==
  ASSUME NEW table, Unborn(table) # {}
  PROVE  Next1(table) \in DOMAIN table /\ table[Next1(table)].state = "unborn"
BY DEF Next1, Unborn

LEMMA IdleType == Idle \in Request
BY Chosen DEF Idle, Request

LEMMA GoneType ==
  /\ GoneAccount \in Account /\ GoneSession \in Session /\ GoneRow \in Row
  /\ GoneAccount.state = "gone" /\ GoneSession.state = "gone" /\ GoneRow.state = "gone"
  /\ GoneRow.kind = "chat"
BY Chosen, AccountAssumption DEF GoneAccount, GoneSession, GoneRow, Account, Session, Row

LEMMA IdleFine ==
  Fine(Idle)
BY DEF Idle, Fine, FineAccount, FineSessions, FineRows, FineLocks

\* A step that only moves a request, to a record that fits the state.
LEMMA Advances ==
  ASSUME Inv, NEW r \in Requests, NEW q \in Request, Advance(r, q), Fine(q)
  PROVE  Inv'
<1>1. /\ requests' \in [Requests -> Request]
      /\ \A s \in Requests : requests'[s] = IF s = r THEN q ELSE requests[s]
      /\ UNCHANGED <<accounts, sessions, rows, files, up, writes, outside>>
  BY DEF Inv, TypeOK, Advance
<1>2. TypeOK'
  BY <1>1 DEF Inv, TypeOK
<1>3. TablesFresh' /\ Safe'
  BY <1>1 DEF Inv, IInv, TablesFresh, Safe, SessionsMatchPassword, TemporaryMustChange,
     RowsHaveOwners, Born, HasSession, HasRow, Document
<1>4. ASSUME NEW s \in Requests
      PROVE  Fine(requests[s])'
  <2>1. CASE s = r
    <3>1. requests'[s] = q
      BY <2>1, <1>1
    <3> QED
      BY <3>1, <1>1 DEF Fine, FineAccount, FineSessions, FineRows, FineLocks, Born, HasSession,
         HasRow, Document
  <2>2. CASE s # r
    <3>1. requests'[s] = requests[s]
      BY <2>2, <1>1
    <3>2. Fine(requests[s])
      BY DEF Inv, IInv, RequestsFine
    <3> QED
      BY <3>1, <3>2, <1>1 DEF Fine, FineAccount, FineSessions, FineRows, FineLocks, Born,
         HasSession, HasRow, Document
  <2> QED BY <2>1, <2>2
<1> QED BY <1>2, <1>3, <1>4 DEF Inv, IInv, RequestsFine

LEMMA Fails ==
  ASSUME Inv, NEW r \in Requests, Fail(r)
  PROVE  Inv'
<1>1. Advance(r, Idle)
  BY DEF Fail, Advance
<1> QED BY <1>1, IdleType, IdleFine, Advances

\* What the records of requests are made of.
LEMMA RequestFields ==
  ASSUME TypeOK, NEW r \in Requests
  PROVE  /\ requests[r] \in Request /\ requests[r].user \in Ids /\ requests[r].stamp \in Nat
         /\ requests[r].must \in BOOLEAN /\ requests[r].token \in Tokens
         /\ requests[r].kind \in {"document", "chat"} /\ requests[r].todo \subseteq RowIds
         /\ requests[r].claimed \subseteq RowIds /\ requests[r].swept \subseteq Tokens
         /\ requests[r].raced \in BOOLEAN
BY DEF TypeOK, Request

LEMMA SessionFields ==
  ASSUME TypeOK, NEW t \in Tokens
  PROVE  sessions[t].user \in Ids /\ sessions[t].stamp \in Nat /\ sessions[t].raced \in BOOLEAN
BY DEF TypeOK, Session

LEMMA AccountFields ==
  ASSUME TypeOK, NEW u \in Ids
  PROVE  accounts[u].stamp \in Nat /\ accounts[u].must \in BOOLEAN
         /\ accounts[u].waived \in BOOLEAN /\ accounts[u].admin \in BOOLEAN
BY DEF TypeOK, Account

-----------------------------------------------------------------------------
(* The steps that only read, or write what nobody sees yet.                   *)

LEMMA LoginStep ==
  ASSUME Inv, NEW r \in Requests, NEW u \in Ids, Login(r, u)
  PROVE  Inv'
<1> DEFINE q == [Idle EXCEPT !.op = "login", !.step = "checked", !.user = u,
                             !.stamp = accounts[u].stamp]
<1>1. Advance(r, q) /\ Born(u)
  BY DEF Login
<1>2. q \in Request
  BY IdleType, AccountFields DEF Request, Inv
<1>3. Fine(q)
  BY <1>1 DEF Fine, FineAccount, FineSessions, FineRows, FineLocks, Idle, Born
<1> QED BY <1>1, <1>2, <1>3, Advances

LEMMA InsertStep ==
  ASSUME Inv, NEW r \in Requests, Insert(r)
  PROVE  Inv'
<1> DEFINE q == [requests[r] EXCEPT !.step = "inserted"]
<1>1. /\ Advance(r, q) /\ Born(requests[r].user) /\ requests[r].step = "checked"
      /\ requests[r].op \in {"login", "create"}
  BY DEF Insert, At
<1>2. q \in Request
  BY RequestFields DEF Request, Inv
<1>3. Fine(requests[r])
  BY DEF Inv, IInv, RequestsFine
<1>4. /\ q.op = requests[r].op /\ q.step = "inserted" /\ q.user = requests[r].user
      /\ q.stamp = requests[r].stamp /\ q.raced = requests[r].raced
      /\ q.must = requests[r].must /\ q.claimed = requests[r].claimed
      /\ q.todo = requests[r].todo /\ q.swept = requests[r].swept
  BY RequestFields DEF Request, Inv
<1> HIDE DEF q
<1>5. Fine(q)
  BY <1>1, <1>3, <1>4 DEF Fine, FineAccount, FineSessions, FineRows, FineLocks
<1> QED BY <1>1, <1>2, <1>5, Advances

LEMMA ChangeStep ==
  ASSUME Inv, NEW r \in Requests, NEW t \in Tokens, Change(r, t)
  PROVE  Inv'
<1> DEFINE u == sessions[t].user
           q == [Idle EXCEPT !.op = "change", !.step = "checked", !.user = u,
                             !.must = accounts[u].must, !.token = t]
<1>1. Advance(r, q) /\ Born(u) /\ HasSession(t) /\ u \in Ids
  BY SessionFields DEF Change, Authenticated, Inv
<1>2. q \in Request
  BY <1>1, IdleType, AccountFields DEF Request, Inv
<1>3. Fine(q)
  BY <1>1 DEF Fine, FineAccount, FineSessions, FineRows, FineLocks, Idle, Born, HasSession
<1> QED BY <1>1, <1>2, <1>3, Advances

LEMMA ResetStep ==
  ASSUME Inv, NEW r \in Requests, NEW t \in Tokens, NEW u \in Ids, Reset(r, t, u)
  PROVE  Inv'
<1> DEFINE q == [Idle EXCEPT !.op = "reset", !.step = "checked", !.user = u,
                             !.must = accounts[u].must]
<1>1. Advance(r, q) /\ Born(u)
  BY DEF Reset
<1>2. q \in Request
  BY <1>1, IdleType, AccountFields DEF Request, Inv
<1>3. Fine(q)
  BY <1>1 DEF Fine, FineAccount, FineSessions, FineRows, FineLocks, Idle, Born
<1> QED BY <1>1, <1>2, <1>3, Advances

LEMMA LockUserStep ==
  ASSUME Inv, NEW r \in Requests, LockUser(r)
  PROVE  Inv'
<1> DEFINE q == [requests[r] EXCEPT !.step = "locked"]
<1>1. /\ Advance(r, q) /\ requests[r].step = "checked"
      /\ requests[r].op \in {"change", "reset"}
  BY DEF LockUser, At
<1>2. q \in Request
  BY RequestFields DEF Request, Inv
<1>3. Fine(requests[r])
  BY DEF Inv, IInv, RequestsFine
<1>4. /\ q.op = requests[r].op /\ q.step = "locked" /\ q.user = requests[r].user
      /\ q.token = requests[r].token /\ q.raced = requests[r].raced
      /\ q.must = requests[r].must /\ q.claimed = requests[r].claimed
      /\ q.todo = requests[r].todo /\ q.swept = requests[r].swept
  BY RequestFields DEF Request, Inv
<1> HIDE DEF q
<1>5. Fine(q)
  BY <1>1, <1>3, <1>4 DEF Fine, FineAccount, FineSessions, FineRows, FineLocks
<1> QED BY <1>1, <1>2, <1>5, Advances

\* The sweep takes every session of the user that it has to take.
LEMMA SweepStep ==
  ASSUME Inv, NEW r \in Requests, Sweep(r)
  PROVE  Inv'
<1> DEFINE q == [requests[r] EXCEPT !.step = "swept", !.swept = Revoked(r)]
<1>1. /\ Advance(r, q) /\ requests[r].step = "locked"
      /\ requests[r].op \in {"change", "reset"}
  BY DEF Sweep, At
<1>2. q \in Request
  BY RequestFields DEF Request, Inv, Revoked, SessionsOf
<1>3. Fine(requests[r])
  BY DEF Inv, IInv, RequestsFine
<1>4. /\ q.op = requests[r].op /\ q.step = "swept" /\ q.user = requests[r].user
      /\ q.token = requests[r].token /\ q.raced = requests[r].raced
      /\ q.must = requests[r].must /\ q.claimed = requests[r].claimed
      /\ q.todo = requests[r].todo
      /\ q.swept = Revoked(r)
  BY RequestFields DEF Request, Inv
<1> HIDE DEF q
<1>5. FineAccount(q) /\ FineRows(q)
  BY <1>1, <1>3, <1>4 DEF Fine, FineAccount, FineRows, FineLocks
<1>6. FineSessions(q)
  BY <1>1, <1>3, <1>4 DEF Fine, FineSessions, Revoked, SessionsOf
<1>7. FineLocks(q)
  BY <1>1, <1>3, <1>4 DEF Fine, FineLocks, Revoked, SessionsOf, HasSession
<1> QED BY <1>1, <1>2, <1>5, <1>6, <1>7, Advances DEF Fine

LEMMA CreateStep ==
  ASSUME Inv, NEW r \in Requests, NEW t \in Tokens, NEW kind \in {"document", "chat"},
         Create(r, t, kind)
  PROVE  Inv'
<1> DEFINE q == [Idle EXCEPT !.op = "create", !.step = "checked",
                             !.user = sessions[t].user, !.kind = kind]
<1>1. Advance(r, q) /\ Born(sessions[t].user)
  BY DEF Create, Current, Authenticated
<1>2. q \in Request
  BY <1>1, IdleType, SessionFields DEF Request, Inv
<1>3. Fine(q)
  BY <1>1 DEF Fine, FineAccount, FineSessions, FineRows, FineLocks, Idle, Born
<1> QED BY <1>1, <1>2, <1>3, Advances

LEMMA DeleteStep ==
  ASSUME Inv, NEW r \in Requests, NEW t \in Tokens, Delete(r, t)
  PROVE  Inv'
<1> DEFINE q == [Idle EXCEPT !.op = "delete", !.step = "checked",
                             !.user = sessions[t].user]
<1>1. Advance(r, q) /\ Born(sessions[t].user)
  BY DEF Delete, Current, Authenticated
<1>2. q \in Request
  BY <1>1, IdleType, SessionFields DEF Request, Inv
<1>3. Fine(q)
  BY <1>1 DEF Fine, FineAccount, FineSessions, FineRows, FineLocks, Idle, Born
<1> QED BY <1>1, <1>2, <1>3, Advances

\* The documents are those that are there.
LEMMA ListDocumentsStep ==
  ASSUME Inv, NEW r \in Requests, ListDocuments(r)
  PROVE  Inv'
<1> DEFINE q == [requests[r] EXCEPT !.step = "listing", !.todo = Documents(requests[r].user)]
<1>1. Advance(r, q) /\ requests[r].step = "checked" /\ requests[r].op = "delete"
  BY DEF ListDocuments, At
<1>2. q \in Request
  BY RequestFields DEF Request, Inv, Documents, RowsOf
<1>3. Fine(requests[r])
  BY DEF Inv, IInv, RequestsFine
<1>4. /\ q.op = "delete" /\ q.step = "listing" /\ q.user = requests[r].user
      /\ q.claimed = requests[r].claimed /\ q.swept = requests[r].swept
  BY <1>1, RequestFields DEF Request, Inv
<1>7. q.todo = Documents(requests[r].user)
  BY RequestFields DEF Request, Inv
<1> HIDE DEF q
<1>5. q.claimed = {} /\ q.swept = {}
  BY <1>1, <1>3, <1>4 DEF Fine, FineLocks
<1>6. \A d \in q.todo : HasRow(d) /\ Document(d)
  BY <1>7 DEF Documents, RowsOf
<1>8. Fine(q)
  BY <1>1, <1>3, <1>4, <1>5, <1>6 DEF Fine, FineAccount, FineSessions, FineRows, FineLocks, HasRow
<1> QED BY <1>1, <1>2, <1>8, Advances

\* The next document is greater than those that are locked.
LEMMA LockDocumentStep ==
  ASSUME Inv, NEW r \in Requests, LockDocument(r)
  PROVE  Inv'
<1>1. PICK d \in requests[r].todo :
        /\ \A e \in requests[r].todo : d <= e
        /\ Advance(r, [requests[r] EXCEPT !.todo = requests[r].todo \ {d},
                          !.claimed = requests[r].claimed \cup {e \in {d} : HasRow(e)}])
  BY DEF LockDocument, NextDocument
<1> DEFINE q == [requests[r] EXCEPT !.todo = requests[r].todo \ {d},
                          !.claimed = requests[r].claimed \cup {e \in {d} : HasRow(e)}]
<1>2. /\ requests[r].op = "delete" /\ requests[r].step = "listing"
      /\ d \in RowIds /\ d \in Nat /\ requests[r].todo \subseteq Nat
  BY RequestFields, AccountAssumption DEF LockDocument, At, Inv
<1>3. q \in Request
  BY <1>2, RequestFields DEF Request, Inv
<1>4. Fine(requests[r])
  BY DEF Inv, IInv, RequestsFine
<1>5. /\ q.op = "delete" /\ q.step = "listing" /\ q.user = requests[r].user
      /\ q.todo = requests[r].todo \ {d} /\ q.swept = requests[r].swept
      /\ q.claimed = requests[r].claimed \cup {e \in {d} : HasRow(e)}
  BY <1>2, RequestFields DEF Request, Inv
<1>6. Advance(r, q)
  BY <1>1
<1> HIDE DEF q
<1>7. FineAccount(q) /\ FineSessions(q) /\ FineRows(q)
  BY <1>2, <1>4, <1>5 DEF Fine, FineAccount, FineSessions, FineRows, HasRow
<1>8. FineLocks(q)
  <2>1. ASSUME NEW c \in q.claimed, NEW e \in q.todo PROVE c < e
    <3>1. e \in Nat /\ e # d /\ d <= e
      BY <1>1, <1>2, <1>5, <2>1
    <3>2. CASE c = d
      BY <3>1, <3>2, <1>2
    <3>3. CASE c # d
      BY <3>3, <1>2, <1>4, <1>5, <2>1 DEF Fine, FineLocks
    <3> QED BY <3>2, <3>3
  <2>2. ASSUME NEW c \in q.claimed \cup q.todo, HasRow(c) PROVE Document(c)
    <3>1. c \in requests[r].claimed \cup requests[r].todo
      BY <1>5, <2>2
    <3> QED BY <3>1, <2>2, <1>2, <1>4 DEF Fine, FineLocks
  <2> QED BY <1>2, <1>4, <1>5, <2>1, <2>2 DEF Fine, FineLocks
<1> QED BY <1>3, <1>6, <1>7, <1>8, Advances DEF Fine

\* The documents that are locked have all been settled.
LEMMA ClaimStep ==
  ASSUME Inv, NEW r \in Requests, Claim(r)
  PROVE  Inv'
<1> DEFINE q == [requests[r] EXCEPT !.step = "claimed"]
<1>1. /\ Advance(r, q) /\ requests[r].step = "listing" /\ requests[r].op = "delete"
      /\ \A d \in requests[r].claimed : rows[d].state # "active"
  BY DEF Claim, At
<1>2. q \in Request
  BY RequestFields DEF Request, Inv
<1>3. Fine(requests[r])
  BY DEF Inv, IInv, RequestsFine
<1>4. /\ q.op = "delete" /\ q.step = "claimed" /\ q.user = requests[r].user
      /\ q.claimed = requests[r].claimed /\ q.todo = requests[r].todo
      /\ q.swept = requests[r].swept
  BY <1>1, RequestFields DEF Request, Inv
<1> HIDE DEF q
<1>5. Fine(q)
  BY <1>1, <1>3, <1>4 DEF Fine, FineAccount, FineSessions, FineRows, FineLocks
<1> QED BY <1>1, <1>2, <1>5, Advances

\* Chats are never active.
LEMMA SweepAccountStep ==
  ASSUME Inv, NEW r \in Requests, SweepAccount(r)
  PROVE  Inv'
<1> DEFINE D == requests[r].claimed \cup Chats(requests[r].user)
           q == [requests[r] EXCEPT !.step = "swept",
                   !.swept = SessionsOf(requests[r].user), !.claimed = D]
<1>1. Advance(r, q) /\ requests[r].step = "claimed" /\ requests[r].op = "delete"
  BY DEF SweepAccount, At
<1>2. q \in Request
  BY RequestFields DEF Request, Inv, SessionsOf, Chats, RowsOf
<1>3. Fine(requests[r])
  BY DEF Inv, IInv, RequestsFine
<1>4. /\ q.op = "delete" /\ q.step = "swept" /\ q.user = requests[r].user
      /\ q.claimed = D /\ q.todo = requests[r].todo /\ q.swept = SessionsOf(requests[r].user)
  BY <1>1, RequestFields DEF Request, Inv
<1>5. \A d \in D : rows[d].state \notin {"unborn", "active"}
  BY <1>1, <1>3 DEF Fine, FineRows, Chats, RowsOf, HasRow, Inv, IInv, TablesFresh
<1> HIDE DEF q, D
<1>6. FineAccount(q) /\ FineSessions(q) /\ FineRows(q)
  BY <1>1, <1>3, <1>4, <1>5 DEF Fine, FineAccount, FineSessions, FineRows
<1>7. FineLocks(q)
  BY <1>4 DEF FineLocks, SessionsOf, HasSession
<1> QED BY <1>1, <1>2, <1>6, <1>7, Advances DEF Fine

-----------------------------------------------------------------------------
(* The steps that change the tables.                                          *)

\* A user and a session that nobody has referred to yet.
LEMMA RegisterStep ==
  ASSUME Inv, NEW name \in Names, Register(name)
  PROVE  Inv'
<1>0. /\ Next1(accounts) \in Ids /\ accounts[Next1(accounts)].state = "unborn"
      /\ Next1(sessions) \in Tokens /\ sessions[Next1(sessions)].state = "unborn"
  <2>1. Unborn(accounts) # {} /\ Unborn(sessions) # {}
    BY DEF Register
  <2>2. /\ Next1(accounts) \in DOMAIN accounts /\ accounts[Next1(accounts)].state = "unborn"
        /\ Next1(sessions) \in DOMAIN sessions /\ sessions[Next1(sessions)].state = "unborn"
    BY <2>1, NextKey
  <2>3. DOMAIN accounts = Ids /\ DOMAIN sessions = Tokens
    BY DEF Inv, TypeOK
  <2> QED BY <2>2, <2>3
<1>1. PICK u \in Ids, t \in Tokens :
        /\ accounts[u].state = "unborn" /\ sessions[t].state = "unborn"
        /\ accounts' = [accounts EXCEPT ![u] = [accounts[u] EXCEPT !.state = "live", !.name = name]]
        /\ sessions' = [sessions EXCEPT ![t] = [sessions[t] EXCEPT !.state = "live", !.user = u]]
  <2>1. /\ accounts' = [accounts EXCEPT ![Next1(accounts)] =
               [accounts[Next1(accounts)] EXCEPT !.state = "live", !.name = name]]
        /\ sessions' = [sessions EXCEPT ![Next1(sessions)] =
               [sessions[Next1(sessions)] EXCEPT !.state = "live", !.user = Next1(accounts)]]
    BY DEF Register
  <2> QED BY <1>0, <2>1
<1>2. UNCHANGED <<rows, files, requests, up, writes, outside>>
  BY DEF Register
<1>3. TypeOK'
  <2>1. accounts' \in [Ids -> Account]
    BY <1>1 DEF Inv, TypeOK, Account
  <2>2. sessions' \in [Tokens -> Session]
    BY <1>1 DEF Inv, TypeOK, Session
  <2> QED BY <1>2, <2>1, <2>2 DEF Inv, TypeOK
<1>4. /\ \A v \in Ids : v # u => accounts'[v] = accounts[v]
      /\ accounts'[u].state = "live" /\ accounts'[u].given = accounts[u].given
      /\ accounts'[u].stamp = accounts[u].stamp
      /\ \A x \in Tokens : x # t => sessions'[x] = sessions[x]
      /\ sessions'[t].state = "live" /\ sessions'[t].user = u
      /\ sessions'[t].stamp = sessions[t].stamp /\ sessions'[t].raced = sessions[t].raced
  BY <1>1, <1>2 DEF Inv, TypeOK, Account, Session
<1>5. accounts[u].given = "user" /\ accounts[u].stamp = 0 /\ sessions[t].stamp = 0
  BY <1>1 DEF Inv, IInv, TablesFresh
<1>6. TablesFresh'
  BY <1>2, <1>4 DEF Inv, IInv, TablesFresh, Document
<1>7. ASSUME NEW r \in Requests
      PROVE  Fine(requests[r])'
  <2>1. Fine(requests[r])
    BY DEF Inv, IInv, RequestsFine
  <2>2. requests' = requests /\ rows' = rows
    BY <1>2
  <2>3. requests[r].user \in Ids /\ requests[r].token \in Tokens
    BY RequestFields DEF Inv
  <2>4. requests[r].step # "idle" => requests[r].user # u
    BY <2>1, <1>1 DEF Fine, FineAccount
  <2>5. FineAccount(requests[r])'
    BY <2>1, <2>2, <2>3, <2>4, <1>4 DEF Fine, FineAccount, Born
  <2>6. FineSessions(requests[r])'
    BY <2>1, <2>2, <2>3, <2>4, <1>1, <1>4 DEF Fine, FineSessions, HasSession
  <2>7. FineRows(requests[r])'
    BY <2>1, <2>2, <1>2 DEF Fine, FineRows, HasRow
  <2>8. requests[r].swept \subseteq Tokens
    BY RequestFields DEF Inv
  <2>9. FineLocks(requests[r])'
    BY <2>1, <2>2, <2>8, <1>1, <1>4 DEF Fine, FineLocks, HasSession, HasRow, Document
  <2> QED BY <2>5, <2>6, <2>7, <2>9 DEF Fine
<1>8. SessionsMatchPassword'
  <2> SUFFICES ASSUME NEW x \in Tokens, HasSession(x)', ~sessions'[x].raced
               PROVE  sessions'[x].stamp = accounts'[sessions'[x].user].stamp
    BY DEF SessionsMatchPassword
  <2>1. CASE x = t
    BY <2>1, <1>4, <1>5
  <2>2. CASE x # t
    <3>1. HasSession(x) /\ sessions'[x] = sessions[x]
      BY <2>2, <1>4 DEF HasSession
    <3>2. Born(sessions[x].user) /\ sessions[x].user # u
      BY <3>1, <1>1 DEF Inv, IInv, Safe, RowsHaveOwners, Born
    <3> QED
      BY <3>1, <3>2, <1>4, SessionFields DEF Inv, IInv, Safe, SessionsMatchPassword
  <2> QED BY <2>1, <2>2
<1>9. TemporaryMustChange'
  BY <1>4, <1>5 DEF Inv, IInv, Safe, TemporaryMustChange, Born
<1>10. RowsHaveOwners'
  <2>1. ASSUME NEW v \in Ids, Born(v) PROVE Born(v)'
    BY <2>1, <1>1, <1>4 DEF Born
  <2>2. \A d \in RowIds : rows[d].owner \in Ids
    BY DEF Inv, TypeOK, Row
  <2>3. Born(u)'
    BY <1>4 DEF Born
  <2>4. ASSUME NEW x \in Tokens, HasSession(x)' PROVE Born(sessions[x].user)'
    <3>1. CASE x = t
      BY <3>1, <1>4, <2>3 DEF Born
    <3>2. CASE x # t
      <4>1. HasSession(x) /\ sessions'[x] = sessions[x]
        BY <2>4, <3>2, <1>4 DEF HasSession
      <4>2. sessions[x].user \in Ids /\ Born(sessions[x].user)
        BY <4>1, SessionFields DEF Inv, IInv, Safe, RowsHaveOwners
      <4> QED BY <4>1, <4>2, <2>1 DEF Born
    <3> QED BY <3>1, <3>2
  <2>5. ASSUME NEW d \in RowIds, HasRow(d)'
        PROVE  (Born(rows[d].owner) /\ (Document(d) /\ rows[d].path => d \in files))'
    <3>1. HasRow(d) /\ rows' = rows /\ files' = files
      BY <2>5, <1>2 DEF HasRow
    <3>2. Born(rows[d].owner) /\ (Document(d) /\ rows[d].path => d \in files)
      BY <3>1 DEF Inv, IInv, Safe, RowsHaveOwners
    <3> QED BY <3>1, <3>2, <2>1, <2>2 DEF Born, Document
  <2> QED BY <2>4, <2>5 DEF RowsHaveOwners
<1> QED BY <1>3, <1>6, <1>7, <1>8, <1>9, <1>10 DEF Inv, IInv, RequestsFine, Safe

\* A request that has ended.
LEMMA EndedFine ==
  ASSUME NEW r \in Requests, requests'[r] = Idle
  PROVE  Fine(requests[r])'
BY DEF Fine, Idle, FineAccount, FineSessions, FineRows, FineLocks

\* Sessions end, or go on as their user's, as raced as they were.
Shrunk ==
  \A x \in Tokens : \/ sessions'[x].state = "gone"
                    \/ /\ sessions'[x].state = sessions[x].state
                       /\ sessions'[x].user = sessions[x].user
                       /\ sessions'[x].raced = sessions[x].raced

LEMMA ShrunkFine ==
  ASSUME Shrunk, NEW q \in Request, FineSessions(q)
  PROVE  FineSessions(q)'
<1>1. q.token \in Tokens
  BY DEF Request
<1> QED BY <1>1 DEF Shrunk, FineSessions, HasSession

\* Accounts live on, with the hash they had, and what must be changed still must.
Kept(u) == /\ accounts'[u].state = accounts[u].state /\ accounts'[u].stamp = accounts[u].stamp
           /\ accounts[u].must => accounts'[u].must

LEMMA KeptFine ==
  ASSUME NEW q \in Request, Kept(q.user), FineAccount(q)
  PROVE  FineAccount(q)'
BY DEF Kept, FineAccount, Born

LEMMA CommitLoginStep ==
  ASSUME Inv, NEW r \in Requests, CommitLogin(r)
  PROVE  Inv'
<1>0. Next1(sessions) \in Tokens /\ sessions[Next1(sessions)].state = "unborn"
  <2>1. Unborn(sessions) # {} /\ DOMAIN sessions = Tokens
    BY DEF CommitLogin, Inv, TypeOK
  <2> QED BY <2>1, NextKey
<1>1. PICK t \in Tokens :
        /\ sessions[t].state = "unborn"
        /\ sessions' = [sessions EXCEPT ![t] =
             [state |-> "live", user |-> requests[r].user, stamp |-> requests[r].stamp,
              raced |-> requests[r].raced \/ \E q \in Requests : Writes(q, requests[r].user)]]
  BY <1>0 DEF CommitLogin
<1>2. /\ requests' = [requests EXCEPT ![r] = Idle]
      /\ UNCHANGED <<accounts, rows, files, up, writes, outside>>
      /\ requests[r].op = "login" /\ requests[r].step = "inserted"
  BY DEF CommitLogin, At
<1>3. /\ requests[r].user \in Ids /\ requests[r].stamp \in Nat /\ requests[r].raced \in BOOLEAN
      /\ Fine(requests[r])
  BY RequestFields DEF Inv, IInv, RequestsFine, Fine
<1>4. TypeOK'
  <2>1. sessions' \in [Tokens -> Session]
    BY <1>1, <1>3 DEF Inv, TypeOK, Session
  <2>2. requests' \in [Requests -> Request]
    BY <1>2, IdleType DEF Inv, TypeOK
  <2> QED BY <1>2, <2>1, <2>2 DEF Inv, TypeOK
<1>5. /\ \A x \in Tokens : x # t => sessions'[x] = sessions[x]
      /\ sessions'[t].state = "live" /\ sessions'[t].user = requests[r].user
      /\ sessions'[t].stamp = requests[r].stamp
      /\ ~sessions'[t].raced =>
           ~requests[r].raced /\ \A q \in Requests : ~Writes(q, requests[r].user)
      /\ requests'[r] = Idle /\ \A q \in Requests : q # r => requests'[q] = requests[q]
  BY <1>1, <1>2 DEF Inv, TypeOK
<1>6. TablesFresh'
  BY <1>2, <1>5 DEF Inv, IInv, TablesFresh, Document
<1>7. ASSUME NEW s \in Requests PROVE Fine(requests[s])'
  <2>1. CASE s = r
    BY <2>1, <1>5, EndedFine
  <2>2. CASE s # r
    <3>1. requests'[s] = requests[s] /\ Fine(requests[s]) /\ requests[s].token \in Tokens
      BY <2>2, <1>5, RequestFields DEF Inv, IInv, RequestsFine, Fine
    <3>2. FineAccount(requests[s])' /\ FineRows(requests[s])'
      BY <3>1, <1>2 DEF Fine, FineAccount, FineRows, HasRow, Born
    <3>3. requests[s].op \in {"change", "reset"} /\ requests[s].step = "swept"
            /\ requests[s].user = requests[r].user => sessions'[t].raced
      BY <1>5 DEF Writes
    <3>4. FineSessions(requests[s])'
      BY <3>1, <3>3, <1>1, <1>5 DEF Fine, FineSessions, HasSession
    <3>5. requests[s].swept \subseteq Tokens
      BY RequestFields DEF Inv
    <3>6. FineLocks(requests[s])'
      BY <3>1, <3>5, <1>1, <1>2, <1>5 DEF Fine, FineLocks, HasSession, HasRow, Document
    <3> QED BY <3>2, <3>4, <3>6 DEF Fine
  <2> QED BY <2>1, <2>2
<1>8. Born(requests[r].user)
  BY <1>2, <1>3 DEF Fine, FineAccount
<1>9. SessionsMatchPassword'
  <2> SUFFICES ASSUME NEW x \in Tokens, HasSession(x)', ~sessions'[x].raced
               PROVE  sessions'[x].stamp = accounts'[sessions'[x].user].stamp
    BY DEF SessionsMatchPassword
  <2>1. CASE x = t
    BY <2>1, <1>2, <1>3, <1>5, <1>8 DEF Fine, FineAccount
  <2>2. CASE x # t
    BY <2>2, <1>2, <1>5 DEF Inv, IInv, Safe, SessionsMatchPassword, HasSession
  <2> QED BY <2>1, <2>2
<1>10. TemporaryMustChange'
  BY <1>2 DEF Inv, IInv, Safe, TemporaryMustChange, Born
<1>11. RowsHaveOwners'
  BY <1>2, <1>5, <1>8 DEF Inv, IInv, Safe, RowsHaveOwners, Born, HasSession, HasRow, Document
<1> QED
  BY <1>4, <1>6, <1>7, <1>9, <1>10, <1>11 DEF Inv, IInv, RequestsFine, Safe, Fine

LEMMA LogoutStep ==
  ASSUME Inv, NEW t \in Tokens, Logout(t)
  PROVE  Inv'
<1>1. /\ sessions' = [sessions EXCEPT ![t] = GoneSession]
      /\ UNCHANGED <<accounts, rows, files, requests, up, writes, outside>>
  BY DEF Logout
<1>2. TypeOK'
  BY <1>1, GoneType DEF Inv, TypeOK
<1>3. /\ \A x \in Tokens : x # t => sessions'[x] = sessions[x]
      /\ sessions'[t].state = "gone"
  BY <1>1, GoneType DEF Inv, TypeOK
<1>4. TablesFresh' /\ Safe'
  BY <1>1, <1>3 DEF Inv, IInv, TablesFresh, Safe, SessionsMatchPassword, TemporaryMustChange,
     RowsHaveOwners, Born, HasSession, HasRow, Document
<1>5. ASSUME NEW s \in Requests PROVE Fine(requests[s])'
  <2>1. /\ requests'[s] = requests[s] /\ Fine(requests[s]) /\ requests[s] \in Request
    BY <1>1, RequestFields DEF Inv, IInv, RequestsFine, Fine
  <2>2. FineAccount(requests[s])' /\ FineRows(requests[s])'
    BY <2>1, <1>1 DEF Fine, FineAccount, FineRows, HasRow, Born
  <2>3. requests[s].token \in Tokens
    BY <2>1 DEF Request
  <2>4. FineSessions(requests[s])'
    BY <2>1, <2>3, <1>3 DEF Fine, FineSessions, HasSession
  <2>5. requests[s].swept \subseteq Tokens
    BY <2>1 DEF Request
  <2>6. FineLocks(requests[s])'
    BY <2>1, <2>5, <1>1, <1>3 DEF Fine, FineLocks, HasSession, HasRow, Document
  <2> QED BY <2>2, <2>4, <2>6 DEF Fine
<1> QED BY <1>2, <1>4, <1>5 DEF Inv, IInv, RequestsFine, Fine

\* What a transaction that writes the row of u leaves of the requests in flight.
Marked(r, u) ==
  /\ requests' \in [Requests -> Request] /\ requests'[r] = Idle
  /\ \A q \in Requests \ {r} :
       \/ /\ requests'[q] = requests[q]
          /\ requests[q].user = u => requests[q].op \notin {"login", "reset"}
       \/ requests'[q] = [requests[q] EXCEPT !.raced = TRUE]

LEMMA RacingMarks ==
  ASSUME TypeOK, NEW r \in Requests, NEW u \in Ids, EndRacing(r, u)
  PROVE  Marked(r, u)
<1>1. \A q \in Request : [q EXCEPT !.raced = TRUE] \in Request
  BY DEF Request
<1>2. \A q \in Requests :
        requests'[q] = IF q = r THEN Idle
                       ELSE IF requests[q].user = u /\ requests[q].op \in {"login", "reset"}
                              THEN [requests[q] EXCEPT !.raced = TRUE]
                              ELSE requests[q]
  BY DEF EndRacing
<1>3. requests' = [q \in Requests |-> requests'[q]]
  BY DEF EndRacing
<1>4. ASSUME NEW q \in Requests PROVE requests'[q] \in Request
  <2>1. requests[q] \in Request
    BY DEF TypeOK
  <2> QED BY <1>1, <1>2, <2>1, IdleType
<1>5. requests' \in [Requests -> Request]
  BY <1>3, <1>4
<1>6. requests'[r] = Idle
  BY <1>2
<1>7. ASSUME NEW q \in Requests \ {r}
      PROVE  \/ /\ requests'[q] = requests[q]
                /\ requests[q].user = u => requests[q].op \notin {"login", "reset"}
             \/ requests'[q] = [requests[q] EXCEPT !.raced = TRUE]
  BY <1>2
<1> QED BY <1>5, <1>6, <1>7 DEF Marked

\* When only the row of u is written, and sessions only end, the others are fine.
LEMMA OthersFine ==
  ASSUME Inv, NEW r \in Requests, NEW u \in Ids, Marked(r, u), Shrunk, rows' = rows, files' = files,
         \A v \in Ids : /\ accounts'[v].state = accounts[v].state
                        /\ v # u => accounts'[v] = accounts[v]
  PROVE  \A s \in Requests : Fine(requests[s])'
<1> SUFFICES ASSUME NEW s \in Requests PROVE Fine(requests[s])'
  OBVIOUS
<1>1. CASE s = r
  BY <1>1, EndedFine DEF Marked
<1>2. CASE s # r
  <2> DEFINE q == requests[s]
  <2>1. q \in Request /\ q.user \in Ids /\ q.token \in Tokens /\ Fine(q)
    BY RequestFields DEF Inv, IInv, RequestsFine, Fine
  <2>2. /\ requests'[s].op = q.op /\ requests'[s].step = q.step /\ requests'[s].user = q.user
        /\ requests'[s].stamp = q.stamp /\ requests'[s].must = q.must
        /\ requests'[s].token = q.token /\ requests'[s].claimed = q.claimed
        /\ requests'[s].swept = q.swept /\ requests'[s].todo = q.todo
    BY <1>2, <2>1 DEF Marked, Request
  <2>3. \/ requests'[s].raced = TRUE
        \/ /\ requests'[s].raced = q.raced
           /\ q.user = u => q.op \notin {"login", "reset"}
    BY <1>2, <2>1 DEF Marked, Request
  <2>4. FineAccount(q) /\ FineSessions(q) /\ FineRows(q) /\ FineLocks(q) /\ q.swept \subseteq Tokens
    BY <2>1 DEF Fine, Request
  <2> HIDE DEF q
  <2>5. FineAccount(requests[s])'
    <3>1. accounts'[q.user].state = accounts[q.user].state
      BY <2>1
    <3>2. q.user # u => accounts'[q.user] = accounts[q.user]
      BY <2>1
    <3>3. q.step # "idle" => accounts[q.user].state # "unborn"
      BY <2>4 DEF FineAccount
    <3>4. q.step = "inserted" => accounts[q.user].state = "live"
      BY <2>4 DEF FineAccount, Born
    <3>5. requests'[s].raced \/ q.op \notin {"login", "reset"} \/ accounts'[q.user] = accounts[q.user]
      BY <2>3, <3>2
    <3> QED
      BY <2>2, <2>3, <2>4, <3>1, <3>3, <3>4, <3>5 DEF FineAccount, Born
  <2>6. FineSessions(requests[s])'
    BY <2>1, <2>2, <2>4 DEF FineSessions, Shrunk, HasSession
  <2>7. FineRows(requests[s])'
    BY <2>2, <2>4 DEF FineRows, HasRow
  <2>8. FineLocks(requests[s])'
    BY <2>2, <2>4 DEF FineLocks, Shrunk, HasSession, HasRow, Document
  <2> QED BY <2>5, <2>6, <2>7, <2>8 DEF Fine
<1> QED BY <1>1, <1>2

LEMMA CommitChangeStep ==
  ASSUME Inv, NEW r \in Requests, CommitChange(r)
  PROVE  Inv'
<1>1. PICK u \in Ids : u = requests[r].user
  BY RequestFields DEF Inv
<1>2. /\ requests[r].op = "change" /\ requests[r].step = "swept"
      /\ accounts' = [accounts EXCEPT ![u] =
           [accounts[u] EXCEPT !.stamp = writes + 1, !.given = "user",
                     !.must = accounts[u].must /\ ~requests[r].must, !.waived = FALSE]]
      /\ sessions' = [t \in Tokens |->
           IF t \in requests[r].swept THEN GoneSession
           ELSE IF t = requests[r].token /\ HasSession(t)
                  THEN [sessions[t] EXCEPT !.stamp = writes + 1]
                  ELSE sessions[t]]
      /\ EndRacing(r, u) /\ writes' = writes + 1 /\ writes < MaxWrites
      /\ UNCHANGED <<rows, files, up, outside>>
  BY <1>1 DEF CommitChange, At
<1>3. /\ requests[r].token \in Tokens /\ requests[r].must \in BOOLEAN /\ writes \in Nat
      /\ accounts[u].must \in BOOLEAN /\ Fine(requests[r]) /\ Marked(r, u)
  <2>1. TypeOK
    BY DEF Inv
  <2>2. writes \in Nat
    BY <2>1, AccountAssumption DEF TypeOK
  <2>3. Marked(r, u)
    BY <1>2, <2>1, RacingMarks
  <2>4. Fine(requests[r])
    BY DEF Inv, IInv, RequestsFine, Fine
  <2> QED BY <2>1, <2>2, <2>3, <2>4, RequestFields, AccountFields
<1>4. TypeOK'
  <2>1. accounts' \in [Ids -> Account]
    <3>1. accounts[u] \in Account /\ writes + 1 \in Nat
          /\ (accounts[u].must /\ ~requests[r].must) \in BOOLEAN
      BY <1>3 DEF Inv, TypeOK
    <3>2. \A a \in Account, n \in Nat, b \in BOOLEAN :
            [a EXCEPT !.stamp = n, !.given = "user", !.must = b, !.waived = FALSE] \in Account
      BY DEF Account
    <3>3. [accounts[u] EXCEPT !.stamp = writes + 1, !.given = "user",
             !.must = accounts[u].must /\ ~requests[r].must, !.waived = FALSE] \in Account
      BY <3>1, <3>2
    <3> QED BY <1>2, <3>3 DEF Inv, TypeOK
  <2>2. sessions' \in [Tokens -> Session]
    BY <1>2, <1>3, GoneType DEF Inv, TypeOK, Session
  <2>3. writes' \in 0..MaxWrites
    BY <1>2, <1>3, AccountAssumption
  <2> QED BY <1>2, <1>3, <2>1, <2>2, <2>3 DEF Inv, TypeOK, Marked
<1>5. /\ \A v \in Ids : v # u => accounts'[v] = accounts[v]
      /\ accounts'[u].state = accounts[u].state /\ accounts'[u].stamp = writes + 1
      /\ accounts'[u].given = "user"
  BY <1>2 DEF Inv, TypeOK, Account
<1>6. ASSUME NEW x \in Tokens
      PROVE  \/ sessions'[x].state = "gone"
             \/ /\ x \notin requests[r].swept
                /\ sessions'[x].state = sessions[x].state
                /\ sessions'[x].user = sessions[x].user
                /\ sessions'[x].raced = sessions[x].raced
                /\ IF x = requests[r].token /\ HasSession(x)
                     THEN sessions'[x].stamp = writes + 1
                     ELSE sessions'[x].stamp = sessions[x].stamp
  BY <1>2, GoneType DEF Inv, TypeOK, Session
<1>7. \A s \in Requests : Fine(requests[s])'
  <2>1. Shrunk
    BY <1>6 DEF Shrunk
  <2> QED BY <1>2, <1>3, <1>5, <2>1, OthersFine
<1>8. accounts[u].state # "unborn"
  BY <1>1, <1>2, <1>3 DEF Fine, FineAccount
<1>9. TablesFresh'
  <2>1. ASSUME NEW v \in Ids, accounts'[v].state = "unborn"
        PROVE  accounts'[v].given = "user" /\ accounts'[v].stamp = 0
    BY <2>1, <1>5, <1>8 DEF Inv, IInv, TablesFresh
  <2>2. ASSUME NEW x \in Tokens, sessions'[x].state = "unborn"
        PROVE  sessions'[x].stamp = 0 /\ ~sessions'[x].raced
    BY <2>2, <1>6 DEF Inv, IInv, TablesFresh, HasSession
  <2> QED BY <1>2, <2>1, <2>2 DEF Inv, IInv, TablesFresh, Document
<1>10. SessionsMatchPassword'
  <2> SUFFICES ASSUME NEW x \in Tokens, HasSession(x)', ~sessions'[x].raced
               PROVE  sessions'[x].stamp = accounts'[sessions'[x].user].stamp
    BY DEF SessionsMatchPassword
  <2>1. /\ HasSession(x) /\ ~sessions[x].raced /\ x \notin requests[r].swept
        /\ sessions'[x].user = sessions[x].user /\ sessions[x].user \in Ids
    BY <1>6, SessionFields DEF HasSession, Inv
  <2>2. CASE sessions[x].user = u
    <3>1. x = requests[r].token
      BY <1>1, <1>2, <1>3, <2>1, <2>2 DEF Fine, FineSessions
    <3> QED BY <3>1, <2>1, <2>2, <1>5, <1>6 DEF HasSession
  <2>3. CASE sessions[x].user # u
    <3>1. x # requests[r].token
      BY <1>1, <1>2, <1>3, <2>1, <2>3 DEF Fine, FineSessions
    <3>2. sessions'[x].stamp = sessions[x].stamp
      BY <3>1, <2>1, <1>6 DEF HasSession
    <3> QED
      BY <3>2, <2>1, <2>3, <1>5 DEF Inv, IInv, Safe, SessionsMatchPassword
  <2> QED BY <2>2, <2>3
<1>11. TemporaryMustChange'
  BY <1>5 DEF Inv, IInv, Safe, TemporaryMustChange, Born
<1>12. RowsHaveOwners'
  <2>1. \A v \in Ids : accounts'[v].state = accounts[v].state
    BY <1>5
  <2>2. \A d \in RowIds : rows[d].owner \in Ids
    BY DEF Inv, TypeOK, Row
  <2>3. ASSUME NEW x \in Tokens, HasSession(x)' PROVE Born(sessions[x].user)'
    <3>1. HasSession(x) /\ sessions'[x].user = sessions[x].user /\ sessions[x].user \in Ids
      BY <2>3, <1>6, SessionFields DEF HasSession, Inv
    <3> QED BY <3>1, <2>1 DEF Inv, IInv, Safe, RowsHaveOwners, Born
  <2>4. ASSUME NEW d \in RowIds, HasRow(d)'
        PROVE  (Born(rows[d].owner) /\ (Document(d) /\ rows[d].path => d \in files))'
    BY <2>4, <2>1, <2>2, <1>2 DEF Inv, IInv, Safe, RowsHaveOwners, Born, HasRow, Document
  <2> QED BY <2>3, <2>4 DEF RowsHaveOwners
<1> QED
  BY <1>4, <1>7, <1>9, <1>10, <1>11, <1>12 DEF Inv, IInv, RequestsFine, Safe, Fine

LEMMA CommitResetStep ==
  ASSUME Inv, NEW r \in Requests, CommitReset(r)
  PROVE  Inv'
<1>1. PICK u \in Ids : u = requests[r].user
  BY RequestFields DEF Inv
<1>2. /\ requests[r].op = "reset" /\ requests[r].step = "swept"
      /\ accounts' = [accounts EXCEPT ![u] =
           [accounts[u] EXCEPT !.stamp = writes + 1, !.given = "operator",
                     !.must = MustAfterReset(r, accounts[u].must),
                     !.waived = requests[r].raced]]
      /\ sessions' = WithoutSessions(requests[r].swept)
      /\ EndRacing(r, u) /\ writes' = writes + 1 /\ writes < MaxWrites
      /\ UNCHANGED <<rows, files, up, outside>>
  BY <1>1 DEF CommitReset, At
<1>3. /\ requests[r].must \in BOOLEAN /\ requests[r].raced \in BOOLEAN /\ writes \in Nat
      /\ accounts[u].must \in BOOLEAN /\ Fine(requests[r]) /\ Marked(r, u)
  <2>1. TypeOK
    BY DEF Inv
  <2>2. writes \in Nat
    BY <2>1, AccountAssumption DEF TypeOK
  <2>3. Marked(r, u)
    BY <1>2, <2>1, RacingMarks
  <2>4. Fine(requests[r])
    BY DEF Inv, IInv, RequestsFine, Fine
  <2> QED BY <2>1, <2>2, <2>3, <2>4, RequestFields, AccountFields
<1> DEFINE must == MustAfterReset(r, accounts[u].must)
<1>4. must \in BOOLEAN /\ (~requests[r].must => must) /\ (accounts[u].must => must)
  BY <1>3 DEF MustAfterReset
<1> HIDE DEF must
<1>5. TypeOK'
  <2>1. accounts' \in [Ids -> Account]
    <3>1. accounts[u] \in Account /\ writes + 1 \in Nat
      BY <1>3 DEF Inv, TypeOK
    <3>2. \A a \in Account, n \in Nat, b, c \in BOOLEAN :
            [a EXCEPT !.stamp = n, !.given = "operator", !.must = b, !.waived = c] \in Account
      BY DEF Account
    <3>3. [accounts[u] EXCEPT !.stamp = writes + 1, !.given = "operator",
             !.must = must, !.waived = requests[r].raced] \in Account
      BY <1>3, <1>4, <3>1, <3>2
    <3> QED BY <1>2, <3>3 DEF Inv, TypeOK, must
  <2>2. sessions' \in [Tokens -> Session]
    BY <1>2, GoneType DEF Inv, TypeOK, WithoutSessions
  <2>3. writes' \in 0..MaxWrites
    BY <1>2, <1>3, AccountAssumption
  <2> QED BY <1>2, <1>3, <2>1, <2>2, <2>3 DEF Inv, TypeOK, Marked
<1>6. /\ \A v \in Ids : v # u => accounts'[v] = accounts[v]
      /\ accounts'[u].state = accounts[u].state /\ accounts'[u].stamp = writes + 1
      /\ accounts'[u].must = must /\ accounts'[u].waived = requests[r].raced
  BY <1>2 DEF Inv, TypeOK, Account, must
<1>7. ASSUME NEW x \in Tokens
      PROVE  \/ sessions'[x].state = "gone"
             \/ x \notin requests[r].swept /\ sessions'[x] = sessions[x]
  BY <1>2, GoneType DEF WithoutSessions
<1>8. \A s \in Requests : Fine(requests[s])'
  <2>1. Shrunk
    BY <1>7 DEF Shrunk
  <2> QED BY <1>2, <1>3, <1>6, <2>1, OthersFine
<1>9. accounts[u].state # "unborn"
  BY <1>1, <1>2, <1>3 DEF Fine, FineAccount
<1>10. TablesFresh'
  <2>1. ASSUME NEW v \in Ids, accounts'[v].state = "unborn"
        PROVE  accounts'[v].given = "user" /\ accounts'[v].stamp = 0
    BY <2>1, <1>6, <1>9 DEF Inv, IInv, TablesFresh
  <2>2. ASSUME NEW x \in Tokens, sessions'[x].state = "unborn"
        PROVE  sessions'[x].stamp = 0 /\ ~sessions'[x].raced
    BY <2>2, <1>7 DEF Inv, IInv, TablesFresh
  <2> QED BY <1>2, <2>1, <2>2 DEF Inv, IInv, TablesFresh, Document
<1>11. SessionsMatchPassword'
  <2> SUFFICES ASSUME NEW x \in Tokens, HasSession(x)', ~sessions'[x].raced
               PROVE  sessions'[x].stamp = accounts'[sessions'[x].user].stamp
    BY DEF SessionsMatchPassword
  <2>1. /\ HasSession(x) /\ ~sessions[x].raced /\ x \notin requests[r].swept
        /\ sessions'[x] = sessions[x] /\ sessions[x].user \in Ids
    BY <1>7, SessionFields DEF HasSession, Inv
  <2>2. sessions[x].user # u
    BY <1>1, <1>2, <1>3, <2>1 DEF Fine, FineSessions
  <2> QED
    BY <2>1, <2>2, <1>6 DEF Inv, IInv, Safe, SessionsMatchPassword
<1>12. TemporaryMustChange'
  <2> SUFFICES ASSUME NEW v \in Ids, Born(v)', accounts'[v].given = "operator"
               PROVE  accounts'[v].must \/ accounts'[v].waived
    BY DEF TemporaryMustChange
  <2>1. CASE v # u
    BY <2>1, <1>6 DEF Inv, IInv, Safe, TemporaryMustChange, Born
  <2>2. CASE v = u
    <3>1. Born(u)
      BY <2>2, <1>6 DEF Born
    <3>2. requests[r].raced \/ ~requests[r].must \/ accounts[u].must
      BY <3>1, <1>1, <1>2, <1>3 DEF Fine, FineAccount
    <3> QED BY <2>2, <3>2, <1>4, <1>6
  <2> QED BY <2>1, <2>2
<1>13. RowsHaveOwners'
  <2>1. \A v \in Ids : accounts'[v].state = accounts[v].state
    BY <1>6
  <2>2. \A d \in RowIds : rows[d].owner \in Ids
    BY DEF Inv, TypeOK, Row
  <2>3. ASSUME NEW x \in Tokens, HasSession(x)' PROVE Born(sessions[x].user)'
    <3>1. HasSession(x) /\ sessions'[x] = sessions[x] /\ sessions[x].user \in Ids
      BY <2>3, <1>7, SessionFields DEF HasSession, Inv
    <3> QED BY <3>1, <2>1 DEF Inv, IInv, Safe, RowsHaveOwners, Born
  <2>4. ASSUME NEW d \in RowIds, HasRow(d)'
        PROVE  (Born(rows[d].owner) /\ (Document(d) /\ rows[d].path => d \in files))'
    BY <2>4, <2>1, <2>2, <1>2 DEF Inv, IInv, Safe, RowsHaveOwners, Born, HasRow, Document
  <2> QED BY <2>3, <2>4 DEF RowsHaveOwners
<1> QED
  BY <1>5, <1>8, <1>10, <1>11, <1>12, <1>13 DEF Inv, IInv, RequestsFine, Safe, Fine

\* A row that nobody has referred to yet, of an owner whom the insert has locked.
LEMMA CommitCreateStep ==
  ASSUME Inv, NEW r \in Requests, CommitCreate(r)
  PROVE  Inv'
<1>0. Next1(rows) \in RowIds /\ rows[Next1(rows)].state = "unborn"
  <2>1. Unborn(rows) # {} /\ DOMAIN rows = RowIds
    BY DEF CommitCreate, Inv, TypeOK
  <2> QED BY <2>1, NextKey
<1>1. PICK d \in RowIds :
        /\ rows[d].state = "unborn"
        /\ rows' = [rows EXCEPT ![d] =
             [state |-> IF requests[r].kind = "document" THEN "active" ELSE "settled",
              owner |-> requests[r].user, kind |-> requests[r].kind, path |-> FALSE]]
        /\ requests' = [requests EXCEPT ![r] =
             IF requests[r].kind = "document"
               THEN [requests[r] EXCEPT !.step = "committed", !.todo = {d}] ELSE Idle]
  BY <1>0 DEF CommitCreate
<1>2. /\ UNCHANGED <<accounts, sessions, files, up, writes, outside>>
      /\ requests[r].op = "create" /\ requests[r].step = "inserted"
  BY DEF CommitCreate, At
<1>3. /\ requests[r] \in Request /\ requests[r].user \in Ids
      /\ requests[r].kind \in {"document", "chat"} /\ Fine(requests[r])
  BY RequestFields DEF Inv, IInv, RequestsFine, Fine
<1>4. TypeOK'
  <2>1. rows' \in [RowIds -> Row]
    BY <1>1, <1>3 DEF Inv, TypeOK, Row
  <2>2. [requests[r] EXCEPT !.step = "committed", !.todo = {d}] \in Request
    BY <1>3 DEF Request
  <2>3. requests' \in [Requests -> Request]
    BY <1>1, <2>2, IdleType DEF Inv, TypeOK
  <2> QED BY <1>2, <2>1, <2>3 DEF Inv, TypeOK
<1>5. /\ \A e \in RowIds : e # d => rows'[e] = rows[e]
      /\ rows'[d].owner = requests[r].user /\ rows'[d].kind = requests[r].kind
      /\ rows'[d].state \in {"active", "settled"} /\ ~rows'[d].path
      /\ rows'[d].state = "active" => requests[r].kind = "document"
      /\ \A q \in Requests : q # r => requests'[q] = requests[q]
  BY <1>1, <1>2 DEF Inv, TypeOK
<1>6. TablesFresh'
  BY <1>2, <1>5 DEF Inv, IInv, TablesFresh, Document
<1>7. ASSUME NEW s \in Requests PROVE Fine(requests[s])'
  <2>1. CASE s = r /\ requests[r].kind # "document"
    <3>1. requests'[s] = Idle
      BY <2>1, <1>1 DEF Inv, TypeOK
    <3> QED BY <3>1, EndedFine
  <2>2. CASE s = r /\ requests[r].kind = "document"
    <3>1. requests'[s] = [requests[r] EXCEPT !.step = "committed", !.todo = {d}]
      BY <2>2, <1>1 DEF Inv, TypeOK
    <3>2. /\ requests'[s].op = "create" /\ requests'[s].step = "committed"
          /\ requests'[s].user = requests[r].user /\ requests'[s].todo = {d}
          /\ requests'[s].claimed = requests[r].claimed /\ requests'[s].swept = requests[r].swept
      BY <3>1, <1>2, <1>3 DEF Request
    <3>3. requests[r].claimed = {} /\ requests[r].swept = {} /\ accounts[requests[r].user].state # "unborn"
      BY <1>2, <1>3 DEF Fine, FineLocks, FineAccount
    <3> QED
      BY <3>2, <3>3, <1>2, <1>5 DEF Fine, FineAccount, FineSessions, FineRows, FineLocks
  <2>3. CASE s # r
    <3>1. requests'[s] = requests[s] /\ Fine(requests[s]) /\ requests[s].claimed \subseteq RowIds
          /\ requests[s].todo \subseteq RowIds
      BY <2>3, <1>5, RequestFields DEF Inv, IInv, RequestsFine, Fine
    <3>2. FineAccount(requests[s])' /\ FineSessions(requests[s])'
      BY <3>1, <1>2 DEF Fine, FineAccount, FineSessions, Born, HasSession
    <3>3. \A e \in requests[s].claimed \cup requests[s].todo : e # d
      BY <3>1, <1>1 DEF Fine, FineRows
    <3>4. FineRows(requests[s])'
      BY <3>1, <3>3, <1>2, <1>5 DEF Fine, FineRows, HasRow
    <3>5. FineLocks(requests[s])'
      BY <3>1, <3>3, <1>2, <1>5 DEF Fine, FineLocks, HasSession, HasRow, Document
    <3> QED BY <3>2, <3>4, <3>5 DEF Fine
  <2> QED BY <2>1, <2>2, <2>3
<1>8. Born(requests[r].user)
  BY <1>2, <1>3 DEF Fine, FineAccount
<1>9. SessionsMatchPassword' /\ TemporaryMustChange'
  BY <1>2 DEF Inv, IInv, Safe, SessionsMatchPassword, TemporaryMustChange, Born, HasSession
<1>10. RowsHaveOwners'
  <2>1. ASSUME NEW e \in RowIds, HasRow(e)'
        PROVE  (Born(rows[e].owner) /\ (Document(e) /\ rows[e].path => e \in files))'
    <3>1. CASE e = d
      BY <3>1, <1>2, <1>5, <1>8 DEF Born, Document
    <3>2. CASE e # d
      BY <2>1, <3>2, <1>2, <1>5 DEF Inv, IInv, Safe, RowsHaveOwners, Born, HasRow, Document
    <3> QED BY <3>1, <3>2
  <2> QED BY <2>1, <1>2 DEF Inv, IInv, Safe, RowsHaveOwners, Born, HasSession
<1> QED BY <1>4, <1>6, <1>7, <1>9, <1>10 DEF Inv, IInv, RequestsFine, Safe

\* More files are there than before.
LEMMA SaveFileStep ==
  ASSUME Inv, NEW r \in Requests, SaveFile(r)
  PROVE  Inv'
<1>1. /\ requests[r].op = "create" /\ requests[r].step = "committed"
      /\ files' = files \cup requests[r].todo
      /\ requests' = [requests EXCEPT ![r] = [requests[r] EXCEPT !.step = "saved"]]
      /\ UNCHANGED <<accounts, sessions, rows, up, writes, outside>>
  BY DEF SaveFile, At
<1>2. requests[r] \in Request /\ requests[r].todo \subseteq RowIds /\ Fine(requests[r])
  BY RequestFields DEF Inv, IInv, RequestsFine
<1>3. TypeOK'
  <2>1. [requests[r] EXCEPT !.step = "saved"] \in Request
    BY <1>2 DEF Request
  <2> QED BY <1>1, <1>2, <2>1 DEF Inv, TypeOK
<1>4. ASSUME NEW s \in Requests PROVE Fine(requests[s])'
  <2>1. CASE s = r
    <3>1. requests'[s] = [requests[r] EXCEPT !.step = "saved"]
      BY <2>1, <1>1 DEF Inv, TypeOK
    <3>2. /\ requests'[s].op = "create" /\ requests'[s].step = "saved"
          /\ requests'[s].user = requests[r].user /\ requests'[s].todo = requests[r].todo
          /\ requests'[s].claimed = requests[r].claimed /\ requests'[s].swept = requests[r].swept
      BY <3>1, <1>1, <1>2 DEF Request
    <3> QED
      BY <3>2, <1>1, <1>2 DEF Fine, FineAccount, FineSessions, FineRows, FineLocks, HasRow
  <2>2. CASE s # r
    <3>1. requests'[s] = requests[s] /\ Fine(requests[s])
      BY <2>2, <1>1 DEF Inv, TypeOK, IInv, RequestsFine
    <3> QED
      BY <3>1, <1>1 DEF Fine, FineAccount, FineSessions, FineRows, FineLocks, Born,
         HasSession, HasRow, Document
  <2> QED BY <2>1, <2>2
<1>5. TablesFresh' /\ Safe'
  BY <1>1 DEF Inv, IInv, TablesFresh, Safe, SessionsMatchPassword, TemporaryMustChange,
     RowsHaveOwners, Born, HasSession, HasRow, Document
<1> QED BY <1>3, <1>4, <1>5 DEF Inv, IInv, RequestsFine

\* The path is that of a file that has been saved.
LEMMA FinishCreateStep ==
  ASSUME Inv, NEW r \in Requests, FinishCreate(r)
  PROVE  Inv'
<1>1. /\ requests[r].op = "create" /\ requests[r].step = "saved"
      /\ rows' = [d \in RowIds |-> IF d \in requests[r].todo /\ HasRow(d)
                                      THEN [rows[d] EXCEPT !.path = TRUE] ELSE rows[d]]
      /\ requests' = [requests EXCEPT ![r] = Idle]
      /\ UNCHANGED <<accounts, sessions, files, up, writes, outside>>
  BY DEF FinishCreate, At
<1>2. Fine(requests[r])
  BY DEF Inv, IInv, RequestsFine
<1>3. \A d \in RowIds :
        /\ rows'[d].state = rows[d].state /\ rows'[d].owner = rows[d].owner
        /\ rows'[d].kind = rows[d].kind
        /\ rows'[d].path = rows[d].path \/ (d \in requests[r].todo /\ HasRow(d))
  BY <1>1 DEF Inv, TypeOK, Row
<1>4. TypeOK'
  <2>1. rows' \in [RowIds -> Row]
    BY <1>1 DEF Inv, TypeOK, Row
  <2> QED BY <1>1, <2>1, IdleType DEF Inv, TypeOK
<1>5. TablesFresh'
  BY <1>1, <1>3 DEF Inv, IInv, TablesFresh, Document
<1>6. ASSUME NEW s \in Requests PROVE Fine(requests[s])'
  <2>1. CASE s = r
    BY <2>1, <1>1, EndedFine DEF Inv, TypeOK
  <2>2. CASE s # r
    <3>1. requests'[s] = requests[s] /\ Fine(requests[s]) /\ requests[s].claimed \subseteq RowIds
          /\ requests[s].todo \subseteq RowIds
      BY <2>2, <1>1, RequestFields DEF Inv, TypeOK, IInv, RequestsFine
    <3>2. FineAccount(requests[s])' /\ FineSessions(requests[s])'
      BY <3>1, <1>1 DEF Fine, FineAccount, FineSessions, Born, HasSession
    <3>3. FineRows(requests[s])'
      BY <3>1, <1>1, <1>3 DEF Fine, FineRows, HasRow
    <3>4. FineLocks(requests[s])'
      BY <3>1, <1>1, <1>3 DEF Fine, FineLocks, HasSession, HasRow, Document
    <3> QED BY <3>2, <3>3, <3>4 DEF Fine
  <2> QED BY <2>1, <2>2
<1>7. SessionsMatchPassword' /\ TemporaryMustChange'
  BY <1>1 DEF Inv, IInv, Safe, SessionsMatchPassword, TemporaryMustChange, Born, HasSession
<1>8. RowsHaveOwners'
  <2>1. ASSUME NEW e \in RowIds, HasRow(e)'
        PROVE  (Born(rows[e].owner) /\ (Document(e) /\ rows[e].path => e \in files))'
    <3>1. HasRow(e) /\ rows'[e].owner = rows[e].owner /\ rows'[e].kind = rows[e].kind
      BY <2>1, <1>3 DEF HasRow
    <3>2. CASE rows'[e].path = rows[e].path
      BY <3>1, <3>2, <1>1 DEF Inv, IInv, Safe, RowsHaveOwners, Born, Document
    <3>3. CASE e \in requests[r].todo
      BY <3>1, <3>3, <1>1, <1>2 DEF Inv, IInv, Safe, RowsHaveOwners, Born, Fine, FineRows
    <3> QED BY <3>2, <3>3, <1>3
  <2> QED BY <2>1, <1>1 DEF Inv, IInv, Safe, RowsHaveOwners, Born, HasSession
<1> QED BY <1>4, <1>5, <1>6, <1>7, <1>8 DEF Inv, IInv, RequestsFine, Safe

\* The row of the upload goes; what others know of it is that it is gone.
LEMMA RejectCreateStep ==
  ASSUME Inv, NEW r \in Requests, RejectCreate(r)
  PROVE  Inv'
<1> DEFINE q == [requests[r] EXCEPT !.step = "removed", !.todo = {}, !.claimed = requests[r].todo]
<1>1. /\ requests[r].op = "create" /\ requests[r].step \in {"committed", "saved"}
      /\ rows' = [d \in RowIds |-> IF d \in requests[r].todo THEN GoneRow ELSE rows[d]]
      /\ requests' = [requests EXCEPT ![r] = q]
      /\ UNCHANGED <<accounts, sessions, files, up, writes, outside>>
  BY DEF RejectCreate, At
<1>2. requests[r] \in Request /\ requests[r].todo \subseteq RowIds /\ Fine(requests[r])
  BY RequestFields DEF Inv, IInv, RequestsFine
<1>3. q \in Request
  BY <1>2 DEF Request
<1>4. TypeOK'
  BY <1>1, <1>3, GoneType DEF Inv, TypeOK
<1>5. \A d \in RowIds : IF d \in requests[r].todo
                            THEN rows'[d].state = "gone" ELSE rows'[d] = rows[d]
  BY <1>1, GoneType
<1>6. TablesFresh'
  BY <1>1, <1>5 DEF Inv, IInv, TablesFresh, Document
<1>7. ASSUME NEW s \in Requests PROVE Fine(requests[s])'
  <2>1. CASE s = r
    <3>1. requests'[s] = q
      BY <2>1, <1>1 DEF Inv, TypeOK
    <3>2. /\ q.op = "create" /\ q.step = "removed" /\ q.user = requests[r].user
          /\ q.todo = {} /\ q.claimed = requests[r].todo /\ q.swept = requests[r].swept
      BY <1>1, <1>2 DEF Request
    <3> HIDE DEF q
    <3>3. q.swept = {}
      BY <3>2, <1>1, <1>2 DEF Fine, FineLocks
    <3> QED
      BY <3>1, <3>2, <3>3, <1>1, <1>2, <1>5
         DEF Fine, FineAccount, FineSessions, FineRows, FineLocks
  <2>2. CASE s # r
    <3>1. requests'[s] = requests[s] /\ Fine(requests[s]) /\ requests[s].claimed \subseteq RowIds
          /\ requests[s].todo \subseteq RowIds
      BY <2>2, <1>1, RequestFields DEF Inv, TypeOK, IInv, RequestsFine
    <3>2. FineAccount(requests[s])' /\ FineSessions(requests[s])'
      BY <3>1, <1>1 DEF Fine, FineAccount, FineSessions, Born, HasSession
    <3>3. FineRows(requests[s])'
      BY <3>1, <1>1, <1>5 DEF Fine, FineRows, HasRow
    <3>4. FineLocks(requests[s])'
      BY <3>1, <1>1, <1>5 DEF Fine, FineLocks, HasSession, HasRow, Document
    <3> QED BY <3>2, <3>3, <3>4 DEF Fine
  <2> QED BY <2>1, <2>2
<1>8. SessionsMatchPassword' /\ TemporaryMustChange'
  BY <1>1 DEF Inv, IInv, Safe, SessionsMatchPassword, TemporaryMustChange, Born, HasSession
<1>9. RowsHaveOwners'
  BY <1>1, <1>5 DEF Inv, IInv, Safe, RowsHaveOwners, Born, HasSession, HasRow, Document
<1> QED BY <1>4, <1>6, <1>7, <1>8, <1>9 DEF Inv, IInv, RequestsFine, Safe

\* A worker leaves alone what a deletion has locked.
LEMMA WorkStep ==
  ASSUME Inv, NEW d \in RowIds, Work(d)
  PROVE  Inv'
<1>1. /\ HasRow(d) /\ Document(d) /\ \A q \in Requests : d \notin requests[q].claimed
      /\ \E state \in {"active", "settled"} : rows' = [rows EXCEPT ![d].state = state]
      /\ UNCHANGED <<accounts, sessions, files, requests, up, writes, outside>>
  BY DEF Work, Locked
<1>2. rows' \in [RowIds -> Row]
  BY <1>1 DEF Inv, TypeOK, Row
<1>3. /\ \A e \in RowIds : /\ e # d => rows'[e] = rows[e]
                           /\ rows'[e].kind = rows[e].kind /\ rows'[e].owner = rows[e].owner
                           /\ rows'[e].path = rows[e].path
      /\ rows'[d].state \in {"active", "settled"}
  BY <1>1 DEF Inv, TypeOK, Row
<1>4. TypeOK'
  BY <1>1, <1>2 DEF Inv, TypeOK
<1>5. TablesFresh'
  BY <1>1, <1>3 DEF Inv, IInv, TablesFresh, Document
<1>6. ASSUME NEW s \in Requests PROVE Fine(requests[s])'
  <2>1. requests'[s] = requests[s] /\ Fine(requests[s]) /\ requests[s].claimed \subseteq RowIds
        /\ requests[s].todo \subseteq RowIds
    BY <1>1, RequestFields DEF Inv, IInv, RequestsFine, Fine
  <2>2. FineAccount(requests[s])' /\ FineSessions(requests[s])'
    BY <2>1, <1>1 DEF Fine, FineAccount, FineSessions, Born, HasSession
  <2>3. FineRows(requests[s])'
    BY <2>1, <1>1, <1>3 DEF Fine, FineRows, HasRow
  <2>4. FineLocks(requests[s])'
    BY <2>1, <1>1, <1>3 DEF Fine, FineLocks, HasSession, HasRow, Document
  <2> QED BY <2>2, <2>3, <2>4 DEF Fine
<1>7. SessionsMatchPassword' /\ TemporaryMustChange'
  BY <1>1 DEF Inv, IInv, Safe, SessionsMatchPassword, TemporaryMustChange, Born, HasSession
<1>8. RowsHaveOwners'
  <2>1. ASSUME NEW e \in RowIds, HasRow(e)'
        PROVE  (Born(rows[e].owner) /\ (Document(e) /\ rows[e].path => e \in files))'
    <3>1. HasRow(e) /\ rows'[e].kind = rows[e].kind /\ rows'[e].owner = rows[e].owner
          /\ rows'[e].path = rows[e].path
      BY <2>1, <1>1, <1>3 DEF HasRow
    <3> QED BY <3>1, <1>1 DEF Inv, IInv, Safe, RowsHaveOwners, Born, Document
  <2> QED BY <2>1, <1>1 DEF Inv, IInv, Safe, RowsHaveOwners, Born, HasSession
<1> QED BY <1>4, <1>5, <1>6, <1>7, <1>8 DEF Inv, IInv, RequestsFine, Safe, Fine

\* Nobody has inserted for the user, and nothing of the user remains.
LEMMA CommitDeleteStep ==
  ASSUME Inv, NEW r \in Requests, CommitDelete(r)
  PROVE  Inv'
<1>1. PICK u \in Ids : u = requests[r].user
  BY RequestFields DEF Inv
<1>2. /\ requests[r].op = "delete" /\ requests[r].step = "swept"
      /\ \A q \in Requests \ {r} : ~(requests[q].user = u /\ requests[q].step = "inserted")
      /\ \A d \in RowIds : HasRow(d) /\ rows[d].owner = u => d \in requests[r].claimed
      /\ accounts' = [accounts EXCEPT ![u] = GoneAccount]
      /\ rows' = [d \in RowIds |-> IF d \in requests[r].claimed THEN GoneRow ELSE rows[d]]
      /\ sessions' = WithoutSessions(SessionsOf(u))
      /\ requests' = [requests EXCEPT ![r] = [requests[r] EXCEPT !.step = "removed", !.swept = {}]]
      /\ UNCHANGED <<files, up, writes, outside>>
  BY <1>1 DEF CommitDelete, At, UsersOfRow, Shares, Remains, RowsOf
<1>3. Fine(requests[r]) /\ requests[r] \in Request
  BY RequestFields DEF Inv, IInv, RequestsFine, Fine
<1>4. [requests[r] EXCEPT !.step = "removed", !.swept = {}] \in Request
  BY <1>3 DEF Request
<1>5. TypeOK'
  <2>1. accounts' \in [Ids -> Account] /\ rows' \in [RowIds -> Row]
    BY <1>2, GoneType DEF Inv, TypeOK
  <2>2. sessions' \in [Tokens -> Session]
    BY <1>2, GoneType DEF Inv, TypeOK, WithoutSessions
  <2>3. requests' \in [Requests -> Request]
    BY <1>2, <1>4 DEF Inv, TypeOK
  <2> QED BY <1>2, <2>1, <2>2, <2>3 DEF Inv, TypeOK
<1>6. /\ \A v \in Ids : v # u => accounts'[v] = accounts[v]
      /\ accounts'[u].state = "gone"
      /\ \A d \in RowIds : IF d \in requests[r].claimed
                             THEN rows'[d].state = "gone" /\ rows'[d].kind = "chat"
                             ELSE rows'[d] = rows[d]
      /\ \A x \in Tokens : IF HasSession(x) /\ sessions[x].user = u
                             THEN sessions'[x].state = "gone" ELSE sessions'[x] = sessions[x]
      /\ \A q \in Requests : q # r => requests'[q] = requests[q]
  BY <1>2, GoneType DEF Inv, TypeOK, WithoutSessions, SessionsOf
<1>7. TablesFresh'
  BY <1>2, <1>6 DEF Inv, IInv, TablesFresh, Document
<1>8. ASSUME NEW s \in Requests PROVE Fine(requests[s])'
  <2>1. CASE s = r
    <3>1. /\ requests'[r].op = "delete" /\ requests'[r].step = "removed"
          /\ requests'[r].user = u /\ requests'[r].claimed = requests[r].claimed
          /\ requests'[r].todo = requests[r].todo /\ requests'[r].swept = {}
          /\ requests[r].claimed \subseteq RowIds /\ requests[r].todo \subseteq RowIds
      BY <1>1, <1>2, <1>3 DEF Request, Inv, TypeOK
    <3> QED
      BY <3>1, <2>1, <1>3, <1>6 DEF Fine, FineAccount, FineSessions, FineRows, FineLocks
  <2>2. CASE s # r
    <3>1. /\ requests'[s] = requests[s] /\ Fine(requests[s]) /\ requests[s] \in Request
          /\ requests[s].user \in Ids /\ requests[s].claimed \subseteq RowIds
          /\ requests[s].todo \subseteq RowIds /\ requests[s].swept \subseteq Tokens
      BY <2>2, <1>6, RequestFields DEF Inv, IInv, RequestsFine, Fine
    <3>2. FineAccount(requests[s])'
      <4>1. CASE requests[s].user = u
        BY <4>1, <3>1, <2>2, <1>2, <1>6 DEF Fine, FineAccount, Born
      <4>2. CASE requests[s].user # u
        BY <4>2, <3>1, <1>6 DEF Fine, FineAccount, Born
      <4> QED BY <4>1, <4>2
    <3>3. FineSessions(requests[s])'
      <4>1. Shrunk
        BY <1>6 DEF Shrunk
      <4>2. requests[s].token \in Tokens
        BY <3>1 DEF Request
      <4> QED BY <4>1, <4>2, <3>1 DEF Fine, FineSessions, Shrunk, HasSession
    <3>4. FineRows(requests[s])'
      BY <3>1, <1>2, <1>6 DEF Fine, FineRows, HasRow
    <3>5. FineLocks(requests[s])'
      BY <3>1, <1>6 DEF Fine, FineLocks, HasSession, HasRow, Document
    <3> QED BY <3>2, <3>3, <3>4, <3>5 DEF Fine
  <2> QED BY <2>1, <2>2
<1>9. ASSUME NEW x \in Tokens, HasSession(x)'
      PROVE  /\ HasSession(x) /\ sessions'[x] = sessions[x]
             /\ sessions[x].user \in Ids /\ sessions[x].user # u
  BY <1>9, <1>6, SessionFields DEF HasSession, Inv
<1>10. SessionsMatchPassword'
  BY <1>6, <1>9 DEF Inv, IInv, Safe, SessionsMatchPassword
<1>11. TemporaryMustChange'
  BY <1>6 DEF Inv, IInv, Safe, TemporaryMustChange, Born
<1>12. RowsHaveOwners'
  <2>1. ASSUME NEW x \in Tokens, HasSession(x)' PROVE Born(sessions[x].user)'
    BY <1>6, <1>9, <2>1 DEF Inv, IInv, Safe, RowsHaveOwners, Born
  <2>2. ASSUME NEW d \in RowIds, HasRow(d)'
        PROVE  (Born(rows[d].owner) /\ (Document(d) /\ rows[d].path => d \in files))'
    <3>1. d \notin requests[r].claimed /\ rows'[d] = rows[d] /\ HasRow(d)
      BY <2>2, <1>6 DEF HasRow
    <3>2. rows[d].owner \in Ids /\ rows[d].owner # u
      BY <3>1, <1>2 DEF Inv, TypeOK, Row
    <3> QED
      BY <3>1, <3>2, <1>2, <1>6 DEF Inv, IInv, Safe, RowsHaveOwners, Born, Document
  <2> QED BY <2>1, <2>2 DEF RowsHaveOwners
<1> QED
  BY <1>5, <1>7, <1>8, <1>10, <1>11, <1>12 DEF Inv, IInv, RequestsFine, Safe, Fine

\* The files go after their rows, which never come back.
LEMMA RemoveFilesStep ==
  ASSUME Inv, NEW r \in Requests, RemoveFiles(r)
  PROVE  Inv'
<1>1. /\ requests[r].step = "removed"
      /\ files' \subseteq files /\ \A d \in files : d \notin requests[r].claimed => d \in files'
      /\ requests' = [requests EXCEPT ![r] = Idle]
      /\ UNCHANGED <<accounts, sessions, rows, up, writes, outside>>
  BY DEF RemoveFiles, At
<1>2. TypeOK'
  BY <1>1, IdleType DEF Inv, TypeOK
<1>5. \A d \in requests[r].claimed : ~HasRow(d)
  BY <1>1 DEF Inv, IInv, RequestsFine, Fine, FineRows, HasRow
<1>3. ASSUME NEW s \in Requests PROVE Fine(requests[s])'
  <2>1. CASE s = r
    BY <2>1, <1>1, EndedFine DEF Inv, TypeOK
  <2>2. CASE s # r
    <3>1. requests'[s] = requests[s] /\ Fine(requests[s])
      BY <2>2, <1>1 DEF Inv, TypeOK, IInv, RequestsFine, Fine
    <3> QED
      BY <3>1, <1>1, <1>5 DEF Fine, FineAccount, FineSessions, FineRows, FineLocks, Born,
         HasSession, HasRow, Document
  <2> QED BY <2>1, <2>2
<1>4. TablesFresh' /\ SessionsMatchPassword' /\ TemporaryMustChange'
  BY <1>1 DEF Inv, IInv, TablesFresh, Safe, SessionsMatchPassword, TemporaryMustChange,
     Born, HasSession, Document
<1>6. RowsHaveOwners'
  BY <1>1, <1>5 DEF Inv, IInv, Safe, RowsHaveOwners, Born, HasSession, HasRow, Document
<1> QED BY <1>2, <1>3, <1>4, <1>6 DEF Inv, IInv, RequestsFine, Safe, Fine

LEMMA SetAdminStep ==
  ASSUME Inv, NEW u \in Ids, NEW revoke \in BOOLEAN, SetAdmin(u, revoke)
  PROVE  Inv'
<1>1. /\ Born(u) /\ outside < MaxOutside
      /\ accounts' = [accounts EXCEPT ![u] =
           [accounts[u] EXCEPT !.admin = ~revoke, !.must = ~revoke, !.waived = revoke]]
      /\ requests' = [q \in Requests |-> IF requests[q].user = u /\ requests[q].op = "reset"
                                           THEN [requests[q] EXCEPT !.raced = TRUE]
                                           ELSE requests[q]]
      /\ outside' = outside + 1
      /\ UNCHANGED <<sessions, rows, files, up, writes>>
  BY DEF SetAdmin
<1>2. TypeOK'
  <2>1. accounts' \in [Ids -> Account]
    <3>1. \A a \in Account, b, c, d \in BOOLEAN :
            [a EXCEPT !.admin = b, !.must = c, !.waived = d] \in Account
      BY DEF Account
    <3>2. accounts[u] \in Account /\ (~revoke) \in BOOLEAN
      BY DEF Inv, TypeOK
    <3>3. [accounts[u] EXCEPT !.admin = ~revoke, !.must = ~revoke, !.waived = revoke] \in Account
      BY <3>1, <3>2
    <3> QED BY <1>1, <3>3 DEF Inv, TypeOK
  <2>2. requests' \in [Requests -> Request]
    <3>1. \A q \in Request : [q EXCEPT !.raced = TRUE] \in Request
      BY DEF Request
    <3> QED BY <1>1, <3>1 DEF Inv, TypeOK
  <2>3. outside' \in 0..MaxOutside
    BY <1>1, AccountAssumption DEF Inv, TypeOK
  <2> QED BY <1>1, <2>1, <2>2, <2>3 DEF Inv, TypeOK
<1>3. /\ \A v \in Ids : v # u => accounts'[v] = accounts[v]
      /\ accounts'[u].state = accounts[u].state /\ accounts'[u].stamp = accounts[u].stamp
      /\ accounts'[u].given = accounts[u].given /\ accounts'[u].must = ~revoke
      /\ accounts'[u].waived = revoke
  <2>1. accounts[u] \in Account
    BY DEF Inv, TypeOK
  <2> QED BY <1>1, <2>1 DEF Inv, TypeOK, Account
<1>4. TablesFresh'
  BY <1>1, <1>3 DEF Inv, IInv, TablesFresh, Document
<1>5. ASSUME NEW s \in Requests PROVE Fine(requests[s])'
  <2> DEFINE q == requests[s]
  <2>1. q \in Request /\ q.user \in Ids /\ q.token \in Tokens /\ Fine(q)
    BY RequestFields DEF Inv, IInv, RequestsFine, Fine
  <2>2. /\ requests'[s].op = q.op /\ requests'[s].step = q.step /\ requests'[s].user = q.user
        /\ requests'[s].stamp = q.stamp /\ requests'[s].must = q.must
        /\ requests'[s].token = q.token /\ requests'[s].claimed = q.claimed
        /\ requests'[s].swept = q.swept /\ requests'[s].todo = q.todo
        /\ IF q.user = u /\ q.op = "reset" THEN requests'[s].raced = TRUE
                                           ELSE requests'[s].raced = q.raced
    BY <1>1, <2>1 DEF Request
  <2>3. FineAccount(q) /\ FineSessions(q) /\ FineRows(q) /\ FineLocks(q)
        /\ q.swept \subseteq Tokens
    BY <2>1 DEF Fine, Request
  <2> HIDE DEF q
  <2>4. /\ accounts'[q.user].state = accounts[q.user].state
        /\ accounts'[q.user].stamp = accounts[q.user].stamp
        /\ q.user # u => accounts'[q.user].must = accounts[q.user].must
    BY <2>1, <1>3
  <2>5. FineAccount(requests[s])'
    BY <2>2, <2>3, <2>4 DEF FineAccount, Born
  <2>6. FineSessions(requests[s])' /\ FineRows(requests[s])' /\ FineLocks(requests[s])'
    BY <2>2, <2>3, <1>1 DEF FineSessions, FineRows, FineLocks, HasSession, HasRow, Document
  <2> QED BY <2>5, <2>6 DEF Fine
<1>6. SessionsMatchPassword'
  <2>1. \A v \in Ids : accounts'[v].stamp = accounts[v].stamp
    BY <1>3
  <2> QED
    BY <2>1, <1>1, SessionFields DEF Inv, IInv, Safe, SessionsMatchPassword, HasSession
<1>7. TemporaryMustChange'
  BY <1>3 DEF Inv, IInv, Safe, TemporaryMustChange, Born
<1>8. RowsHaveOwners'
  <2>1. \A v \in Ids : accounts'[v].state = accounts[v].state
    BY <1>3
  <2>2. /\ \A d \in RowIds : rows[d].owner \in Ids
        /\ \A x \in Tokens : sessions[x].user \in Ids
    BY DEF Inv, TypeOK, Row, Session
  <2> QED
    BY <2>1, <2>2, <1>1 DEF Inv, IInv, Safe, RowsHaveOwners, Born, HasSession, HasRow, Document
<1> QED
  BY <1>2, <1>4, <1>5, <1>6, <1>7, <1>8 DEF Inv, IInv, RequestsFine, Safe, Fine

\* What was not committed is gone; the bootstrap account must change its password.
LEMMA RestartStep ==
  ASSUME Inv, Restart
  PROVE  Inv'
<1>1. /\ requests' = [r \in Requests |-> Idle] /\ outside < MaxOutside /\ outside' = outside + 1
      /\ UNCHANGED <<sessions, rows, files, writes>> /\ up' \in BOOLEAN
  BY DEF Restart
<1>2. \/ UNCHANGED accounts
      \/ \E u \in Ids : /\ accounts[u].state = "unborn"
                        /\ accounts' = [accounts EXCEPT ![u] =
                             [accounts[u] EXCEPT !.state = "live", !.name = Admin, !.must = TRUE,
                                                 !.admin = TRUE, !.given = "operator"]]
      \/ \E u \in Ids : accounts' = [accounts EXCEPT ![u] =
                          [accounts[u] EXCEPT !.admin = TRUE, !.must = TRUE]]
  <2>1. ASSUME Unborn(accounts) # {}
        PROVE  Next1(accounts) \in Ids /\ accounts[Next1(accounts)].state = "unborn"
    <3>1. DOMAIN accounts = Ids
      BY DEF Inv, TypeOK
    <3> QED BY <2>1, <3>1, NextKey
  <2> DEFINE own == {u \in Ids : Born(u) /\ accounts[u].name = Admin}
  <2>2. \/ UNCHANGED accounts
        \/ /\ Unborn(accounts) # {}
           /\ accounts' = [accounts EXCEPT ![Next1(accounts)] =
                [accounts[Next1(accounts)] EXCEPT !.state = "live", !.name = Admin, !.must = TRUE,
                                                  !.admin = TRUE, !.given = "operator"]]
        \/ \E u \in own : \/ UNCHANGED accounts
                          \/ accounts' = [accounts EXCEPT ![u] =
                               [accounts[u] EXCEPT !.admin = TRUE, !.must = TRUE]]
    BY DEF Restart
  <2>3. \A u \in own : u \in Ids
    OBVIOUS
  <2> HIDE DEF own
  <2> QED BY <2>1, <2>2, <2>3
<1>3. accounts' \in [Ids -> Account]
  <2>1. \A a \in Account : /\ [a EXCEPT !.state = "live", !.name = Admin, !.must = TRUE,
                                        !.admin = TRUE, !.given = "operator"] \in Account
                           /\ [a EXCEPT !.admin = TRUE, !.must = TRUE] \in Account
    BY AccountAssumption DEF Account
  <2>2. accounts \in [Ids -> Account]
    BY DEF Inv, TypeOK
  <2>3. CASE UNCHANGED accounts
    BY <2>2, <2>3
  <2>4. CASE \E u \in Ids : accounts' = [accounts EXCEPT ![u] =
               [accounts[u] EXCEPT !.state = "live", !.name = Admin, !.must = TRUE,
                                   !.admin = TRUE, !.given = "operator"]]
    <3>1. PICK u \in Ids : accounts' = [accounts EXCEPT ![u] =
               [accounts[u] EXCEPT !.state = "live", !.name = Admin, !.must = TRUE,
                                   !.admin = TRUE, !.given = "operator"]]
      BY <2>4
    <3>2. accounts[u] \in Account
      BY <2>2
    <3>3. [accounts[u] EXCEPT !.state = "live", !.name = Admin, !.must = TRUE,
                              !.admin = TRUE, !.given = "operator"] \in Account
      BY <2>1, <3>2
    <3> QED BY <2>2, <3>1, <3>3
  <2>5. CASE \E u \in Ids : accounts' = [accounts EXCEPT ![u] =
               [accounts[u] EXCEPT !.admin = TRUE, !.must = TRUE]]
    <3>1. PICK u \in Ids : accounts' = [accounts EXCEPT ![u] =
               [accounts[u] EXCEPT !.admin = TRUE, !.must = TRUE]]
      BY <2>5
    <3>2. accounts[u] \in Account
      BY <2>2
    <3>3. [accounts[u] EXCEPT !.admin = TRUE, !.must = TRUE] \in Account
      BY <2>1, <3>2
    <3> QED BY <2>2, <3>1, <3>3
  <2> QED BY <1>2, <2>3, <2>4, <2>5
<1>4. TypeOK'
  <2>1. requests' \in [Requests -> Request]
    BY <1>1, IdleType
  <2>2. outside' \in 0..MaxOutside
    BY <1>1, AccountAssumption DEF Inv, TypeOK
  <2> QED BY <1>1, <1>3, <2>1, <2>2 DEF Inv, TypeOK
\* every account keeps its hash, and lives on if it lives
<1>5. ASSUME NEW v \in Ids
      PROVE  /\ accounts'[v].stamp = accounts[v].stamp
             /\ Born(v) => accounts'[v].state = "live"
             /\ accounts'[v].state = "unborn" => accounts[v].state = "unborn"
                                                 /\ accounts'[v].given = accounts[v].given
             /\ \/ accounts'[v] = accounts[v]
                \/ accounts'[v].must
  <2>1. accounts[v] \in Account
    BY DEF Inv, TypeOK
  <2>2. CASE UNCHANGED accounts
    BY <2>2 DEF Born
  <2>3. CASE ~UNCHANGED accounts
    <3>1. \/ accounts'[v] = accounts[v]
          \/ /\ accounts[v].state = "unborn"
             /\ accounts'[v] = [accounts[v] EXCEPT !.state = "live", !.name = Admin, !.must = TRUE,
                                                   !.admin = TRUE, !.given = "operator"]
          \/ accounts'[v] = [accounts[v] EXCEPT !.admin = TRUE, !.must = TRUE]
      BY <1>2, <2>3 DEF Inv, TypeOK
    <3> QED BY <2>1, <3>1 DEF Account, Born
  <2> QED BY <2>2, <2>3
<1>6. TablesFresh'
  BY <1>1, <1>5 DEF Inv, IInv, TablesFresh, Document
<1>7. ASSUME NEW s \in Requests PROVE Fine(requests[s])'
  BY <1>1, EndedFine
<1>8. SessionsMatchPassword'
  <2>1. \A x \in Tokens : sessions[x].user \in Ids
    BY DEF Inv, TypeOK, Session
  <2> QED BY <2>1, <1>1, <1>5 DEF Inv, IInv, Safe, SessionsMatchPassword, HasSession
<1>9. TemporaryMustChange'
  BY <1>5 DEF Inv, IInv, Safe, TemporaryMustChange, Born
<1>10. RowsHaveOwners'
  <2>1. /\ \A d \in RowIds : rows[d].owner \in Ids
        /\ \A x \in Tokens : sessions[x].user \in Ids
    BY DEF Inv, TypeOK, Row, Session
  <2> QED
    BY <2>1, <1>1, <1>5 DEF Inv, IInv, Safe, RowsHaveOwners, Born, HasSession, HasRow, Document
<1> QED
  BY <1>4, <1>6, <1>7, <1>8, <1>9, <1>10 DEF Inv, IInv, RequestsFine, Safe, Fine

-----------------------------------------------------------------------------

LEMMA InitInv ==
  ASSUME Init
  PROVE  Inv
<1>1. TypeOK
  BY Chosen, IdleType, AccountAssumption DEF Init, TypeOK, Account, Session, Row
<1>2. TablesFresh
  BY DEF Init, TablesFresh
<1>3. RequestsFine
  <2>1. ASSUME NEW r \in Requests PROVE requests[r] = Idle
    BY DEF Init
  <2> QED BY <2>1, IdleFine DEF RequestsFine
<1>4. Safe
  BY DEF Init, Safe, SessionsMatchPassword, TemporaryMustChange, RowsHaveOwners,
     HasSession, HasRow, Born
<1> QED BY <1>1, <1>2, <1>3, <1>4 DEF Inv, IInv

LEMMA StepInv ==
  ASSUME Inv, NEW r \in Requests, Step(r)
  PROVE  Inv'
<1>1. ASSUME Fail(r) PROVE Inv'
  BY <1>1, Fails
<1>2. CASE InsertRefused(r) \/ BoundLogin(r) \/ LockRefused(r) \/ BoundWrite(r)
           \/ BoundCreate(r) \/ AbandonCreate(r) \/ ClaimRefused(r) \/ DeleteRefused(r)
           \/ EndDeadlock(r)
  BY <1>1, <1>2 DEF InsertRefused, BoundLogin, LockRefused, BoundWrite, BoundCreate,
     AbandonCreate, ClaimRefused, DeleteRefused, EndDeadlock
<1>3. CASE Insert(r)
  BY <1>3, InsertStep
<1>4. CASE CommitLogin(r)
  BY <1>4, CommitLoginStep
<1>5. CASE LockUser(r)
  BY <1>5, LockUserStep
<1>6. CASE Sweep(r)
  BY <1>6, SweepStep
<1>7. CASE CommitChange(r)
  BY <1>7, CommitChangeStep
<1>8. CASE CommitReset(r)
  BY <1>8, CommitResetStep
<1>9. CASE CommitCreate(r)
  BY <1>9, CommitCreateStep
<1>10. CASE Claim(r)
  BY <1>10, ClaimStep
<1>11. CASE SweepAccount(r)
  BY <1>11, SweepAccountStep
<1>12. CASE CommitDelete(r)
  BY <1>12, CommitDeleteStep
<1>13. CASE RemoveFiles(r)
  BY <1>13, RemoveFilesStep
<1>14. CASE SaveFile(r)
  BY <1>14, SaveFileStep
<1>15. CASE FinishCreate(r)
  BY <1>15, FinishCreateStep
<1>16. CASE RejectCreate(r)
  BY <1>16, RejectCreateStep
<1>17. CASE ListDocuments(r)
  BY <1>17, ListDocumentsStep
<1>18. CASE LockDocument(r)
  BY <1>18, LockDocumentStep
<1> QED
  BY <1>2, <1>3, <1>4, <1>5, <1>6, <1>7, <1>8, <1>9, <1>10, <1>11, <1>12, <1>13, <1>14,
     <1>15, <1>16, <1>17, <1>18 DEF Step

LEMMA SubmitInv ==
  ASSUME Inv, NEW r \in Requests, Submit(r)
  PROVE  Inv'
BY LoginStep, DeleteStep, CreateStep, ChangeStep, ResetStep DEF Submit

LEMMA NextInv ==
  ASSUME Inv, [Next]_vars
  PROVE  Inv'
<1>1. CASE UNCHANGED vars
  BY <1>1 DEF vars, Inv, TypeOK, IInv, TablesFresh, RequestsFine, Fine, FineAccount,
     FineSessions, FineRows, FineLocks, Safe, SessionsMatchPassword, TemporaryMustChange, RowsHaveOwners,
     Born, HasSession, HasRow, Document
<1>2. CASE Next
  BY <1>2, StepInv, SubmitInv, RegisterStep, LogoutStep, WorkStep, SetAdminStep, RestartStep
     DEF Next
<1> QED BY <1>1, <1>2

\* All that is known of every reachable state.
THEOREM Invariance == Spec => []Inv
<1>1. Init => Inv
  BY InitInv
<1>2. Inv /\ [Next]_vars => Inv'
  BY NextInv
<1> QED BY <1>1, <1>2, PTL DEF Spec

\* Every variable keeps its type, whatever the users, tokens, rows and bounds.
THEOREM TypeCorrect == Spec => []TypeOK
<1>1. Inv => TypeOK
  BY DEF Inv
<1> QED BY <1>1, Invariance, PTL

\* A session that exists belongs to the password in force, unless its login
\* overlapped the transaction that changed it.
THEOREM SessionsFollowPassword == Spec => []SessionsMatchPassword
<1>1. Inv => SessionsMatchPassword
  BY DEF Inv, IInv, Safe
<1> QED BY <1>1, Invariance, PTL

\* A password chosen by an operator must be changed, but for the races and the
\* command line.
THEOREM TemporaryIsMarked == Spec => []TemporaryMustChange
<1>1. Inv => TemporaryMustChange
  BY DEF Inv, IInv, Safe
<1> QED BY <1>1, Invariance, PTL

\* The deletion of an account leaves no row and no session behind, and a document that
\* says where its file is has it.
THEOREM OwnersExist == Spec => []RowsHaveOwners
<1>1. Inv => RowsHaveOwners
  BY DEF Inv, IInv, Safe
<1> QED BY <1>1, Invariance, PTL

\* No step takes a row away while it is being worked on, but the upload that stores it.
Spared ==
  \A d \in RowIds : rows[d].state = "active" /\ rows[d].state' = "gone" =>
    \E r \in Requests : requests[r].op = "create" /\ d \in requests[r].todo

LEMMA RowsKept ==
  ASSUME rows' = rows
  PROVE  Spared
BY DEF Spared

LEMMA StepSpares ==
  ASSUME Inv, NEW r \in Requests, Step(r)
  PROVE  Spared
<1>1. CASE CommitCreate(r)
  <2>1. /\ Next1(rows) \in RowIds
        /\ rows' = [rows EXCEPT ![Next1(rows)] =
             [state |-> IF requests[r].kind = "document" THEN "active" ELSE "settled",
              owner |-> requests[r].user, kind |-> requests[r].kind, path |-> FALSE]]
    <3>1. Unborn(rows) # {} /\ DOMAIN rows = RowIds
      BY <1>1 DEF CommitCreate, Inv, TypeOK
    <3> QED BY <1>1, <3>1, NextKey DEF CommitCreate
  <2> QED BY <2>1 DEF Spared, Inv, TypeOK
<1>2. CASE CommitDelete(r)
  <2>1. /\ requests[r] \in Request
        /\ \A d \in requests[r].claimed : rows[d].state # "active"
    BY <1>2 DEF CommitDelete, At, Inv, TypeOK, IInv, RequestsFine, Fine, FineRows
  <2>2. rows' = [d \in RowIds |-> IF d \in requests[r].claimed THEN GoneRow ELSE rows[d]]
    BY <1>2 DEF CommitDelete
  <2> QED BY <2>1, <2>2 DEF Spared
<1>3. CASE InsertRefused(r) \/ BoundLogin(r) \/ LockRefused(r) \/ BoundWrite(r)
           \/ BoundCreate(r) \/ AbandonCreate(r) \/ ClaimRefused(r) \/ DeleteRefused(r)
           \/ EndDeadlock(r)
  BY <1>3, RowsKept DEF InsertRefused, BoundLogin, LockRefused, BoundWrite, BoundCreate,
     AbandonCreate, ClaimRefused, DeleteRefused, EndDeadlock, Fail
<1>4. CASE Insert(r) \/ LockUser(r) \/ Sweep(r) \/ ListDocuments(r) \/ LockDocument(r)
           \/ Claim(r) \/ SweepAccount(r)
  BY <1>4, RowsKept DEF Insert, LockUser, Sweep, ListDocuments, LockDocument, Claim,
     SweepAccount, Advance
<1>5. CASE CommitLogin(r) \/ CommitChange(r) \/ CommitReset(r) \/ SaveFile(r) \/ RemoveFiles(r)
  BY <1>5, RowsKept DEF CommitLogin, CommitChange, CommitReset, SaveFile, RemoveFiles
<1>6. CASE FinishCreate(r)
  <2>1. rows' = [d \in RowIds |-> IF d \in requests[r].todo /\ HasRow(d)
                                    THEN [rows[d] EXCEPT !.path = TRUE] ELSE rows[d]]
    BY <1>6 DEF FinishCreate
  <2> QED BY <2>1 DEF Spared, Inv, TypeOK, Row
<1>7. CASE RejectCreate(r)
  <2>1. /\ rows' = [d \in RowIds |-> IF d \in requests[r].todo THEN GoneRow ELSE rows[d]]
        /\ requests[r].op = "create"
    BY <1>7 DEF RejectCreate, At
  <2> QED BY <2>1 DEF Spared
<1> QED BY <1>1, <1>2, <1>3, <1>4, <1>5, <1>6, <1>7 DEF Step

LEMMA NextSpares ==
  ASSUME Inv, [Next]_vars
  PROVE  Spared
<1>1. CASE UNCHANGED vars
  BY <1>1, RowsKept DEF vars
<1>2. CASE \E r \in Requests : Step(r)
  BY <1>2, StepSpares
<1>3. CASE \E r \in Requests : Submit(r)
  BY <1>3, RowsKept DEF Submit, Login, Delete, Create, Change, Reset, Advance
<1>4. ASSUME NEW d \in RowIds, Work(d) PROVE Spared
  <2>1. \E state \in {"active", "settled"} : rows' = [rows EXCEPT ![d].state = state]
    BY <1>4 DEF Work
  <2> QED BY <2>1 DEF Spared, Inv, TypeOK, Row
<1>5. CASE \/ \E name \in Names : Register(name)
           \/ \E t \in Tokens : Logout(t)
           \/ \E u \in Ids, revoke \in BOOLEAN : SetAdmin(u, revoke)
           \/ Restart
  BY <1>5, RowsKept DEF Register, Logout, SetAdmin, Restart
<1> QED BY <1>1, <1>2, <1>3, <1>4, <1>5 DEF Next

\* The deletion of an account never takes a document away that is being indexed.
THEOREM WorkIsSpared == Spec => DeletionSparesWork
<1>1. Inv /\ [Next]_vars => [Spared]_vars
  BY NextSpares
<1> QED BY <1>1, Invariance, PTL DEF Spec, DeletionSparesWork, Spared

-----------------------------------------------------------------------------
(* Who waits for whom.  Inserts, writers that have swept and deletions that     *)
(* have committed hold locks and wait for nothing, so they are in no circle; a  *)
(* circle of the others would have to go up the documents for ever.             *)

\* A request that waits, and for whom.
LEMMA Waiting ==
  ASSUME NEW r \in Requests, NEW q \in WaitsOn(r)
  PROVE  /\ q \in Requests
         /\ \/ /\ requests[r].op \in {"change", "reset"} /\ requests[r].step = "checked"
               /\ q \in Writers(r, requests[r].user)
            \/ /\ requests[r].op \in {"change", "reset"} /\ requests[r].step = "locked"
               /\ q \in Sweepers(r, Revoked(r))
            \/ /\ requests[r].op = "delete" /\ requests[r].step = "listing"
               /\ \E d \in requests[r].todo : NextDocument(r, d) /\ d \in requests[q].claimed
            \/ /\ requests[r].op = "delete" /\ requests[r].step = "claimed"
               /\ \/ q \in Sweepers(r, SessionsOf(requests[r].user))
                  \/ q \in Claimers(r, Chats(requests[r].user))
            \/ /\ requests[r].op = "delete" /\ requests[r].step = "swept"
               /\ q \in UsersOfRow(r)
            \/ /\ requests[r].op = "create" /\ requests[r].step \in {"committed", "saved"}
               /\ q \in Claimers(r, requests[r].todo)
<1>1. CASE requests[r].op \in {"change", "reset"} /\ requests[r].step = "checked"
  BY <1>1 DEF WaitsOn, Writers
<1>2. CASE requests[r].op \in {"change", "reset"} /\ requests[r].step = "locked"
  BY <1>2 DEF WaitsOn, Sweepers
<1>3. CASE requests[r].op = "delete" /\ requests[r].step = "listing"
  <2>1. q \in UNION {Claimers(r, {d}) : d \in {e \in requests[r].todo : NextDocument(r, e)}}
    BY <1>3 DEF WaitsOn
  <2>2. PICK d \in requests[r].todo : NextDocument(r, d) /\ q \in Claimers(r, {d})
    BY <2>1
  <2> QED BY <1>3, <2>2 DEF Claimers
<1>4. CASE requests[r].op = "delete" /\ requests[r].step = "claimed"
  BY <1>4 DEF WaitsOn, Sweepers, Claimers
<1>5. CASE requests[r].op = "delete" /\ requests[r].step = "swept"
  BY <1>5 DEF WaitsOn, UsersOfRow
<1>6. CASE requests[r].op = "create" /\ requests[r].step \in {"committed", "saved"}
  BY <1>6 DEF WaitsOn, Claimers
<1>7. CASE ~(\/ requests[r].op \in {"change", "reset"} /\ requests[r].step \in {"checked", "locked"}
             \/ requests[r].op = "delete" /\ requests[r].step \in {"listing", "claimed", "swept"}
             \/ requests[r].op = "create" /\ requests[r].step \in {"committed", "saved"})
  BY <1>7 DEF WaitsOn
<1> QED BY <1>1, <1>2, <1>3, <1>4, <1>5, <1>6, <1>7

\* A finite set of documents has a greatest one: the one with the fewest above it.
LEMMA Greatest ==
  ASSUME NEW W, W \subseteq RowIds, W # {}
  PROVE  \E d \in W : \A e \in W : ~(d < e)
<1> DEFINE Above(d) == {e \in RowIds : d < e}
           Counts == {Cardinality(Above(d)) : d \in W}
<1>1. RowIds \subseteq Nat /\ IsFiniteSet(RowIds)
  BY AccountAssumption
<1>2. ASSUME NEW d \in RowIds
      PROVE  IsFiniteSet(Above(d)) /\ Cardinality(Above(d)) \in Nat
  <2>1. IsFiniteSet(Above(d))
    BY <1>1, FS_Subset
  <2> QED BY <2>1, FS_CardinalityType
<1>3. Counts \subseteq Nat /\ Counts # {}
  BY <1>2
<1>4. PICK n \in Counts : \A m \in Counts : ~(<<m, n>> \in OpToRel(<, Nat))
  BY <1>3, NatLessThanWellFounded, WFMin
<1>5. PICK d \in W : n = Cardinality(Above(d))
  BY <1>4
<1>6. ASSUME NEW e \in W, d < e PROVE FALSE
  <2>0. e \in RowIds /\ d \in RowIds /\ \A x \in RowIds : x \in Nat
    BY <1>1
  <2>1. Above(e) \subseteq Above(d) /\ e \in Above(d) /\ e \notin Above(e)
    <3>1. ASSUME NEW x \in Above(e) PROVE x \in Above(d)
      <4>1. x \in RowIds /\ e < x
        OBVIOUS
      <4> QED BY <4>1, <2>0, <1>6
    <3> QED BY <3>1, <2>0, <1>6
  <2>2. /\ Cardinality(Above(e)) <= Cardinality(Above(d))
        /\ Cardinality(Above(e)) # Cardinality(Above(d))
    BY <2>1, <1>2, FS_Subset
  <2>3. Cardinality(Above(e)) \in Counts /\ Cardinality(Above(e)) \in Nat /\ n \in Nat
    BY <1>2, <1>3
  <2>4. Cardinality(Above(e)) < n
    BY <2>2, <2>3, <1>5, <1>2
  <2>5. <<Cardinality(Above(e)), n>> \in OpToRel(<, Nat)
    BY <2>3, <2>4 DEF OpToRel
  <2> QED BY <2>3, <2>5, <1>4
<1> QED BY <1>5, <1>6

LEMMA CrossOnce ==
  ASSUME Inv
  PROVE  LocksCrossOnce
<1> SUFFICES ASSUME NEW S \in SUBSET Requests, S # {}, \A r \in S : WaitsOn(r) \cap S # {},
                    \A q, d \in S : ~Deadlocked(q, d)
             PROVE  FALSE
  BY DEF LocksCrossOnce
<1>1. ASSUME NEW r \in S
      PROVE  /\ r \in Requests /\ requests[r] \in Request /\ Fine(requests[r])
             /\ \E q \in S : q \in WaitsOn(r)
  BY RequestFields DEF Inv, IInv, RequestsFine
\* who of S may wait at all
<1>2. ASSUME NEW r \in S
      PROVE  \/ requests[r].op \in {"change", "reset"} /\ requests[r].step \in {"checked", "locked"}
             \/ requests[r].op = "delete" /\ requests[r].step \in {"listing", "claimed", "swept"}
             \/ requests[r].op = "create" /\ requests[r].step \in {"committed", "saved"}
  BY <1>1, Waiting
\* a writer that waits for sessions waits for a deletion that has swept
<1>3. ASSUME NEW r \in S PROVE requests[r].step # "locked"
  <2>1. SUFFICES ASSUME requests[r].step = "locked" PROVE FALSE
    OBVIOUS
  <2>2. PICK q \in S : q \in WaitsOn(r)
    BY <1>1
  <2>3. q \in Sweepers(r, Revoked(r)) /\ requests[r].op \in {"change", "reset"}
    BY <2>1, <2>2, <1>1, Waiting
  <2>4. PICK t \in requests[q].swept : t \in Revoked(r)
    BY <2>3 DEF Sweepers
  <2>5. requests[q].step = "swept" /\ requests[q].op = "delete"
    BY <2>4, <1>1, <1>2 DEF Fine, FineLocks
  <2>6. HasSession(t) /\ sessions[t].user = requests[r].user
    BY <2>4 DEF Revoked, SessionsOf
  <2>7. sessions[t].user = requests[q].user
    BY <2>4, <2>6, <1>1 DEF Fine, FineLocks
  <2>8. Deadlocked(r, q)
    BY <2>1, <2>3, <2>4, <2>5, <2>6, <2>7 DEF Deadlocked, At
  <2> QED BY <2>8
\* so no writer and no insert is in S, and nobody waits for one
<1>4. ASSUME NEW q \in S, NEW u PROVE ~Writes(q, u) /\ ~Shares(q, u)
  BY <1>2, <1>3 DEF Writes, Shares
<1>5. ASSUME NEW r \in S PROVE requests[r].step # "checked"
  <2>1. SUFFICES ASSUME requests[r].step = "checked" PROVE FALSE
    OBVIOUS
  <2>2. PICK q \in S : q \in WaitsOn(r)
    BY <1>1
  <2>3. q \in Writers(r, requests[r].user)
    BY <2>1, <2>2, <1>1, <1>2, Waiting
  <2> QED BY <2>3, <1>4 DEF Writers
<1>6. ASSUME NEW r \in S PROVE requests[r].step # "swept"
  <2>1. SUFFICES ASSUME requests[r].step = "swept" PROVE FALSE
    OBVIOUS
  <2>2. PICK q \in S : q \in WaitsOn(r)
    BY <1>1
  <2>3. q \in UsersOfRow(r)
    BY <2>1, <2>2, <1>1, <1>2, Waiting
  <2> QED BY <2>3, <1>4 DEF UsersOfRow
\* what is claimed in S is documents
<1>7. ASSUME NEW r \in S PROVE requests[r].step # "claimed"
  <2>1. SUFFICES ASSUME requests[r].step = "claimed" PROVE FALSE
    OBVIOUS
  <2>2. PICK q \in S : q \in WaitsOn(r)
    BY <1>1
  <2>3. \/ q \in Sweepers(r, SessionsOf(requests[r].user))
        \/ q \in Claimers(r, Chats(requests[r].user))
    BY <2>1, <2>2, <1>1, <1>2, Waiting
  <2>4. requests[q].swept = {}
    BY <1>1, <1>6 DEF Fine, FineLocks
  <2>5. PICK d \in requests[q].claimed : d \in Chats(requests[r].user)
    BY <2>3, <2>4 DEF Sweepers, Claimers
  <2>6. requests[q].step \in {"listing", "claimed"}
    BY <2>5, <1>1, <1>2, <1>3, <1>5, <1>6 DEF Fine, FineLocks
  <2>7. HasRow(d) /\ ~Document(d)
    BY <2>5 DEF Chats, RowsOf
  <2> QED BY <2>5, <2>6, <2>7, <1>1 DEF Fine, FineLocks
<1>8. ASSUME NEW r \in S
      PROVE  \/ requests[r].op = "delete" /\ requests[r].step = "listing"
             \/ requests[r].op = "create" /\ requests[r].step \in {"committed", "saved"}
  BY <1>2, <1>3, <1>5, <1>6, <1>7
<1>9. ASSUME NEW q \in S, requests[q].claimed # {}
      PROVE  requests[q].op = "delete" /\ requests[q].step = "listing"
  BY <1>1, <1>8, <1>9 DEF Fine, FineLocks
\* the documents that the deletions in S wait for
<1> DEFINE W == {d \in RowIds : \E r \in S : /\ requests[r].op = "delete"
                                             /\ requests[r].step = "listing"
                                             /\ d \in requests[r].todo /\ NextDocument(r, d)}
\* a deletion waits for a document of its own
<1>10. ASSUME NEW r \in S, requests[r].op = "delete", requests[r].step = "listing"
       PROVE  \E d \in W, q \in S : /\ d \in requests[r].todo /\ NextDocument(r, d)
                                    /\ d \in requests[q].claimed
  <2>1. PICK q \in S : q \in WaitsOn(r)
    BY <1>1
  <2>2. PICK d \in requests[r].todo : NextDocument(r, d) /\ d \in requests[q].claimed
    BY <2>1, <1>1, <1>10, Waiting
  <2>3. d \in RowIds
    BY <1>1 DEF Request
  <2> QED BY <1>10, <2>1, <2>2, <2>3
<1>11. W # {}
  <2>1. PICK r \in S : TRUE
    OBVIOUS
  <2>2. CASE requests[r].op = "delete" /\ requests[r].step = "listing"
    BY <2>2, <1>10
  <2>3. CASE requests[r].op = "create" /\ requests[r].step \in {"committed", "saved"}
    <3>1. PICK q \in S : q \in WaitsOn(r)
      BY <1>1
    <3>2. q \in Claimers(r, requests[r].todo)
      BY <3>1, <2>3, <1>1, Waiting
    <3>3. requests[q].claimed # {}
      BY <3>2 DEF Claimers
    <3> QED BY <3>1, <3>3, <1>9, <1>10
  <2> QED BY <2>2, <2>3, <1>8
<1>12. PICK d \in W : \A e \in W : ~(d < e)
  BY <1>11, Greatest
\* its owner waits for a greater one
<1>13. PICK r \in S : /\ requests[r].op = "delete" /\ requests[r].step = "listing"
                      /\ d \in requests[r].todo /\ NextDocument(r, d)
  OBVIOUS
<1>14. PICK q \in S : d \in requests[q].claimed
  <2>1. PICK c \in W, q \in S : /\ c \in requests[r].todo /\ NextDocument(r, c)
                                /\ c \in requests[q].claimed
    BY <1>10, <1>13
  <2>2. c \in Nat /\ d \in Nat
    BY AccountAssumption
  <2>3. c = d
    BY <2>1, <2>2, <1>13 DEF NextDocument
  <2> QED BY <2>1, <2>3
<1>15. requests[q].op = "delete" /\ requests[q].step = "listing"
  BY <1>9, <1>14
<1>16. PICK e \in W : e \in requests[q].todo
  BY <1>10, <1>15
<1>17. d < e
  BY <1>1, <1>14, <1>15, <1>16 DEF Fine, FineLocks
<1> QED BY <1>12, <1>16, <1>17

\* Row locks are taken in orders that cross in one place only, whatever the number of
\* requests and documents: where no pair of a password writer and a deletion of one
\* account waits for each other, nobody waits in a circle.
THEOREM LocksAreOrdered == Spec => []LocksCrossOnce
<1>1. Inv => LocksCrossOnce
  BY CrossOnce
<1> QED BY <1>1, Invariance, PTL
=============================================================================
