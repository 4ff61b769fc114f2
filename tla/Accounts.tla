------------------------------ MODULE Accounts -------------------------------
(* User accounts and login sessions: services/auth_service.py,                *)
(* repositories/user_repository.py, api/auth.py, api/admin_users.py,          *)
(* cli/set_admin.py and the dependencies that admit a request.                *)
(*                                                                            *)
(* PostgreSQL runs the transactions at READ COMMITTED.  A request reads its   *)
(* user once, without a lock, verifies a password against what it read, and   *)
(* writes later; what it has written becomes visible at its commit.  The step *)
(* a request has reached says which row locks it holds.                       *)
(*                                                                            *)
(* Requests with a wrong password, a password that fails the policy or is the *)
(* one in force, or a wrong confirmation end without a change and are left    *)
(* out, and so are requests with a token that has expired; the password in    *)
(* force is known by the number of its hash.                                  *)
EXTENDS Naturals, FiniteSets

CONSTANTS
  Requests,      \* places for requests in flight
  Ids,           \* primary keys of users
  Names,         \* user names
  Admin,         \* BOOTSTRAP_ADMIN_USERNAME
  Tokens,        \* session tokens
  RowIds,        \* documents and chat sessions
  MaxWrites,     \* bound: password hashes stored after start-up
  MaxOutside     \* bound: runs of set_admin and restarts of the API

ASSUME AccountAssumption ==
  /\ Admin \in Names /\ Ids # {} /\ Tokens # {}
  /\ RowIds \subseteq Nat /\ IsFiniteSet(RowIds)
  /\ MaxWrites \in Nat /\ MaxOutside \in Nat

VARIABLES
  accounts,   \* table users
  sessions,   \* table auth_sessions
  rows,       \* tables documents and chat_sessions: what users own
  files,      \* documents whose file is in the upload directory
  requests,   \* requests in flight
  up,         \* the API has started
  writes, outside   \* counters of the bounds

vars == <<accounts, sessions, rows, files, requests, up, writes, outside>>

------------------------------------------------------------------------------
\* A row of users.  stamp, given and waived are history: the number of the stored
\* hash, who chose the password, and whether the duty to change it was lost in a
\* race or lifted by the command line.
Account == [state: {"unborn", "live", "gone"}, name: Names,
            must: BOOLEAN, admin: BOOLEAN,
            stamp: Nat, given: {"user", "operator"}, waived: BOOLEAN]

\* A row of auth_sessions.  stamp and raced are history: the hash the login was
\* verified against, and whether the login overlapped a change of the password.
Session == [state: {"unborn", "live", "gone"}, user: Ids,
            stamp: Nat, raced: BOOLEAN]

\* A document that waits for its indexing or is being indexed is active; chats are
\* always settled.  path: file_path is set.
Row == [state: {"unborn", "active", "settled", "gone"}, owner: Ids,
        kind: {"document", "chat"}, path: BOOLEAN]

\* What a request has read (user, must, stamp, token), what it is to insert (kind),
\* the rows it has still to lock or, in an upload, to complete (todo), what it has
\* locked or is to clean up (claimed, swept); raced is history: another transaction
\* wrote the same account while this login or reset was in flight.
Request == [op: {"none", "login", "create", "change", "reset", "delete"},
            step: {"idle", "checked", "inserted", "committed", "saved", "locked",
                   "listing", "claimed", "swept", "removed"},
            user: Ids, stamp: Nat, must: BOOLEAN, token: Tokens,
            kind: {"document", "chat"}, todo: SUBSET RowIds,
            claimed: SUBSET RowIds, swept: SUBSET Tokens, raced: BOOLEAN]

AnId == CHOOSE u \in Ids : TRUE
AToken == CHOOSE t \in Tokens : TRUE

Idle == [op |-> "none", step |-> "idle", user |-> AnId, stamp |-> 0, must |-> FALSE,
         token |-> AToken, kind |-> "chat", todo |-> {}, claimed |-> {}, swept |-> {},
         raced |-> FALSE]

GoneAccount == [state |-> "gone", name |-> Admin, must |-> FALSE, admin |-> FALSE,
                stamp |-> 0, given |-> "user", waived |-> FALSE]
GoneSession == [state |-> "gone", user |-> AnId, stamp |-> 0, raced |-> FALSE]
GoneRow == [state |-> "gone", owner |-> AnId, kind |-> "chat", path |-> FALSE]

Born(u) == accounts[u].state = "live"
Unborn(table) == {x \in DOMAIN table : table[x].state = "unborn"}
Next1(table) == CHOOSE x \in Unborn(table) : TRUE
HasRow(d) == rows[d].state \in {"active", "settled"}
HasSession(t) == sessions[t].state = "live"
SessionsOf(u) == {t \in Tokens : HasSession(t) /\ sessions[t].user = u}
RowsOf(u) == {d \in RowIds : HasRow(d) /\ rows[d].owner = u}
Document(d) == rows[d].kind = "document"

At(r, op, step) == requests[r].op = op /\ requests[r].step = step

(* Row locks.                                                                 *)
\* r has updated the row of u and not committed: FOR NO KEY UPDATE.
Writes(r, u) == requests[r].user = u /\ requests[r].step \in {"locked", "swept"}
                /\ requests[r].op \in {"change", "reset"}
\* r has inserted a row that references u: FOR KEY SHARE, which updates of u pass.
Shares(r, u) == requests[r].user = u /\ requests[r].step = "inserted"
\* Who has written u, deleted one of these sessions, or locked one of these rows,
\* and not committed.
Writers(r, u) == {q \in Requests \ {r} : Writes(q, u)}
Sweepers(r, S) == {q \in Requests \ {r} : requests[q].swept \cap S # {}}
Claimers(r, D) == {q \in Requests \ {r} : requests[q].claimed \cap D # {}}

\* Variant: the documents are listed without FOR UPDATE.
LockedNever(d) == FALSE
Locked(d) == \E q \in Requests : d \in requests[q].claimed

\* An exception: get_db closes the session, which rolls back and gives locks back.
Fail(r) == /\ requests' = [requests EXCEPT ![r] = Idle]
           /\ UNCHANGED <<accounts, sessions, rows, files, up, writes, outside>>

\* r goes on to a step, after reading or after statements that nobody sees yet.
Advance(r, request) ==
  /\ requests' = [requests EXCEPT ![r] = request]
  /\ UNCHANGED <<accounts, sessions, rows, files, up, writes, outside>>

\* r ends, and the requests that were in flight for u have been raced.
EndRacing(r, u) ==
  requests' = [q \in Requests |->
                 IF q = r THEN Idle
                 ELSE IF requests[q].user = u /\ requests[q].op \in {"login", "reset"}
                        THEN [requests[q] EXCEPT !.raced = TRUE]
                        ELSE requests[q]]

(* Who may ask: get_authenticated_user, get_current_user, get_current_admin.    *)
Authenticated(t) == HasSession(t) /\ Born(sessions[t].user)
Current(t) == Authenticated(t) /\ ~accounts[sessions[t].user].must
CurrentAdmin(t) == Current(t) /\ accounts[sessions[t].user].admin

Starts(r) == up /\ requests[r].step = "idle"

------------------------------------------------------------------------------
(* register: one transaction that reads nothing; the unique name is the guard.  *)
Register(name) ==
  /\ up /\ Unborn(accounts) # {} /\ Unborn(sessions) # {}
  /\ \A u \in Ids : Born(u) => accounts[u].name # name
  /\ LET u == Next1(accounts) IN
     /\ accounts' = [accounts EXCEPT ![u] =
          [@ EXCEPT !.state = "live", !.name = name]]
     /\ sessions' = [sessions EXCEPT ![Next1(sessions)] =
          [@ EXCEPT !.state = "live", !.user = u]]
  /\ UNCHANGED <<rows, files, requests, up, writes, outside>>

(* login.  The password is verified against the row as it was read.             *)
Login(r, u) ==
  /\ Starts(r) /\ Born(u) /\ Unborn(sessions) # {}
  /\ Advance(r, [Idle EXCEPT !.op = "login", !.step = "checked", !.user = u,
                             !.stamp = accounts[u].stamp])

\* Inserting the session or the row refers to the user: the foreign key locks it.
Insert(r) ==
  /\ \/ At(r, "login", "checked")
     \/ At(r, "create", "checked")
  /\ Born(requests[r].user)
  /\ Advance(r, [requests[r] EXCEPT !.step = "inserted"])

InsertRefused(r) ==
  /\ \/ At(r, "login", "checked")
     \/ At(r, "create", "checked")
  /\ ~Born(requests[r].user)
  /\ Fail(r)

\* No token, or no row, left in the instance: the request is not followed further.
CommitLogin(r) ==
  /\ At(r, "login", "inserted") /\ Unborn(sessions) # {}
  /\ sessions' = [sessions EXCEPT ![Next1(sessions)] =
       [state |-> "live", user |-> requests[r].user, stamp |-> requests[r].stamp,
        raced |-> requests[r].raced \/ \E q \in Requests : Writes(q, requests[r].user)]]
  /\ requests' = [requests EXCEPT ![r] = Idle]
  /\ UNCHANGED <<accounts, rows, files, up, writes, outside>>

BoundLogin(r) == At(r, "login", "inserted") /\ Unborn(sessions) = {} /\ Fail(r)

(* logout deletes the row of any token; it waits for a transaction that has     *)
(* deleted it, whose commit leaves it nothing to do.                            *)
Logout(t) ==
  /\ up /\ HasSession(t)
  /\ \A q \in Requests : t \notin requests[q].swept
  /\ sessions' = [sessions EXCEPT ![t] = GoneSession]
  /\ UNCHANGED <<accounts, rows, files, requests, up, writes, outside>>

------------------------------------------------------------------------------
(* change_password.  The UPDATE names the columns whose value differs from what *)
(* was loaded: the duty to change is written only if it was seen.               *)
Change(r, t) ==
  /\ Starts(r) /\ Authenticated(t) /\ writes < MaxWrites
  /\ LET u == sessions[t].user IN
     Advance(r, [Idle EXCEPT !.op = "change", !.step = "checked", !.user = u,
                             !.must = accounts[u].must, !.token = t])

(* reset_password: an administrator, for another user.                          *)
Reset(r, t, u) ==
  /\ Starts(r) /\ CurrentAdmin(t) /\ writes < MaxWrites
  /\ Born(u) /\ u # sessions[t].user
  /\ Advance(r, [Idle EXCEPT !.op = "reset", !.step = "checked", !.user = u,
                             !.must = accounts[u].must])

\* UPDATE users: waits for another writer, then writes over what that one wrote.
LockUser(r) ==
  /\ At(r, "change", "checked") \/ At(r, "reset", "checked")
  /\ Born(requests[r].user) /\ Writers(r, requests[r].user) = {}
  /\ Advance(r, [requests[r] EXCEPT !.step = "locked"])

\* The row is gone: the UPDATE matches nothing, and the ORM raises.
LockRefused(r) ==
  /\ At(r, "change", "checked") \/ At(r, "reset", "checked")
  /\ ~Born(requests[r].user)
  /\ Fail(r)

\* Variant: a reset, too, leaves the sessions alone.
RevokedByChange(r) == IF requests[r].op = "change"
                        THEN SessionsOf(requests[r].user) \ {requests[r].token} ELSE {}

\* delete_other_auth_sessions, delete_auth_sessions_for_user: the sessions the
\* statement sees, those committed by now.
Revoked(r) == SessionsOf(requests[r].user)
              \ (IF requests[r].op = "change" THEN {requests[r].token} ELSE {})

Sweep(r) ==
  /\ At(r, "change", "locked") \/ At(r, "reset", "locked")
  /\ Sweepers(r, Revoked(r)) = {}
  /\ Advance(r, [requests[r] EXCEPT !.step = "swept", !.swept = Revoked(r)])

WithoutSessions(S) ==
  [t \in Tokens |-> IF t \in S THEN GoneSession ELSE sessions[t]]

CommitChange(r) ==
  /\ At(r, "change", "swept") /\ writes < MaxWrites
  /\ LET u == requests[r].user IN
     /\ accounts' = [accounts EXCEPT ![u] =
          [@ EXCEPT !.stamp = writes + 1, !.given = "user",
                    !.must = accounts[u].must /\ ~requests[r].must, !.waived = FALSE]]
     \* The session that changed the password goes on with the new one.
     /\ sessions' = [t \in Tokens |->
          IF t \in requests[r].swept THEN GoneSession
          ELSE IF t = requests[r].token /\ HasSession(t)
                 THEN [sessions[t] EXCEPT !.stamp = writes + 1]
                 ELSE sessions[t]]
     /\ EndRacing(r, u)
  /\ writes' = writes + 1
  /\ UNCHANGED <<rows, files, up, outside>>

\* Variant: the new password is not marked temporary.
MustAfterResetUnset(r, must) == must

\* The duty to change is written unless it was seen to be set already.
MustAfterReset(r, must) == must \/ ~requests[r].must

CommitReset(r) ==
  /\ At(r, "reset", "swept") /\ writes < MaxWrites
  /\ LET u == requests[r].user IN
     /\ accounts' = [accounts EXCEPT ![u] =
          [@ EXCEPT !.stamp = writes + 1, !.given = "operator",
                    !.must = MustAfterReset(r, accounts[u].must), !.waived = requests[r].raced]]
     /\ sessions' = WithoutSessions(requests[r].swept)
     /\ EndRacing(r, u)
  /\ writes' = writes + 1
  /\ UNCHANGED <<rows, files, up, outside>>

\* No stamp left in the instance: the request is not followed further.
BoundWrite(r) ==
  /\ At(r, "change", "swept") \/ At(r, "reset", "swept")
  /\ writes = MaxWrites
  /\ Fail(r)

------------------------------------------------------------------------------
(* Uploads and new chats: rows that refer to their owner.                       *)
Create(r, t, kind) ==
  /\ Starts(r) /\ Current(t) /\ Unborn(rows) # {}
  /\ Advance(r, [Idle EXCEPT !.op = "create", !.step = "checked",
                             !.user = sessions[t].user, !.kind = kind])

\* The row is committed.  A chat is complete; a document has no file yet.
CommitCreate(r) ==
  /\ At(r, "create", "inserted") /\ Unborn(rows) # {}
  /\ LET d == Next1(rows)
         document == requests[r].kind = "document" IN
     /\ rows' = [rows EXCEPT ![d] =
          [state |-> IF document THEN "active" ELSE "settled",
           owner |-> requests[r].user, kind |-> requests[r].kind, path |-> FALSE]]
     /\ requests' = [requests EXCEPT ![r] =
          IF document THEN [@ EXCEPT !.step = "committed", !.todo = {d}] ELSE Idle]
  /\ UNCHANGED <<accounts, sessions, files, up, writes, outside>>

BoundCreate(r) == At(r, "create", "inserted") /\ Unborn(rows) = {} /\ Fail(r)

\* The file is stored in a directory of its own, whatever became of the row.
SaveFile(r) ==
  /\ At(r, "create", "committed")
  /\ files' = files \cup requests[r].todo
  /\ requests' = [requests EXCEPT ![r].step = "saved"]
  /\ UNCHANGED <<accounts, sessions, rows, up, writes, outside>>

\* file_path is stored; the UPDATE of a row that is gone fails, and its file stays.
FinishCreate(r) ==
  /\ At(r, "create", "saved") /\ Claimers(r, requests[r].todo) = {}
  /\ rows' = [d \in RowIds |-> IF d \in requests[r].todo /\ HasRow(d)
                                 THEN [rows[d] EXCEPT !.path = TRUE] ELSE rows[d]]
  /\ requests' = [requests EXCEPT ![r] = Idle]
  /\ UNCHANGED <<accounts, sessions, files, up, writes, outside>>

\* The upload is refused: its row goes, and then its file.
RejectCreate(r) ==
  /\ At(r, "create", "committed") \/ At(r, "create", "saved")
  /\ Claimers(r, requests[r].todo) = {}
  /\ rows' = [d \in RowIds |-> IF d \in requests[r].todo THEN GoneRow ELSE rows[d]]
  /\ requests' = [requests EXCEPT ![r] =
       [@ EXCEPT !.step = "removed", !.todo = {}, !.claimed = requests[r].todo]]
  /\ UNCHANGED <<accounts, sessions, files, up, writes, outside>>

\* A database error after the first commit: the row stays as it is.
AbandonCreate(r) ==
  /\ At(r, "create", "committed") \/ At(r, "create", "saved")
  /\ Fail(r)

(* A worker takes a document up again (a rebuild) or is done with it: module    *)
(* Indexing.  Its UPDATE waits for a deletion that has locked the document.  A  *)
(* rebuild may meet a row whose upload has not finished, and a restart settles  *)
(* one whose upload is lost.                                                    *)
Work(d) ==
  /\ up /\ HasRow(d) /\ Document(d)
  /\ ~Locked(d)
  /\ rows' = [rows EXCEPT ![d].state = IF @ = "active" THEN "settled" ELSE "active"]
  /\ UNCHANGED <<accounts, sessions, files, requests, up, writes, outside>>

(* delete_account.                                                              *)
Delete(r, t) ==
  /\ Starts(r) /\ Current(t)
  /\ Advance(r, [Idle EXCEPT !.op = "delete", !.step = "checked",
                             !.user = sessions[t].user])

Documents(u) == {d \in RowsOf(u) : Document(d)}
Chats(u) == {d \in RowsOf(u) : ~Document(d)}

\* Variant: the list has no ORDER BY.
AnyDocument(r, d) == d \in requests[r].todo

\* Documents are listed, and locked, in the order of their ids.
NextDocument(r, d) ==
  d \in requests[r].todo /\ \A e \in requests[r].todo : d <= e

\* list_owned_documents_for_update: those committed by now, locked one by one; one
\* that is gone by the time its lock is free is left out.
ListDocuments(r) ==
  /\ At(r, "delete", "checked")
  /\ Advance(r, [requests[r] EXCEPT !.step = "listing",
                                    !.todo = Documents(requests[r].user)])

LockDocument(r) ==
  /\ At(r, "delete", "listing")
  /\ \E d \in requests[r].todo :
       /\ NextDocument(r, d) /\ Claimers(r, {d}) = {}
       /\ Advance(r, [requests[r] EXCEPT !.todo = @ \ {d},
                                         !.claimed = @ \cup {e \in {d} : HasRow(e)}])

\* All are locked, and none of them is being indexed.
Claim(r) ==
  /\ At(r, "delete", "listing") /\ requests[r].todo = {}
  /\ \A d \in requests[r].claimed : rows[d].state # "active"
  /\ Advance(r, [requests[r] EXCEPT !.step = "claimed"])

ClaimRefused(r) ==
  /\ At(r, "delete", "listing") /\ requests[r].todo = {}
  /\ \E d \in requests[r].claimed : rows[d].state = "active"
  /\ Fail(r)

\* delete_user_and_owned_data, up to the row of the user: the chats and sessions
\* are those committed by now.
SweepAccount(r) ==
  LET u == requests[r].user IN
  /\ At(r, "delete", "claimed")
  /\ Sweepers(r, SessionsOf(u)) = {} /\ Claimers(r, Chats(u)) = {}
  /\ Advance(r, [requests[r] EXCEPT
       !.step = "swept", !.swept = SessionsOf(u), !.claimed = @ \cup Chats(u)])

\* Who keeps the row of the user from being deleted.
UsersOfRow(r) == {q \in Requests \ {r} : Writes(q, requests[r].user) \/ Shares(q, requests[r].user)}

\* Variant: no foreign key from documents and chats to their owner.
RemainsNothing(r) == {}

\* What the user owns beside what this transaction has deleted.
Remains(r) == RowsOf(requests[r].user) \ requests[r].claimed

\* db.delete(user): rows committed since the sweep would lose their owner, and the
\* foreign keys refuse that; their sessions go along (ON DELETE CASCADE).
CommitDelete(r) ==
  LET u == requests[r].user IN
  /\ At(r, "delete", "swept") /\ UsersOfRow(r) = {} /\ Remains(r) = {}
  /\ accounts' = [accounts EXCEPT ![u] = GoneAccount]
  /\ rows' = [d \in RowIds |-> IF d \in requests[r].claimed
                                 THEN GoneRow ELSE rows[d]]
  /\ sessions' = WithoutSessions(SessionsOf(u))
  /\ requests' = [requests EXCEPT ![r] = [@ EXCEPT !.step = "removed", !.swept = {}]]
  /\ UNCHANGED <<files, up, writes, outside>>

DeleteRefused(r) ==
  /\ At(r, "delete", "swept") /\ UsersOfRow(r) = {} /\ Remains(r) # {}
  /\ Fail(r)

\* After the commit, one document at a time; an OSError is logged.
RemoveFiles(r) ==
  /\ At(r, "delete", "removed") \/ At(r, "create", "removed")
  /\ \E kept \in SUBSET requests[r].claimed : files' = files \ (requests[r].claimed \ kept)
  /\ requests' = [requests EXCEPT ![r] = Idle]
  /\ UNCHANGED <<accounts, sessions, rows, up, writes, outside>>

\* A password writer and a deletion of one account lock its user and its sessions
\* in opposite orders; PostgreSQL ends either of the two.
Deadlocked(q, d) ==
  /\ At(q, "change", "locked") \/ At(q, "reset", "locked")
  /\ At(d, "delete", "swept")
  /\ requests[q].user = requests[d].user
  /\ requests[d].swept \cap Revoked(q) # {}

EndDeadlock(r) ==
  /\ \E q \in Requests : Deadlocked(r, q) \/ Deadlocked(q, r)
  /\ Fail(r)

\* The requests whose commit or rollback the next statement of r waits for.
WaitsOn(r) ==
  LET u == requests[r].user IN
  CASE requests[r].op \in {"change", "reset"} /\ requests[r].step = "checked" ->
         IF Born(u) THEN Writers(r, u) ELSE {}
    [] requests[r].op \in {"change", "reset"} /\ requests[r].step = "locked" ->
         Sweepers(r, Revoked(r))
    [] requests[r].op = "delete" /\ requests[r].step = "listing" ->
         UNION {Claimers(r, {d}) : d \in {e \in requests[r].todo : NextDocument(r, e)}}
    [] requests[r].op = "delete" /\ requests[r].step = "claimed" ->
         Sweepers(r, SessionsOf(u)) \cup Claimers(r, Chats(u))
    [] requests[r].op = "delete" /\ requests[r].step = "swept" -> UsersOfRow(r)
    [] requests[r].op = "create" /\ requests[r].step \in {"committed", "saved"} ->
         Claimers(r, requests[r].todo)
    [] OTHER -> {}

------------------------------------------------------------------------------
(* set_admin, a process of its own.                                             *)
SetAdmin(u, revoke) ==
  /\ Born(u) /\ outside < MaxOutside /\ \A q \in Requests : ~Writes(q, u)
  /\ accounts' = [accounts EXCEPT ![u] =
       [@ EXCEPT !.admin = ~revoke, !.must = ~revoke, !.waived = revoke]]
  /\ requests' = [q \in Requests |-> IF requests[q].user = u /\ requests[q].op = "reset"
                                       THEN [requests[q] EXCEPT !.raced = TRUE]
                                       ELSE requests[q]]
  /\ outside' = outside + 1
  /\ UNCHANGED <<sessions, rows, files, up, writes>>

(* The API ends and starts again: what was not committed is rolled back, and    *)
(* ensure_bootstrap_admin creates, promotes or leaves alone its account, does   *)
(* nothing where none is configured, or refuses to start.                       *)
Restart ==
  /\ outside < MaxOutside
  /\ requests' = [r \in Requests |-> Idle]
  /\ outside' = outside + 1
  /\ LET own == {u \in Ids : Born(u) /\ accounts[u].name = Admin} IN
     \* none is configured, or it is an administrator already
     \/ up' = TRUE /\ UNCHANGED accounts
     \/ /\ own = {} /\ Unborn(accounts) # {} /\ up' = TRUE
        /\ accounts' = [accounts EXCEPT ![Next1(accounts)] =
             [@ EXCEPT !.state = "live", !.name = Admin, !.must = TRUE,
                       !.admin = TRUE, !.given = "operator"]]
     \/ \E u \in own :
          \* the password that is configured matches, or it does not
          \/ /\ ~accounts[u].admin /\ up' = TRUE
             /\ accounts' = [accounts EXCEPT ![u] =
                  [@ EXCEPT !.admin = TRUE, !.must = TRUE]]
          \/ ~accounts[u].admin /\ up' = FALSE /\ UNCHANGED accounts
  /\ UNCHANGED <<sessions, rows, files, writes>>

------------------------------------------------------------------------------
\* The API has started for the first time, on an empty database.
Init ==
  /\ accounts = [u \in Ids |->
       [state |-> IF u = AnId THEN "live" ELSE "unborn", name |-> Admin,
        must |-> u = AnId, admin |-> u = AnId, stamp |-> 0,
        given |-> IF u = AnId THEN "operator" ELSE "user", waived |-> FALSE]]
  /\ sessions = [t \in Tokens |-> [state |-> "unborn", user |-> AnId, stamp |-> 0, raced |-> FALSE]]
  /\ rows = [d \in RowIds |->
       [state |-> "unborn", owner |-> AnId, kind |-> "chat", path |-> FALSE]]
  /\ files = {} /\ requests = [r \in Requests |-> Idle] /\ up = TRUE
  /\ writes = 0 /\ outside = 0

\* What a request in flight does next.
Step(r) ==
  \/ Insert(r) \/ InsertRefused(r) \/ CommitLogin(r) \/ BoundLogin(r)
  \/ LockUser(r) \/ LockRefused(r) \/ Sweep(r)
  \/ CommitChange(r) \/ CommitReset(r) \/ BoundWrite(r)
  \/ CommitCreate(r) \/ BoundCreate(r)
  \/ SaveFile(r) \/ FinishCreate(r) \/ RejectCreate(r) \/ AbandonCreate(r)
  \/ ListDocuments(r) \/ LockDocument(r) \/ Claim(r) \/ ClaimRefused(r) \/ SweepAccount(r)
  \/ CommitDelete(r) \/ DeleteRefused(r) \/ RemoveFiles(r) \/ EndDeadlock(r)

Submit(r) ==
  \/ \E u \in Ids : Login(r, u)
  \/ \E t \in Tokens :
       \/ Delete(r, t)
       \/ \E kind \in {"document", "chat"} : Create(r, t, kind)
       \/ Change(r, t)
       \/ \E u \in Ids : Reset(r, t, u)

Next ==
  \/ \E r \in Requests : Step(r) \/ Submit(r)
  \/ \E name \in Names : Register(name)
  \/ \E t \in Tokens : Logout(t)
  \/ \E d \in RowIds : Work(d)
  \/ \E u \in Ids, revoke \in BOOLEAN : SetAdmin(u, revoke)
  \/ Restart

Spec == Init /\ [][Next]_vars

------------------------------------------------------------------------------
\* Every variable keeps its type.
TypeOK ==
  /\ accounts \in [Ids -> Account] /\ sessions \in [Tokens -> Session]
  /\ rows \in [RowIds -> Row] /\ files \subseteq RowIds
  /\ requests \in [Requests -> Request] /\ up \in BOOLEAN
  /\ writes \in 0..MaxWrites /\ outside \in 0..MaxOutside

\* A session that exists was opened, or kept, with the password in force: a change
\* ends every other session of the user and a reset ends them all, except those of
\* logins that overlapped its transaction (auth_service.py:98, 129, 160).
SessionsMatchPassword ==
  \A t \in Tokens : HasSession(t) /\ ~sessions[t].raced =>
    sessions[t].stamp = accounts[sessions[t].user].stamp

\* A password that an administrator or the installation chose must be changed before
\* anything else is admitted, unless set_admin --revoke lifted that, or the reset
\* raced with another write of the account (auth_service.py:160, dependencies.py:21).
TemporaryMustChange ==
  \A u \in Ids : Born(u) /\ accounts[u].given = "operator" =>
    accounts[u].must \/ accounts[u].waived

\* The same without the exceptions, as README.md:172-174 tells it.
EveryResetForcesChange ==
  \A u \in Ids : Born(u) /\ accounts[u].given = "operator" => accounts[u].must

\* Sessions, documents and chats belong to an account that exists, and a document
\* that says where its file is has it: a deletion that races with logins, uploads and
\* new chats takes everything along or nothing (auth_service.py:205,
\* user_repository.py:125), and an upload stores its file between two transactions of
\* its own (document_service.py:38, 56).
RowsHaveOwners ==
  /\ \A t \in Tokens : HasSession(t) => Born(sessions[t].user)
  /\ \A d \in RowIds : HasRow(d) =>
       Born(rows[d].owner) /\ (Document(d) /\ rows[d].path => d \in files)

\* The deletion of an account never takes a document away that is being indexed
\* (auth_service.py:206): only the upload that is still storing it may, when it is
\* refused.
DeletionSparesWork ==
  [][\A d \in RowIds : rows[d].state = "active" /\ rows[d].state' = "gone" =>
       \E r \in Requests : requests[r].op = "create" /\ d \in requests[r].todo]_vars

\* Row locks are taken in orders that cross in one place only, where PostgreSQL ends
\* one side: a change or reset of the password against the deletion of the same
\* account.  Requests that wait for each other in a circle contain such a pair; two
\* deletions of one account, an upload and a deletion, logins and writers never form
\* a circle of their own (user_repository.py:119, 140; auth_service.py:152-154).
LocksCrossOnce ==
  \A S \in SUBSET Requests :
    S # {} /\ (\A r \in S : WaitsOn(r) \cap S # {}) => \E q, d \in S : Deadlocked(q, d)

==============================================================================
