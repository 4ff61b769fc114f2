-------------------------- MODULE LlmRegistryProofs --------------------------
(***************************************************************************)
(* Theorems about LlmRegistry for every number of processes and threads,   *)
(* every set of endpoints and every sequence of edits, checked by TLAPS.   *)
(* RegistryInv is the invariant about types, locks and versions; PastOk is *)
(* inductive beside it, and says what the edits under way are made of.     *)
(***************************************************************************)
EXTENDS LlmRegistry, TLAPS

Served == {c \in Configuration : EnabledIn(c, c.default)}

\* The fields that a thread at each step has filled in.
WellFormed(r) ==
  /\ r \in Thread
  /\ r.pc \in {"publish", "flock", "mutex", "compare", "write", "replaced"}
       => r.content \in LanguageModelSnapshot
  /\ r.pc = "read" => r.sig \in Signatures
  /\ r.pc \in {"call", "read", "publish"} /\ r.for = "edit" => r.op \in Op
  /\ r.pc \in {"call", "read", "publish"} /\ r.for = "activate" => r.choice \in Keys
  /\ r.pc = "build" => r.op \in Op /\ r.base \in Served
  /\ r.for = "boot" => r.pc \in {"idle", "read", "publish"}

\* A request only runs in a process that serves; start-up has no request.
RequestsServed ==
  \A t \in Threads : th[t].pc # "idle" /\ th[t].for # "boot" => Serving(P(t))

Holding(t) == th[t].pc \in {"read", "publish", "compare", "write", "replaced"}

\* Reading, publishing, comparing and writing happen under the mutex.
MutexHeld == \A t \in Threads : Holding(t) => mutex[P(t)] = t

ThreadsOk == (\A t \in Threads : WellFormed(th[t])) /\ RequestsServed /\ MutexHeld

\* A version of the file: no later than the file, and equal to it if as late.
VersionOf(s) == s.stamp <= file.stamp /\ (s.stamp = file.stamp => s.content = file.content)

\* What is published and observed in a process comes from the file's past; and
\* a process with no publication under way that has seen the present stamp is
\* up to date, has reported an error, or has missed a write.
ProcessOk(p) ==
  Serving(p) =>
    /\ VersionOf(snap[p])
    /\ observed[p] \in Signatures /\ observed[p][1] <= file.stamp
    /\ \/ \E t \in Threads : P(t) = p /\ Publishing(t)
       \/ observed[p][1] # file.stamp \/ reloadError[p] = TRUE
       \/ snap[p].stamp = file.stamp \/ missed[p] = TRUE

\* What a thread is about to publish is newer than what its process serves.
PublicationOk(t) ==
  /\ th[t].pc = "read" => th[t].sig[1] <= file.stamp
  /\ Publishing(t) =>
       /\ VersionOf(th[t].content)
       /\ Serving(P(t)) => snap[P(t)].stamp <= th[t].content.stamp
       /\ th[t].content.stamp = file.stamp \/ missed[P(t)] = TRUE

VersionsOk == (\A p \in Procs : ProcessOk(p)) /\ (\A t \in Threads : PublicationOk(t))

-----------------------------------------------------------------------------

LEMMA IdleWellFormed == WellFormed(Idle)
  BY DEF WellFormed, Idle, Thread, Step, Purpose

\* Single fields of a thread, changed.
LEMMA StepTyped ==
  ASSUME NEW r \in Thread, NEW x \in Step
  PROVE  LET s == [r EXCEPT !.pc = x] IN
           /\ s \in Thread /\ s.pc = x /\ s.for = r.for /\ s.op = r.op
           /\ s.choice = r.choice /\ s.sig = r.sig /\ s.content = r.content
  BY DEF Thread

LEMMA FieldsTyped ==
  ASSUME NEW r \in Thread
  PROVE  /\ \A x \in Purpose : LET s == [r EXCEPT !.for = x] IN
              s \in Thread /\ s.pc = r.pc /\ s.for = x
         /\ \A x \in Op : LET s == [r EXCEPT !.op = x] IN
              s \in Thread /\ s.pc = r.pc /\ s.for = r.for /\ s.op = x
         /\ \A x \in Keys \cup {None} : LET s == [r EXCEPT !.choice = x] IN
              s \in Thread /\ s.pc = r.pc /\ s.for = r.for /\ s.choice = x
         /\ \A x \in Endpoint \cup {None} : LET s == [r EXCEPT !.used = x] IN
              s \in Thread /\ s.pc = r.pc /\ s.for = r.for
         /\ \A x \in Token \cup {None} : LET s == [r EXCEPT !.token = x] IN
              s \in Thread /\ s.pc = r.pc /\ s.for = r.for
         /\ \A x \in Signatures : LET s == [r EXCEPT !.sig = x] IN
              s \in Thread /\ s.pc = r.pc /\ s.for = r.for /\ s.sig = x
                /\ s.op = r.op /\ s.choice = r.choice
         /\ \A x \in LanguageModelSnapshot : LET s == [r EXCEPT !.content = x] IN
              s \in Thread /\ s.pc = r.pc /\ s.for = r.for /\ s.content = x
                /\ s.op = r.op /\ s.choice = r.choice
  BY DEF Thread

LEMMA EntriesTyped ==
  ASSUME NEW c \in Configuration, NEW k \in Keys
  PROVE  /\ c.entries[k] \in Entry \cup {None}
         /\ EnabledIn(c, k) => c.entries[k] \in {e \in Entry : e.enabled}
  BY DEF Configuration, EnabledIn

LEMMA EditedTyped ==
  ASSUME NEW op \in Op, NEW c \in Configuration, Applicable(op, c),
         NEW token \in Token
  PROVE  Edited(op, c, token) \in Configuration
  <1>1. op.key \in Keys /\ op.enabled \in BOOLEAN
    BY DEF Op
  <1>2. \A e \in Entry \cup {None} : [c EXCEPT !.entries[op.key] = e] \in Configuration
    BY <1>1 DEF Configuration
  <1>3. CASE op.kind \in {"create", "update"}
    <2> DEFINE tok == CASE op.auth = "none" -> None
                        [] op.auth = "new"  -> token
                        [] op.auth = "keep" -> c.entries[op.key].token
    <2>1. tok \in Token \cup {None}
      <3>1. op.auth = "keep" => c.entries[op.key] \in Entry
        BY <1>1, <1>3, EntriesTyped DEF Applicable, Op
      <3>2. op.auth \in {"none", "new", "keep"}
        BY DEF Op
      <3> QED BY <3>1, <3>2 DEF Entry
    <2>2. [enabled |-> op.enabled, token |-> tok] \in Entry \cup {None}
      BY <1>1, <2>1 DEF Entry
    <2>3. Edited(op, c, token) =
            [c EXCEPT !.entries[op.key] = [enabled |-> op.enabled, token |-> tok]]
      BY <1>3 DEF Edited
    <2> HIDE DEF tok
    <2> QED BY <1>2, <2>2, <2>3
  <1>4. CASE op.kind = "default"
    BY <1>1, <1>4 DEF Edited, Configuration
  <1>5. CASE op.kind = "delete"
    BY <1>2, <1>5 DEF Edited
  <1> QED BY <1>3, <1>4, <1>5 DEF Op

LEMMA UserEndpointTyped ==
  ASSUME NEW c \in Served, NEW choice \in Keys \cup {None}
  PROVE  UserEndpoint(choice, c) \in Endpoint
  <1>1. c.default \in Keys /\ EnabledIn(c, c.default) /\ c \in Configuration
    BY DEF Served, Configuration
  <1>2. \A k \in Keys : EnabledIn(c, k) => [key |-> k, entry |-> c.entries[k]] \in Endpoint
    BY <1>1, EntriesTyped DEF Endpoint
  <1>3. CASE choice # None /\ EnabledIn(c, choice)
    BY <1>2, <1>3 DEF UserEndpoint
  <1>4. CASE ~(choice # None /\ EnabledIn(c, choice))
    BY <1>1, <1>2, <1>4 DEF UserEndpoint
  <1> QED BY <1>3, <1>4

\* Where the caller of snapshot() goes on, it has what it needs, and it neither
\* holds the mutex nor has something to publish.
LEMMA GivenWellFormed ==
  ASSUME NEW old, WellFormed(old), old.pc \in {"call", "read", "publish"},
         NEW c \in Served
  PROVE  /\ WellFormed(Given(old, c))
         /\ Given(old, c).pc \in {"idle", "build", "retrieve", "generate", "check"}
         /\ Given(old, c).for = old.for \/ Given(old, c).pc = "idle"
  <1>0. old \in Thread /\ old.for \in Purpose /\ c \in Configuration
    BY DEF WellFormed, Thread, Served
  <1>c. old.choice \in Keys \cup {None}
    BY DEF WellFormed, Thread
  <1>i. Idle.pc = "idle"
    BY DEF Idle
  <1>1. CASE old.for \in {"boot", "view"}
    BY <1>1, <1>i, IdleWellFormed DEF Given
  <1>3. CASE old.for = "edit"
    <2> DEFINE r == [old EXCEPT !.pc = "build", !.base = c,
                                !.content = None, !.sig = None]
    <2>1. Given(old, c) = r
      BY <1>3 DEF Given
    <2>2. /\ r \in Thread /\ r.pc = "build" /\ r.for = old.for
          /\ r.base = c /\ r.op = old.op
      BY <1>0 DEF Thread, Step
    <2> HIDE DEF r
    <2> QED BY <1>3, <2>1, <2>2 DEF WellFormed
  <1>4. CASE old.for = "pin"
    <2> DEFINE e == UserEndpoint(old.choice, c)
               r == [old EXCEPT !.pc = "retrieve", !.pinned = e,
                                !.content = None, !.sig = None]
    <2>1. Given(old, c) = r
      BY <1>4 DEF Given
    <2>2. e \in Endpoint
      BY <1>c, UserEndpointTyped
    <2> HIDE DEF e
    <2>3. r \in Thread /\ r.pc = "retrieve" /\ r.for = old.for
      BY <1>0, <2>2 DEF Thread, Step
    <2> HIDE DEF r
    <2> QED BY <1>4, <2>1, <2>3 DEF WellFormed
  <1>5. CASE old.for = "stream"
    <2> DEFINE e == UserEndpoint(old.choice, c)
               r == [old EXCEPT !.pc = "generate", !.used = e,
                                !.content = None, !.sig = None]
    <2>1. Given(old, c) = r
      BY <1>5 DEF Given
    <2>2. e \in Endpoint
      BY <1>c, UserEndpointTyped
    <2> HIDE DEF e
    <2>3. r \in Thread /\ r.pc = "generate" /\ r.for = old.for
      BY <1>0, <2>2 DEF Thread, Step
    <2> HIDE DEF r
    <2> QED BY <1>5, <2>1, <2>3 DEF WellFormed
  <1>6. CASE old.for = "activate"
    <2> DEFINE r == [old EXCEPT !.pc = "check", !.content = None, !.sig = None]
    <2>1. Given(old, c) = r \/ Given(old, c) = Idle
      BY <1>6 DEF Given
    <2>2. r \in Thread /\ r.pc = "check" /\ r.for = old.for
      BY <1>0 DEF Thread, Step
    <2> HIDE DEF r
    <2>3. WellFormed(r)
      BY <1>6, <2>2 DEF WellFormed
    <2> QED BY <2>1, <2>2, <2>3, <1>i, IdleWellFormed
  <1> QED BY <1>0, <1>1, <1>3, <1>4, <1>5, <1>6 DEF Purpose

-----------------------------------------------------------------------------
(* Types, the steps of a thread, and the mutex.                            *)

\* One thread moves to a well-formed step, and takes or gives back the mutex
\* of its process only where no other thread has it.
LEMMA ThreadFrame ==
  ASSUME TypeOK, ThreadsOk, NEW t \in Threads, NEW r, WellFormed(r),
         th' = [th EXCEPT ![t] = r],
         \A p \in Procs : Serving(p) => Serving(p)',
         r.pc # "idle" /\ r.for # "boot" => Serving(P(t))',
         NEW m \in {None, t},
         mutex' = mutex \/ (mutex[P(t)] \in {None, t} /\ mutex' = [mutex EXCEPT ![P(t)] = m]),
         r.pc \in {"read", "publish", "compare", "write", "replaced"} => mutex'[P(t)] = t
  PROVE  th' \in [Threads -> Thread] /\ ThreadsOk'
  <1>1. r \in Thread
    BY DEF WellFormed
  <1>2. th' \in [Threads -> Thread]
    BY <1>1 DEF TypeOK
  <1>3. th'[t] = r /\ \A u \in Threads : u # t => th'[u] = th[u]
    BY DEF TypeOK
  <1>4. \A u \in Threads : WellFormed(th[u])'
    <2> SUFFICES ASSUME NEW u \in Threads PROVE WellFormed(th'[u])
      BY DEF WellFormed
    <2> QED BY <1>3 DEF ThreadsOk
  <1>5. \A u \in Threads : P(u) \in Procs
    BY ProcessAssumption DEF P
  <1>6. RequestsServed'
    <2> SUFFICES ASSUME NEW u \in Threads, th'[u].pc # "idle", th'[u].for # "boot"
                 PROVE  Serving(P(u))'
      BY DEF RequestsServed
    <2>1. CASE u = t
      BY <2>1, <1>3
    <2>2. CASE u # t
      <3>1. th[u].pc # "idle" /\ th[u].for # "boot"
        BY <2>2, <1>3
      <3>2. Serving(P(u))
        BY <3>1 DEF ThreadsOk, RequestsServed
      <3> QED BY <3>2, <1>5 DEF P
    <2> QED BY <2>1, <2>2
  <1>7. MutexHeld'
    <2> SUFFICES ASSUME NEW u \in Threads,
                        th'[u].pc \in {"read", "publish", "compare", "write", "replaced"}
                 PROVE  mutex'[P(u)] = u
      BY DEF MutexHeld, Holding, P
    <2>1. CASE u = t
      BY <2>1, <1>3
    <2>2. CASE u # t
      <3>1. mutex[P(u)] = u
        BY <2>2, <1>3 DEF ThreadsOk, MutexHeld, Holding
      <3>2. CASE mutex' = mutex
        BY <3>1, <3>2
      <3>3. CASE mutex[P(t)] \in {None, t} /\ mutex' = [mutex EXCEPT ![P(t)] = m]
        <4>1. P(u) # P(t)
          BY <3>1, <3>3, <2>2, ProcessAssumption
        <4> QED BY <3>1, <3>3, <4>1, <1>5 DEF TypeOK
      <3> QED BY <3>2, <3>3
    <2> QED BY <2>1, <2>2
  <1> QED BY <1>2, <1>4, <1>6, <1>7 DEF ThreadsOk

\* initialize() of the cipher keeps the key a number.
LEMMA CipherTyped ==
  ASSUME TypeOK, NEW b \in BOOLEAN, InitializeCipher(b)
  PROVE  key' \in Nat /\ keysMade' \in Nat
  BY DEF TypeOK, InitializeCipher, CreateKey

LEMMA SnapshotsServed ==
  ASSUME NEW s \in LanguageModelSnapshot
  PROVE  s.content \in Served /\ s.stamp \in Nat
  BY DEF LanguageModelSnapshot, Served

\* What the caller of snapshot() may be shown is a configuration.
LEMMA ReturnTyped ==
  ASSUME TypeOK, NEW t \in Threads, NEW c \in Served, NEW b, Return(t, c, b)
  PROVE  pages' \subseteq Page /\ behind' \subseteq Threads
  <1>1. [proc |-> P(t), content |-> c] \in Page
    BY ProcessAssumption DEF Page, P, Served
  <1> QED BY <1>1 DEF TypeOK, Return, ShowPage

\* Requests that arrive, and their steps outside the registry.
LEMMA RequestTyped ==
  ASSUME TypeOK, ThreadsOk, NEW t \in Threads,
         Request(t) \/ Retrieved(t) \/ Answered(t) \/ Activated(t) \/ Boot(t)
  PROVE  TypeOK' /\ ThreadsOk'
  <1> DEFINE old == th[t]
  <1>a. WellFormed(old) /\ old \in Thread
    BY DEF ThreadsOk, WellFormed
  <1>b. old.pc # "idle" /\ old.for # "boot" => Serving(P(t))
    BY DEF ThreadsOk, RequestsServed
  <1>p. P(t) \in Procs
    BY ProcessAssumption DEF P
  <1>i. Idle.pc = "idle"
    BY DEF Idle
  <1>j. Idle \in Thread
    BY IdleWellFormed DEF WellFormed
  <1>f. ASSUME NEW r, WellFormed(r), th' = [th EXCEPT ![t] = r],
               UNCHANGED <<snap, mutex>>,
               r.pc # "idle" /\ r.for # "boot" => Serving(P(t)),
               r.pc \notin {"read", "publish", "compare", "write", "replaced"}
        PROVE  th' \in [Threads -> Thread] /\ ThreadsOk'
    <2>1. \A p \in Procs : Serving(p) => Serving(p)'
      BY <1>f DEF Serving
    <2>2. r.pc # "idle" /\ r.for # "boot" => Serving(P(t))'
      BY <1>f DEF Serving, P
    <2>3. None \in {None, t} /\ (mutex' = mutex \/
            (mutex[P(t)] \in {None, t} /\ mutex' = [mutex EXCEPT ![P(t)] = None]))
      BY <1>f
    <2>4. r.pc \in {"read", "publish", "compare", "write", "replaced"} => mutex'[P(t)] = t
      BY <1>f
    <2> QED BY ThreadFrame, <1>f, <2>1, <2>2, <2>3, <2>4
  <1>r. ASSUME NEW request, Arrive(t, request), WellFormed(request), request.pc = "call"
        PROVE  TypeOK' /\ ThreadsOk'
    <2>1. Serving(P(t)) /\ UNCHANGED <<snap, mutex>> /\ th' = [th EXCEPT ![t] = request]
      BY <1>r DEF Arrive
    <2>2. th' \in [Threads -> Thread] /\ ThreadsOk'
      BY <1>r, <1>f, <2>1
    <2> QED BY <1>r, <2>2 DEF Arrive, browser, history, TypeOK
  <1>1. CASE Chat(t)
    <2> DEFINE r == [Idle EXCEPT !.pc = "call", !.for = "pin", !.choice = selected]
    <2>1. selected \in Keys \cup {None}
      BY DEF TypeOK
    <2>2. r \in Thread /\ r.pc = "call" /\ r.for = "pin"
      BY <1>j, <2>1 DEF Thread, Step, Purpose, Idle
    <2>3. WellFormed(r)
      BY <2>2 DEF WellFormed
    <2>4. Arrive(t, r)
      BY <1>1 DEF Chat
    <2> QED BY <1>r, <2>2, <2>3, <2>4
  <1>2. CASE ActivateModel(t)
    <2> PICK k \in Choices : Arrive(t, [Idle EXCEPT !.pc = "call", !.for = "activate", !.choice = k])
      BY <1>2 DEF ActivateModel
    <2> DEFINE r == [Idle EXCEPT !.pc = "call", !.for = "activate", !.choice = k]
    <2>1. k \in Keys
      BY ContentAssumption
    <2>2. r \in Thread /\ r.pc = "call" /\ r.for = "activate" /\ r.choice = k
      BY <1>j, <2>1 DEF Thread, Step, Purpose, Idle
    <2>3. WellFormed(r)
      BY <2>1, <2>2 DEF WellFormed
    <2> QED BY <1>r, <2>2, <2>3
  <1>3. CASE ViewModels(t)
    <2> DEFINE r == [Idle EXCEPT !.pc = "call", !.for = "view"]
    <2>2. r \in Thread /\ r.pc = "call" /\ r.for = "view"
      BY <1>j DEF Thread, Step, Purpose, Idle
    <2>3. WellFormed(r)
      BY <2>2 DEF WellFormed
    <2>4. Arrive(t, r)
      BY <1>3 DEF ViewModels
    <2> QED BY <1>r, <2>2, <2>3, <2>4
  <1>4. CASE SubmitEdit(t)
    <2> PICK op \in Ops, page \in pages :
               th' = [th EXCEPT ![t] = [Idle EXCEPT !.pc = "call", !.for = "edit",
                                                    !.op = op, !.page = page]]
      BY <1>4 DEF SubmitEdit
    <2> DEFINE r == [Idle EXCEPT !.pc = "call", !.for = "edit", !.op = op, !.page = page]
    <2>1. op \in Op /\ page \in Page
      BY ContentAssumption DEF TypeOK
    <2>2. r \in Thread /\ r.pc = "call" /\ r.for = "edit" /\ r.op = op
      BY <1>j, <2>1 DEF Thread, Step, Purpose, Idle
    <2>3. WellFormed(r)
      BY <2>1, <2>2 DEF WellFormed
    <2>4. Serving(P(t)) /\ UNCHANGED <<snap, mutex>>
      BY <1>4 DEF SubmitEdit
    <2>5. th' \in [Threads -> Thread] /\ ThreadsOk'
      BY <1>f, <2>2, <2>3, <2>4
    <2> QED BY <1>4, <2>5 DEF SubmitEdit, history, TypeOK
  <1>5. CASE Retrieved(t)
    <2>1. Serving(P(t)) /\ old.pc = "retrieve" /\ old.for # "boot" /\ UNCHANGED <<snap, mutex>>
      BY <1>5, <1>a, <1>b DEF Retrieved, At, WellFormed
    <2>2. CASE th' = [th EXCEPT ![t].pc = "generate", ![t].used = th[t].pinned]
      <3> DEFINE r1 == [old EXCEPT !.pc = "generate"]
                 r == [r1 EXCEPT !.used = old.pinned]
      <3>a. r1 \in Thread /\ r1.pc = "generate" /\ r1.for = old.for
        <4>1. "generate" \in Step BY DEF Step
        <4> QED BY <4>1, <1>a, StepTyped
      <3>0. old.pinned \in Endpoint \cup {None}
        BY <1>a DEF Thread
      <3>1. r \in Thread /\ r.pc = "generate" /\ r.for = old.for
        <4> HIDE DEF r1
        <4> QED BY <3>a, <3>0, FieldsTyped
      <3>2. WellFormed(r)
        BY <2>1, <3>1 DEF WellFormed
      <3>3. th' = [th EXCEPT ![t] = r]
        BY <2>2 DEF TypeOK
      <3>4. th' \in [Threads -> Thread] /\ ThreadsOk'
        BY <1>f, <2>1, <3>1, <3>2, <3>3
      <3> QED BY <1>5, <3>4 DEF Retrieved, browser, history, TypeOK
    <2>3. CASE \E choice \in {th[t].choice, selected} :
                 th' = [th EXCEPT ![t].pc = "call", ![t].for = "stream", ![t].choice = choice]
      <3> PICK choice \in {th[t].choice, selected} :
                 th' = [th EXCEPT ![t].pc = "call", ![t].for = "stream", ![t].choice = choice]
        BY <2>3
      <3> DEFINE r1 == [old EXCEPT !.pc = "call"]
                 r2 == [r1 EXCEPT !.for = "stream"]
                 r == [r2 EXCEPT !.choice = choice]
      <3>a. r1 \in Thread /\ r1.pc = "call"
        <4>1. "call" \in Step BY DEF Step
        <4> QED BY <4>1, <1>a, StepTyped
      <3>b. r2 \in Thread /\ r2.pc = "call" /\ r2.for = "stream"
        <4> HIDE DEF r1
        <4> QED BY <3>a, FieldsTyped DEF Purpose
      <3>1. choice \in Keys \cup {None}
        BY <1>a DEF TypeOK, Thread
      <3>2. r \in Thread /\ r.pc = "call" /\ r.for = "stream"
        <4> HIDE DEF r2
        <4> QED BY <3>b, <3>1, FieldsTyped
      <3>3. WellFormed(r)
        BY <3>2 DEF WellFormed
      <3>4. th' = [th EXCEPT ![t] = r]
        BY DEF TypeOK
      <3>5. th' \in [Threads -> Thread] /\ ThreadsOk'
        BY <1>f, <2>1, <3>2, <3>3, <3>4
      <3> QED BY <1>5, <3>5 DEF Retrieved, browser, history, TypeOK
    <2> QED BY <1>5, <2>2, <2>3 DEF Retrieved
  <1>6. CASE Answered(t)
    <2>1. th' \in [Threads -> Thread] /\ ThreadsOk'
      BY <1>6, <1>f, <1>i, IdleWellFormed DEF Answered
    <2> QED BY <1>6, <2>1 DEF Answered, browser, history, TypeOK
  <1>7. CASE Activated(t)
    <2>1. th' \in [Threads -> Thread] /\ ThreadsOk'
      BY <1>7, <1>f, <1>i, IdleWellFormed DEF Activated
    <2>2. selected' \in Keys \cup {None}
      BY <1>7, <1>a DEF Activated, TypeOK, Thread
    <2> QED BY <1>7, <2>1, <2>2 DEF Activated, browser, history, TypeOK
  <1>8. CASE Boot(t)
    <2> DEFINE r1 == [old EXCEPT !.pc = "read"]
               r2 == [r1 EXCEPT !.for = "boot"]
               r == [r2 EXCEPT !.sig = Signature]
    <2>a. r1 \in Thread /\ r1.pc = "read"
      <3>1. "read" \in Step BY DEF Step
      <3> QED BY <3>1, <1>a, StepTyped
    <2>b. r2 \in Thread /\ r2.pc = "read" /\ r2.for = "boot"
      <3> HIDE DEF r1
      <3> QED BY <2>a, FieldsTyped DEF Purpose
    <2>1. Signature \in Signatures
      BY DEF TypeOK, Signature, Signatures
    <2>2. r \in Thread /\ r.pc = "read" /\ r.for = "boot" /\ r.sig = Signature
      <3> HIDE DEF r2
      <3> QED BY <2>b, <2>1, FieldsTyped
    <2>3. WellFormed(r)
      BY <2>1, <2>2 DEF WellFormed
    <2>4. th' = [th EXCEPT ![t] = r]
      BY <1>8 DEF TypeOK, Boot
    <2>5. mutex[P(t)] \in {None, t} /\ mutex' = [mutex EXCEPT ![P(t)] = t] /\ mutex'[P(t)] = t
      BY <1>8, <1>p DEF Boot, MutexFree, TypeOK
    <2>6. \A p \in Procs : Serving(p) => Serving(p)'
      BY <1>8 DEF Boot, Serving
    <2>7. th' \in [Threads -> Thread] /\ ThreadsOk'
      BY ThreadFrame, <2>2, <2>3, <2>4, <2>5, <2>6
    <2>8. mutex' \in [Procs -> Threads \cup {None}]
      BY <2>5 DEF TypeOK
    <2> QED BY <1>8, <2>7, <2>8 DEF Boot, browser, history, TypeOK
  <1> QED BY <1>1, <1>2, <1>3, <1>4, <1>5, <1>6, <1>7, <1>8 DEF Request

\* snapshot() and initialize().
LEMMA ReloadTyped ==
  ASSUME TypeOK, ThreadsOk, NEW t \in Threads,
         Snapshot(t) \/ ReadSnapshot(t) \/ PublishSnapshot(t)
           \/ RefuseReload(t) \/ RefuseBoot(t)
  PROVE  TypeOK' /\ ThreadsOk'
  <1> DEFINE old == th[t]
  <1>a. WellFormed(old) /\ old \in Thread
    BY DEF ThreadsOk, WellFormed
  <1>b. old.pc # "idle" /\ old.for # "boot" => Serving(P(t))
    BY DEF ThreadsOk, RequestsServed
  <1>p. P(t) \in Procs
    BY ProcessAssumption DEF P
  <1>i. Idle.pc = "idle"
    BY DEF Idle
  <1>h. Holding(t) => mutex[P(t)] = t
    BY DEF ThreadsOk, MutexHeld
  <1>s. Serving(P(t)) => snap[P(t)] \in LanguageModelSnapshot
    BY <1>p DEF Serving, TypeOK
  <1>m. \A m \in {None, t} : [mutex EXCEPT ![P(t)] = m] \in [Procs -> Threads \cup {None}]
    BY DEF TypeOK
  <1>1. CASE Snapshot(t)
    <2>1. mutex[P(t)] = None /\ old.pc = "call" /\ old.for # "boot" /\ Serving(P(t))
          /\ snap' = snap
      BY <1>1, <1>a, <1>b DEF Snapshot, MutexFree, At, WellFormed
    <2>2. \A p \in Procs : Serving(p) => Serving(p)'
      BY <2>1 DEF Serving
    <2>0. Serving(P(t))'
      BY <2>1 DEF Serving, P
    <2>3. CASE Return(t, snap[P(t)].content, reloadError[P(t)]) /\ UNCHANGED mutex
      <3> DEFINE r == Given(old, snap[P(t)].content)
      <3>1. snap[P(t)].content \in Served
        BY <1>s, <2>1, SnapshotsServed
      <3>2. /\ WellFormed(r) /\ r.pc \notin {"read", "publish", "compare", "write", "replaced"}
        BY <1>a, <2>1, <3>1, GivenWellFormed
      <3>3. th' = [th EXCEPT ![t] = r]
        BY <2>3 DEF Return
      <3> HIDE DEF r
      <3>4. th' \in [Threads -> Thread] /\ ThreadsOk'
        BY ThreadFrame, <2>0, <2>2, <2>3, <3>2, <3>3
      <3> QED BY <1>1, <2>3, <3>1, <3>4, ReturnTyped DEF Snapshot, TypeOK
    <2>4. CASE /\ th' = [th EXCEPT ![t].pc = "read", ![t].sig = Signature]
               /\ mutex' = [mutex EXCEPT ![P(t)] = t]
               /\ UNCHANGED <<pages, behind>>
      <3> DEFINE r1 == [old EXCEPT !.pc = "read"]
                 r  == [r1 EXCEPT !.sig = Signature]
      <3>1. Signature \in Signatures
        BY DEF TypeOK, Signature, Signatures
      <3>4. th' = [th EXCEPT ![t] = r]
        BY <2>4 DEF TypeOK
      <3>2. /\ r \in Thread /\ r.pc = "read" /\ r.for = old.for /\ r.sig = Signature
            /\ r.op = old.op /\ r.choice = old.choice
        <4>1. "read" \in Step
          BY DEF Step
        <4>2. /\ r1 \in Thread /\ r1.pc = "read" /\ r1.for = old.for
              /\ r1.op = old.op /\ r1.choice = old.choice
          BY <1>a, <4>1, StepTyped
        <4> HIDE DEF r1
        <4> QED BY <3>1, <4>2, FieldsTyped
      <3>3. WellFormed(r)
        BY <1>a, <2>1, <3>1, <3>2 DEF WellFormed
      <3>5. mutex'[P(t)] = t
        BY <2>4, <1>p DEF TypeOK
      <3>6. th' \in [Threads -> Thread] /\ ThreadsOk'
        BY ThreadFrame, <2>0, <2>1, <2>2, <2>4, <3>3, <3>4, <3>5
      <3> QED BY <1>1, <1>m, <2>4, <3>6 DEF Snapshot, TypeOK
    <2> QED BY <1>1, <2>3, <2>4 DEF Snapshot
  <1>2. CASE ReadSnapshot(t)
    <2>0. old.pc = "read" /\ mutex[P(t)] = t /\ snap' = snap /\ mutex' = mutex
      BY <1>2, <1>h DEF ReadSnapshot, At, Holding
    <2>1. file \in LanguageModelSnapshot
      BY <1>2 DEF ReadSnapshot, Resolves, Valid, TypeOK, Content, LanguageModelSnapshot
    <2> DEFINE r1 == [old EXCEPT !.pc = "publish"]
               r == [r1 EXCEPT !.content = file]
    <2>a. /\ r1 \in Thread /\ r1.pc = "publish" /\ r1.for = old.for
          /\ r1.op = old.op /\ r1.choice = old.choice
      <3>1. "publish" \in Step BY DEF Step
      <3> QED BY <3>1, <1>a, StepTyped
    <2>2. /\ r \in Thread /\ r.pc = "publish" /\ r.for = old.for /\ r.content = file
          /\ r.op = old.op /\ r.choice = old.choice
      <3> HIDE DEF r1
      <3> QED BY <2>a, <2>1, FieldsTyped
    <2>3. WellFormed(r)
      BY <1>a, <2>0, <2>1, <2>2 DEF WellFormed
    <2>4. th' = [th EXCEPT ![t] = r]
      BY <1>2 DEF TypeOK, ReadSnapshot
    <2>5. \A p \in Procs : Serving(p) => Serving(p)'
      BY <2>0 DEF Serving
    <2>6. r.for # "boot" => Serving(P(t))'
      BY <1>b, <2>0, <2>2 DEF Serving, P
    <2>7. th' \in [Threads -> Thread] /\ ThreadsOk'
      BY ThreadFrame, <2>0, <2>3, <2>4, <2>5, <2>6
    <2>8. key' \in Nat /\ keysMade' \in Nat
      BY <1>2, CipherTyped DEF ReadSnapshot, Managed
    <2>9. missed' \in [Procs -> BOOLEAN]
      BY <1>2 DEF ReadSnapshot, TypeOK
    <2> QED BY <1>2, <2>7, <2>8, <2>9 DEF ReadSnapshot, browser, history, TypeOK
  <1>3. CASE PublishSnapshot(t)
    <2>0. old.pc = "publish" /\ mutex[P(t)] = t /\ old.content \in LanguageModelSnapshot
      BY <1>3, <1>a, <1>h DEF PublishSnapshot, At, Holding, WellFormed
    <2> DEFINE r == Given(old, old.content.content)
    <2>1. WellFormed(r) /\ r.pc \notin {"read", "publish", "compare", "write", "replaced"}
      BY <1>a, <2>0, SnapshotsServed, GivenWellFormed
    <2>2. th' = [th EXCEPT ![t] = r]
      BY <1>3 DEF PublishSnapshot, Return
    <2> HIDE DEF r
    <2>3. mutex' = [mutex EXCEPT ![P(t)] = None] /\ snap' = [snap EXCEPT ![P(t)] = old.content]
      BY <1>3 DEF PublishSnapshot, Release
    <2>4. Serving(P(t))' /\ \A p \in Procs : Serving(p) => Serving(p)'
      <3>1. old.content # None
        BY <2>0, ProcessAssumption DEF LanguageModelSnapshot
      <3> QED BY <1>p, <2>3, <3>1 DEF Serving, TypeOK, P
    <2>5. th' \in [Threads -> Thread] /\ ThreadsOk'
      BY ThreadFrame, <2>0, <2>1, <2>2, <2>3, <2>4
    <2>6. Signature \in Signatures \cup {None}
      BY DEF TypeOK, Signature, Signatures
    <2>7. observed' \in [Procs -> Signatures \cup {None}]
      BY <1>3, <2>6 DEF PublishSnapshot, TypeOK
    <2>8. snap' \in [Procs -> LanguageModelSnapshot \cup {None}]
      BY <2>0, <2>3 DEF TypeOK
    <2>9. reloadError' \in [Procs -> BOOLEAN]
      BY <1>3 DEF PublishSnapshot, TypeOK
    <2>10. pages' \subseteq Page /\ behind' \subseteq Threads
      BY <1>3, <2>0, SnapshotsServed, ReturnTyped DEF PublishSnapshot
    <2> QED BY <1>3, <1>m, <2>3, <2>5, <2>7, <2>8, <2>9, <2>10 DEF PublishSnapshot, TypeOK
  <1>4. CASE RefuseReload(t)
    <2>0. /\ old.pc = "read" /\ mutex[P(t)] = t /\ old.sig \in Signatures
          /\ Serving(P(t)) /\ snap' = snap
      BY <1>4, <1>a, <1>h DEF RefuseReload, At, Holding, WellFormed
    <2> DEFINE r == Given(old, snap[P(t)].content)
    <2>1. snap[P(t)].content \in Served
      BY <1>s, <2>0, SnapshotsServed
    <2>2. WellFormed(r) /\ r.pc \notin {"read", "publish", "compare", "write", "replaced"}
      BY <1>a, <2>0, <2>1, GivenWellFormed
    <2>3. th' = [th EXCEPT ![t] = r]
      BY <1>4 DEF RefuseReload, Return
    <2> HIDE DEF r
    <2>4. mutex' = [mutex EXCEPT ![P(t)] = None]
      BY <1>4 DEF RefuseReload, Release
    <2>5. Serving(P(t))' /\ \A p \in Procs : Serving(p) => Serving(p)'
      BY <2>0 DEF Serving, P
    <2>6. th' \in [Threads -> Thread] /\ ThreadsOk'
      BY ThreadFrame, <2>0, <2>2, <2>3, <2>4, <2>5
    <2>7. observed' \in [Procs -> Signatures \cup {None}]
      BY <1>4, <2>0 DEF RefuseReload, TypeOK
    <2>8. reloadError' \in [Procs -> BOOLEAN]
      BY <1>4 DEF RefuseReload, TypeOK
    <2>9. pages' \subseteq Page /\ behind' \subseteq Threads
      BY <1>4, <2>1, ReturnTyped DEF RefuseReload
    <2> QED BY <1>4, <1>m, <2>4, <2>6, <2>7, <2>8, <2>9 DEF RefuseReload, TypeOK
  <1>5. CASE RefuseBoot(t)
    <2>0. old.pc = "read" /\ mutex[P(t)] = t /\ snap' = snap
      BY <1>5, <1>h DEF RefuseBoot, At, Holding
    <2>1. mutex' = [mutex EXCEPT ![P(t)] = None] /\ th' = [th EXCEPT ![t] = Idle]
      BY <1>5 DEF RefuseBoot, Release
    <2>2. \A p \in Procs : Serving(p) => Serving(p)'
      BY <2>0 DEF Serving
    <2>3. th' \in [Threads -> Thread] /\ ThreadsOk'
      BY ThreadFrame, IdleWellFormed, <1>i, <2>0, <2>1, <2>2
    <2> QED BY <1>5, <1>m, <2>1, <2>3 DEF RefuseBoot, browser, history, TypeOK
  <1> QED BY <1>1, <1>2, <1>3, <1>4, <1>5

\* The edits, from the candidate to its publication.
LEMMA EditTyped ==
  ASSUME TypeOK, ThreadsOk, NEW t \in Threads,
         BuildCandidate(t) \/ RefuseEdit(t) \/ LockFile(t) \/ LockRegistry(t)
           \/ Compare(t) \/ AbandonReplace(t) \/ WriteFile(t)
           \/ WriteFileThenFail(t) \/ PublishEdit(t)
  PROVE  TypeOK' /\ ThreadsOk'
  <1> DEFINE old == th[t]
  <1>a. WellFormed(old) /\ old \in Thread
    BY DEF ThreadsOk, WellFormed
  <1>b. old.pc # "idle" /\ old.for # "boot" => Serving(P(t))
    BY DEF ThreadsOk, RequestsServed
  <1>p. P(t) \in Procs
    BY ProcessAssumption DEF P
  <1>i. Idle.pc = "idle"
    BY DEF Idle
  <1>h. Holding(t) => mutex[P(t)] = t
    BY DEF ThreadsOk, MutexHeld
  <1>m. \A m \in {None, t} : [mutex EXCEPT ![P(t)] = m] \in [Procs -> Threads \cup {None}]
    BY DEF TypeOK
  <1>n. MissedByReaders \in [Procs -> BOOLEAN]
    BY DEF MissedByReaders, TypeOK
  \* A thread that leaves replace().
  <1>l. ASSUME LeaveReplace(t), Holding(t), \A p \in Procs : Serving(p) => Serving(p)'
        PROVE  /\ th' \in [Threads -> Thread] /\ ThreadsOk'
               /\ mutex' \in [Procs -> Threads \cup {None}] /\ flock' \in Threads \cup {None}
    <2>1. /\ mutex' = [mutex EXCEPT ![P(t)] = None] /\ th' = [th EXCEPT ![t] = Idle]
          /\ flock' = None
      BY <1>l DEF LeaveReplace, Release
    <2>2. mutex[P(t)] = t
      BY <1>l, <1>h
    <2>3. th' \in [Threads -> Thread] /\ ThreadsOk'
      BY ThreadFrame, IdleWellFormed, <1>i, <1>l, <2>1, <2>2
    <2> QED BY <1>m, <2>1, <2>3
  \* A thread whose step only moves its program counter on.
  <1>g. ASSUME NEW pc \in {"mutex", "compare", "write"}, th' = [th EXCEPT ![t].pc = pc],
               old.pc \in {"flock", "mutex", "compare"}, snap' = snap,
               mutex' = mutex \/ (mutex[P(t)] = None /\ mutex' = [mutex EXCEPT ![P(t)] = t]),
               pc \in {"compare", "write"} => mutex'[P(t)] = t
        PROVE  th' \in [Threads -> Thread] /\ ThreadsOk'
    <2> DEFINE r == [old EXCEPT !.pc = pc]
    <2>1. pc \in Step
      BY DEF Step
    <2>2. r \in Thread /\ r.pc = pc /\ r.for = old.for /\ r.content = old.content
      BY <2>1, <1>a, StepTyped
    <2>3. th' = [th EXCEPT ![t] = r]
      BY <1>g DEF TypeOK
    <2> HIDE DEF r
    <2>4. WellFormed(r)
      BY <1>a, <1>g, <2>2 DEF WellFormed
    <2>5. Serving(P(t))' /\ \A p \in Procs : Serving(p) => Serving(p)'
      <3>1. Serving(P(t))
        BY <1>a, <1>b, <1>g DEF WellFormed
      <3> QED BY <3>1, <1>g DEF Serving, P
    <2>6. t \in {None, t}
      OBVIOUS
    <2>7. mutex' = mutex \/ (mutex[P(t)] \in {None, t} /\ mutex' = [mutex EXCEPT ![P(t)] = t])
      BY <1>g
    <2>8. r.pc \in {"read", "publish", "compare", "write", "replaced"} => mutex'[P(t)] = t
      BY <1>g, <2>2
    <2> QED BY ThreadFrame, <2>3, <2>4, <2>5, <2>6, <2>7, <2>8
  <1>1. CASE BuildCandidate(t)
    <2> DEFINE op == th[t].op
               new == op.kind \in {"create", "update"} /\ op.auth = "new"
               token == [key |-> key', n |-> tokens']
               candidate == Edited(op, th[t].base, token)
               field == IF new THEN token ELSE None
               made == [stamp |-> 0, content |-> candidate]
               r1 == [old EXCEPT !.pc = "flock"]
               r2 == [r1 EXCEPT !.token = field]
               r == [r2 EXCEPT !.content = made]
    <2>1. op \in Op /\ th[t].base \in Configuration /\ Applicable(op, th[t].base) /\ Serving(P(t))
      BY <1>1, <1>a, <1>b DEF BuildCandidate, At, WellFormed, Served
    <2>2. key' \in Nat /\ keysMade' \in Nat
      <3>1. InitializeCipher(FALSE) \/ UNCHANGED <<key, keysMade>>
        BY <1>1 DEF BuildCandidate
      <3> QED BY <3>1, CipherTyped DEF TypeOK
    <2>3. tokens' \in Nat
      BY <1>1 DEF BuildCandidate, TypeOK
    <2>4. token \in Token
      BY <2>2, <2>3 DEF Token
    <2> HIDE DEF token
    <2>5. candidate \in Configuration
      BY <2>1, <2>4, EditedTyped
    <2> HIDE DEF candidate
    <2>6. snap' = snap /\ mutex' = mutex
          /\ th' = [th EXCEPT ![t] = IF Valid(candidate) THEN r ELSE Idle]
      BY <1>1 DEF BuildCandidate, token, candidate
    <2>7. \A p \in Procs : Serving(p) => Serving(p)'
      BY <2>6 DEF Serving
    <2>8. th' \in [Threads -> Thread] /\ ThreadsOk'
      <3>1. CASE Valid(candidate)
        <4>1. made \in LanguageModelSnapshot
          BY <2>5, <3>1 DEF LanguageModelSnapshot, Valid
        <4>2. field \in Token \cup {None}
          BY <2>4
        <4>3. "flock" \in Step
          BY DEF Step
        <4> HIDE DEF made, field, new
        <4>4. r1 \in Thread /\ r1.pc = "flock" /\ r1.for = old.for
          BY <1>a, <4>3, StepTyped
        <4>5. r2 \in Thread /\ r2.pc = "flock" /\ r2.for = old.for
          <5> HIDE DEF r1
          <5> QED BY <4>2, <4>4, FieldsTyped
        <4>6. r \in Thread /\ r.pc = "flock" /\ r.for = old.for /\ r.content = made
          <5> HIDE DEF r2
          <5> QED BY <4>1, <4>5, FieldsTyped
        <4>7. th' = [th EXCEPT ![t] = r]
          BY <2>6, <3>1
        <4> HIDE DEF r
        <4>8. old.for # "boot"
          BY <1>1, <1>a DEF BuildCandidate, At, WellFormed
        <4>9. WellFormed(r)
          BY <4>1, <4>6, <4>8 DEF WellFormed
        <4>10. Serving(P(t))'
          BY <2>1, <2>6 DEF Serving, P
        <4>11. None \in {None, t}
          OBVIOUS
        <4> QED BY ThreadFrame, <2>6, <2>7, <4>6, <4>7, <4>9, <4>10, <4>11
      <3>2. CASE ~Valid(candidate)
        <4>1. th' = [th EXCEPT ![t] = Idle]
          BY <2>6, <3>2
        <4> QED BY ThreadFrame, IdleWellFormed, <1>i, <2>6, <2>7, <4>1
      <3> QED BY <3>1, <3>2
    <2> QED BY <1>1, <2>2, <2>3, <2>8 DEF BuildCandidate, browser, history, TypeOK
  <1>2. CASE RefuseEdit(t)
    <2>1. snap' = snap /\ mutex' = mutex /\ th' = [th EXCEPT ![t] = Idle]
      BY <1>2 DEF RefuseEdit
    <2>2. \A p \in Procs : Serving(p) => Serving(p)'
      BY <2>1 DEF Serving
    <2>3. th' \in [Threads -> Thread] /\ ThreadsOk'
      BY ThreadFrame, IdleWellFormed, <1>i, <2>1, <2>2
    <2> QED BY <1>2, <2>3 DEF RefuseEdit, browser, history, TypeOK
  <1>3. CASE LockFile(t)
    <2>1. th' \in [Threads -> Thread] /\ ThreadsOk'
      BY <1>3, <1>g DEF LockFile, At
    <2> QED BY <1>3, <2>1 DEF LockFile, browser, history, TypeOK
  <1>4. CASE LockRegistry(t)
    <2>1. mutex'[P(t)] = t /\ mutex[P(t)] = None
      BY <1>4, <1>p DEF LockRegistry, TypeOK, MutexFree
    <2>2. th' \in [Threads -> Thread] /\ ThreadsOk'
      BY <1>4, <1>g, <2>1 DEF LockRegistry, At
    <2> QED BY <1>4, <1>m, <2>2 DEF LockRegistry, browser, history, TypeOK
  <1>5. CASE Compare(t)
    <2>1. mutex[P(t)] = t /\ mutex' = mutex
      BY <1>5, <1>h DEF Compare, At, Holding
    <2>2. th' \in [Threads -> Thread] /\ ThreadsOk'
      BY <1>5, <1>g, <2>1 DEF Compare, At
    <2>3. key' \in Nat /\ keysMade' \in Nat
      BY <1>5, CipherTyped DEF Compare, Managed
    <2> QED BY <1>5, <2>2, <2>3 DEF Compare, browser, TypeOK
  <1>6. CASE AbandonReplace(t)
    <2>1. Holding(t) /\ LeaveReplace(t) /\ snap' = snap
      BY <1>6 DEF AbandonReplace, At, Holding
    <2>2. \A p \in Procs : Serving(p) => Serving(p)'
      BY <2>1 DEF Serving
    <2> QED BY <1>6, <1>l, <2>1, <2>2 DEF AbandonReplace, browser, history, TypeOK
  <1>7. CASE WriteFile(t)
    <2>0. /\ old.pc = "write" /\ mutex[P(t)] = t /\ snap' = snap /\ mutex' = mutex
          /\ old.content \in LanguageModelSnapshot
      BY <1>7, <1>a, <1>h DEF WriteFile, At, Holding, WellFormed
    <2>1. file' = [stamp |-> file.stamp + 1, content |-> old.content.content]
      BY <1>7 DEF WriteFile, ReplaceFile
    <2>2. file' \in LanguageModelSnapshot /\ file' \in [stamp: Nat, content: Content]
      <3>1. file.stamp + 1 \in Nat
        BY DEF TypeOK
      <3> QED BY <2>0, <2>1, <3>1 DEF LanguageModelSnapshot, Content
    <2> DEFINE r1 == [old EXCEPT !.pc = "replaced"]
               r == [r1 EXCEPT !.content = file']
    <2>3. r1 \in Thread /\ r1.pc = "replaced" /\ r1.for = old.for
      <3>1. "replaced" \in Step BY DEF Step
      <3> QED BY <3>1, <1>a, StepTyped
    <2>4. r \in Thread /\ r.pc = "replaced" /\ r.for = old.for /\ r.content = file'
      <3> HIDE DEF r1
      <3> QED BY <2>2, <2>3, FieldsTyped
    <2>5. th' = [th EXCEPT ![t] = r]
      BY <1>7 DEF WriteFile, TypeOK
    <2> HIDE DEF r
    <2>6. WellFormed(r)
      BY <1>a, <2>0, <2>2, <2>4 DEF WellFormed
    <2>7. Serving(P(t))' /\ \A p \in Procs : Serving(p) => Serving(p)'
      <3>1. Serving(P(t))
        BY <1>a, <1>b, <2>0 DEF WellFormed
      <3> QED BY <3>1, <2>0 DEF Serving, P
    <2>8. None \in {None, t}
      OBVIOUS
    <2>9. th' \in [Threads -> Thread] /\ ThreadsOk'
      BY ThreadFrame, <2>0, <2>5, <2>6, <2>7, <2>8
    <2>10. missed' \in [Procs -> BOOLEAN]
      BY <1>7, <1>n DEF WriteFile, ReplaceFile
    <2>11. past' \subseteq Content
      BY <1>7 DEF WriteFile, ReplaceFile, TypeOK
    <2> QED BY <1>7, <2>2, <2>9, <2>10, <2>11 DEF WriteFile, browser, TypeOK
  <1>8. CASE WriteFileThenFail(t)
    <2>1. Holding(t) /\ LeaveReplace(t) /\ snap' = snap /\ old.content \in LanguageModelSnapshot
      BY <1>8, <1>a DEF WriteFileThenFail, At, Holding, WellFormed
    <2>2. file' \in [stamp: Nat, content: Content]
      <3>1. file' = [stamp |-> file.stamp + 1, content |-> old.content.content]
        BY <1>8 DEF WriteFileThenFail, ReplaceFile
      <3>2. file.stamp + 1 \in Nat
        BY DEF TypeOK
      <3> QED BY <2>1, <3>1, <3>2 DEF LanguageModelSnapshot, Content
    <2>3. \A p \in Procs : Serving(p) => Serving(p)'
      BY <2>1 DEF Serving
    <2>4. missed' \in [Procs -> BOOLEAN]
      BY <1>8, <1>n DEF WriteFileThenFail, ReplaceFile
    <2>5. past' \subseteq Content
      BY <1>8 DEF WriteFileThenFail, ReplaceFile, TypeOK
    <2> QED BY <1>8, <1>l, <2>1, <2>2, <2>3, <2>4, <2>5 DEF WriteFileThenFail, browser, TypeOK
  <1>9. CASE PublishEdit(t)
    <2>1. Holding(t) /\ LeaveReplace(t) /\ old.content \in LanguageModelSnapshot
      BY <1>9, <1>a DEF PublishEdit, At, Holding, WellFormed
    <2>2. snap' \in [Procs -> LanguageModelSnapshot \cup {None}]
      BY <1>9, <2>1 DEF PublishEdit, TypeOK
    <2>3. \A p \in Procs : Serving(p) => Serving(p)'
      <3>1. old.content # None
        BY <2>1, ProcessAssumption DEF LanguageModelSnapshot
      <3> QED BY <1>9, <1>p, <3>1 DEF PublishEdit, Serving, TypeOK
    <2>4. Signature \in Signatures \cup {None}
      BY DEF TypeOK, Signature, Signatures
    <2>5. /\ observed' \in [Procs -> Signatures \cup {None}]
          /\ reloadError' \in [Procs -> BOOLEAN]
      BY <1>9, <2>4 DEF PublishEdit, TypeOK
    <2>6. pages' \subseteq Page
      <3>1. [proc |-> P(t), content |-> old.content.content] \in Page
        BY <1>p, <2>1, SnapshotsServed DEF Page, Served
      <3> QED BY <1>9, <3>1 DEF PublishEdit, ShowPage, TypeOK
    <2> QED BY <1>9, <1>l, <2>1, <2>2, <2>3, <2>5, <2>6 DEF PublishEdit, history, TypeOK
  <1> QED BY <1>1, <1>2, <1>3, <1>4, <1>5, <1>6, <1>7, <1>8, <1>9

\* Edits by hand, the key file, and crashes.
LEMMA EnvironmentTyped ==
  ASSUME TypeOK, ThreadsOk,
         EditByHand \/ LoseKey \/ RestoreKey \/ (\E p \in Procs : Crash(p))
  PROVE  TypeOK' /\ ThreadsOk'
  <1>f. UNCHANGED <<th, snap, mutex>> => ThreadsOk'
    BY DEF ThreadsOk, RequestsServed, MutexHeld, Holding, Serving, P
  <1>1. CASE EditByHand
    <2>1. file' \in [stamp: Nat, content: Content]
      BY <1>1, ContentAssumption DEF EditByHand, TypeOK
    <2>2. missed' \in [Procs -> BOOLEAN] /\ edits' \in Nat
      BY <1>1 DEF EditByHand, MissedByReaders, TypeOK
    <2> QED BY <1>1, <1>f, <2>1, <2>2 DEF EditByHand, browser, TypeOK
  <1>2. CASE LoseKey
    BY <1>2, <1>f DEF LoseKey, browser, history, TypeOK
  <1>3. CASE RestoreKey
    BY <1>3, <1>f DEF RestoreKey, browser, history, TypeOK
  <1>4. ASSUME NEW p \in Procs, Crash(p) PROVE TypeOK' /\ ThreadsOk'
    <2>1. Idle \in Thread /\ Idle.pc = "idle"
      BY IdleWellFormed DEF WellFormed, Idle
    <2>2. th' \in [Threads -> Thread]
      BY <1>4, <2>1 DEF Crash, TypeOK
    <2>3. \A u \in Threads : IF P(u) = p THEN th'[u] = Idle ELSE th'[u] = th[u]
      BY <1>4 DEF Crash
    <2>4. \A q \in Procs : q # p => snap'[q] = snap[q] /\ mutex'[q] = mutex[q]
      BY <1>4 DEF Crash, TypeOK
    <2>5. \A u \in Threads : P(u) \in Procs
      BY ProcessAssumption DEF P
    <2>6. ThreadsOk'
      <3>1. \A u \in Threads : WellFormed(th[u])'
        <4> SUFFICES ASSUME NEW u \in Threads PROVE WellFormed(th'[u])
          BY DEF WellFormed
        <4> QED BY <2>3, IdleWellFormed DEF ThreadsOk
      <3>2. RequestsServed'
        BY <2>1, <2>3, <2>4, <2>5 DEF ThreadsOk, RequestsServed, Serving, P
      <3>3. MutexHeld'
        BY <2>1, <2>3, <2>4, <2>5 DEF ThreadsOk, MutexHeld, Holding, P
      <3> QED BY <3>1, <3>2, <3>3 DEF ThreadsOk
    <2>7. flock' \in Threads \cup {None} /\ crashes' \in Nat
      BY <1>4 DEF Crash, TypeOK
    <2>8. /\ mutex' \in [Procs -> Threads \cup {None}]
          /\ snap' \in [Procs -> LanguageModelSnapshot \cup {None}]
          /\ observed' \in [Procs -> Signatures \cup {None}]
          /\ reloadError' \in [Procs -> BOOLEAN]
          /\ missed' \in [Procs -> BOOLEAN]
      BY <1>4 DEF Crash, TypeOK
    <2> QED BY <1>4, <2>2, <2>6, <2>7, <2>8 DEF Crash, browser, history, TypeOK
  <1> QED BY <1>1, <1>2, <1>3, <1>4

LEMMA InitTyped == Init => TypeOK /\ ThreadsOk
  <1> SUFFICES ASSUME Init PROVE TypeOK /\ ThreadsOk
    OBVIOUS
  <1>1. Idle \in Thread /\ Idle.pc = "idle"
    BY IdleWellFormed DEF WellFormed, Idle
  <1>2. TypeOK
    BY <1>1, ContentAssumption DEF Init, TypeOK, Content
  <1>3. ThreadsOk
    BY <1>1, IdleWellFormed DEF Init, ThreadsOk, RequestsServed, MutexHeld, Holding
  <1> QED BY <1>2, <1>3

LEMMA StepKeepsTypes == TypeOK /\ ThreadsOk /\ [Next]_vars => TypeOK' /\ ThreadsOk'
  <1> SUFFICES ASSUME TypeOK, ThreadsOk, [Next]_vars PROVE TypeOK' /\ ThreadsOk'
    OBVIOUS
  <1>1. ASSUME NEW t \in Threads, Progress(t) \/ Request(t) \/ Boot(t)
        PROVE  TypeOK' /\ ThreadsOk'
    BY <1>1, RequestTyped, ReloadTyped, EditTyped DEF Progress
  <1>2. CASE UNCHANGED vars
    <2>1. TypeOK'
      BY <1>2 DEF vars, browser, history, TypeOK
    <2>2. ThreadsOk'
      BY <1>2 DEF vars, ThreadsOk, RequestsServed, MutexHeld, Holding, Serving, P
    <2> QED BY <2>1, <2>2
  <1> QED BY <1>1, <1>2, EnvironmentTyped DEF Next

\* Every variable keeps its type: in particular, every snapshot a process
\* serves has an enabled default endpoint, and every request is given an
\* enabled endpoint.
THEOREM TypeCorrect == Spec => []TypeOK
  <1>1. Spec => [](TypeOK /\ ThreadsOk)
    BY InitTyped, StepKeepsTypes, PTL DEF Spec
  <1> QED BY <1>1, PTL

-----------------------------------------------------------------------------
(* Versions.                                                               *)

LEMMA SignatureStamp == Signature[1] = file.stamp
  BY DEF Signature

LEMMA StampsTyped ==
  ASSUME TypeOK, ThreadsOk
  PROVE  /\ file.stamp \in Nat
         /\ \A p \in Procs : Serving(p) => snap[p].stamp \in Nat
         /\ \A t \in Threads : Publishing(t) => th[t].content.stamp \in Nat
         /\ \A p \in Procs : observed[p] \in Signatures => observed[p][1] \in Nat
         /\ \A t \in Threads : th[t].pc = "read" => th[t].sig[1] \in Nat
  BY DEF TypeOK, ThreadsOk, WellFormed, Serving, Publishing, LanguageModelSnapshot, Signatures

\* A thread moves on, with nothing to publish before or after.
LEMMA QuietVersions ==
  ASSUME TypeOK, VersionsOk, NEW t \in Threads, NEW r,
         th' = [th EXCEPT ![t] = r],
         UNCHANGED <<file, snap, observed, reloadError, missed>>,
         r.pc \notin {"publish", "replaced"}, ~Publishing(t),
         r.pc = "read" => r.sig[1] <= file.stamp
  PROVE  VersionsOk'
  <1>1. th'[t] = r /\ \A u \in Threads : u # t => th'[u] = th[u]
    BY DEF TypeOK
  <1>2. \A u \in Threads : Publishing(u)' <=> Publishing(u)
    BY <1>1 DEF Publishing
  <1>3. \A p \in Procs : ProcessOk(p)'
    <2> SUFFICES ASSUME NEW p \in Procs PROVE ProcessOk(p)'
      OBVIOUS
    <2>1. ProcessOk(p)
      BY DEF VersionsOk
    <2> QED BY <2>1, <1>2 DEF ProcessOk, Serving, VersionOf, P
  <1>4. \A u \in Threads : PublicationOk(u)'
    <2> SUFFICES ASSUME NEW u \in Threads PROVE PublicationOk(u)'
      OBVIOUS
    <2>1. PublicationOk(u)
      BY DEF VersionsOk
    <2>2. CASE u = t
      BY <2>2, <1>1 DEF PublicationOk, Publishing
    <2>3. CASE u # t
      BY <2>1, <2>3, <1>1 DEF PublicationOk, Publishing, VersionOf, Serving, P
    <2> QED BY <2>2, <2>3
  <1> QED BY <1>3, <1>4 DEF VersionsOk

\* A thread publishes what it has to: the snapshot it read or wrote.
LEMMA PublishVersions ==
  ASSUME TypeOK, ThreadsOk, VersionsOk, NEW t \in Threads, NEW r,
         Publishing(t),
         th' = [th EXCEPT ![t] = r],
         r.pc \notin {"read", "publish", "replaced"},
         snap' = [snap EXCEPT ![P(t)] = th[t].content],
         observed' = [observed EXCEPT ![P(t)] = Signature],
         UNCHANGED <<file, missed>>,
         reloadError' = [reloadError EXCEPT ![P(t)] = FALSE]
  PROVE  VersionsOk'
  <1>p. P(t) \in Procs
    BY ProcessAssumption DEF P
  <1>1. th'[t] = r /\ \A u \in Threads : u # t => th'[u] = th[u]
    BY DEF TypeOK
  <1>2. \A q \in Procs : q # P(t) => /\ snap'[q] = snap[q] /\ observed'[q] = observed[q]
                                     /\ reloadError'[q] = reloadError[q]
    BY DEF TypeOK
  <1>3. snap'[P(t)] = th[t].content /\ observed'[P(t)] = Signature
    BY <1>p DEF TypeOK
  <1>4. /\ VersionOf(th[t].content)
        /\ th[t].content.stamp = file.stamp \/ missed[P(t)] = TRUE
    BY DEF VersionsOk, PublicationOk
  <1>5. \A u \in Threads : u # t /\ P(u) = P(t) => ~Holding(u)
    <2>1. mutex[P(t)] = t
      BY DEF Publishing, Holding, ThreadsOk, MutexHeld
    <2> QED BY <2>1 DEF ThreadsOk, MutexHeld
  <1>6. \A q \in Procs : ProcessOk(q)'
    <2> SUFFICES ASSUME NEW q \in Procs PROVE ProcessOk(q)'
      OBVIOUS
    <2>1. CASE q = P(t)
      <3>1. Signature \in Signatures /\ Signature[1] = file.stamp /\ file.stamp \in Nat
        BY DEF Signature, Signatures, TypeOK
      <3>2. VersionOf(snap[q])' /\ (snap'[q].stamp = file.stamp \/ missed[q] = TRUE)
        BY <2>1, <1>3, <1>4 DEF VersionOf
      <3> QED BY <2>1, <1>3, <3>1, <3>2 DEF ProcessOk
    <2>2. CASE q # P(t)
      <3>1. ProcessOk(q)
        BY DEF VersionsOk
      <3>2. \A u \in Threads : P(u) = q => (Publishing(u)' <=> Publishing(u))
        BY <2>2, <1>1 DEF Publishing
      <3> QED BY <2>2, <1>2, <3>1, <3>2 DEF ProcessOk, Serving, VersionOf, P
    <2> QED BY <2>1, <2>2
  <1>7. \A u \in Threads : PublicationOk(u)'
    <2> SUFFICES ASSUME NEW u \in Threads PROVE PublicationOk(u)'
      OBVIOUS
    <2>1. PublicationOk(u) /\ P(u) \in Procs
      BY ProcessAssumption DEF VersionsOk, P
    <2>2. CASE u = t
      BY <2>2, <1>1 DEF PublicationOk, Publishing
    <2>3. CASE u # t /\ P(u) = P(t)
      BY <2>1, <2>3, <1>1, <1>5 DEF PublicationOk, Publishing, Holding
    <2>4. CASE u # t /\ P(u) # P(t)
      BY <2>1, <2>4, <1>1, <1>2 DEF PublicationOk, Publishing, VersionOf, Serving, P
    <2> QED BY <2>2, <2>3, <2>4
  <1> QED BY <1>6, <1>7 DEF VersionsOk

\* The file is written: by a thread t that holds its mutex, which then has it
\* to publish or nothing, or by hand (in no process).
LEMMA WriteVersions ==
  ASSUME TypeOK, ThreadsOk, VersionsOk, NEW W \in SUBSET Procs,
         file'.stamp = file.stamp + 1,
         UNCHANGED <<snap, observed, reloadError>>,
         \A q \in Procs \ W : missed'[q] = MissedByReaders[q],
         \A u \in Threads : P(u) \notin W => th'[u] = th[u],
         \A u \in Threads : P(u) \in W =>
           /\ th'[u].pc # "read"
           /\ Publishing(u)' => th'[u].content = file'
  PROVE  VersionsOk'
  <1>s. file.stamp \in Nat /\ file'.stamp \in Nat
    BY DEF TypeOK
  <1>1. \A q \in Procs : ProcessOk(q)'
    <2> SUFFICES ASSUME NEW q \in Procs, Serving(q)
                 PROVE  /\ VersionOf(snap[q])'
                        /\ observed[q] \in Signatures /\ observed[q][1] <= file'.stamp
                        /\ observed[q][1] # file'.stamp
      BY DEF ProcessOk, Serving
    <2>1. /\ VersionOf(snap[q]) /\ observed[q] \in Signatures /\ observed[q][1] <= file.stamp
      BY DEF VersionsOk, ProcessOk
    <2>2. snap[q].stamp \in Nat /\ observed[q][1] \in Nat
      BY <2>1, StampsTyped
    <2> QED BY <1>s, <2>1, <2>2 DEF VersionOf
  <1>2. \A u \in Threads : PublicationOk(u)'
    <2> SUFFICES ASSUME NEW u \in Threads PROVE PublicationOk(u)'
      OBVIOUS
    <2>p. P(u) \in Procs
      BY ProcessAssumption DEF P
    <2>1. Serving(P(u)) => snap[P(u)].stamp \in Nat /\ snap[P(u)].stamp <= file.stamp
      BY <2>p, StampsTyped DEF VersionsOk, ProcessOk, VersionOf
    <2>2. CASE P(u) \in W
      BY <1>s, <2>1, <2>2 DEF PublicationOk, VersionOf, Serving, P
    <2>3. CASE P(u) \notin W
      <3>1. th'[u] = th[u] /\ PublicationOk(u)
        BY <2>3 DEF VersionsOk
      <3>2. Publishing(u) => missed'[P(u)] = TRUE
        BY <2>3, <2>p DEF MissedByReaders
      <3>3. /\ Publishing(u) => th[u].content.stamp \in Nat
            /\ th[u].pc = "read" => th[u].sig[1] \in Nat
        BY StampsTyped
      <3> QED BY <1>s, <3>1, <3>2, <3>3 DEF PublicationOk, Publishing, VersionOf, Serving, P
    <2> QED BY <2>2, <2>3
  <1> QED BY <1>1, <1>2 DEF VersionsOk

\* What the thread that holds the mutex of its process keeps the others from.
LEMMA OthersWait ==
  ASSUME ThreadsOk, NEW t \in Threads, Holding(t)
  PROVE  \A u \in Threads : u # t /\ P(u) = P(t) => ~Holding(u)
  <1>1. mutex[P(t)] = t
    BY DEF ThreadsOk, MutexHeld
  <1> QED BY <1>1 DEF ThreadsOk, MutexHeld

LEMMA ReloadVersions ==
  ASSUME TypeOK, ThreadsOk, VersionsOk, NEW t \in Threads,
         Snapshot(t) \/ ReadSnapshot(t) \/ PublishSnapshot(t)
           \/ RefuseReload(t) \/ RefuseBoot(t) \/ Boot(t)
  PROVE  VersionsOk'
  <1> DEFINE old == th[t]
  <1>a. WellFormed(old)
    BY DEF ThreadsOk
  <1>b. old.pc # "idle" /\ old.for # "boot" => Serving(P(t))
    BY DEF ThreadsOk, RequestsServed
  <1>p. P(t) \in Procs
    BY ProcessAssumption DEF P
  <1>s. Serving(P(t)) => snap[P(t)].content \in Served
    BY <1>p, SnapshotsServed DEF Serving, TypeOK
  <1>i. Idle.pc = "idle"
    BY DEF Idle
  <1>f. file.stamp \in Nat /\ Signature[1] = file.stamp
    BY SignatureStamp DEF TypeOK
  <1>1. CASE Snapshot(t)
    <2>1. /\ old.pc = "call" /\ old.for # "boot" /\ Serving(P(t)) /\ ~Publishing(t)
          /\ UNCHANGED <<file, snap, observed, reloadError, missed>>
      BY <1>1, <1>a, <1>b DEF Snapshot, At, WellFormed, Publishing
    <2>2. CASE Return(t, snap[P(t)].content, reloadError[P(t)])
      <3> DEFINE r == Given(old, snap[P(t)].content)
      <3>1. r.pc \notin {"read", "publish", "replaced"}
        BY <1>a, <1>s, <2>1, GivenWellFormed
      <3>2. th' = [th EXCEPT ![t] = r]
        BY <2>2 DEF Return
      <3> HIDE DEF r
      <3> QED BY <2>1, <3>1, <3>2, QuietVersions
    <2>3. CASE th' = [th EXCEPT ![t].pc = "read", ![t].sig = Signature]
      <3> DEFINE r == [old EXCEPT !.pc = "read", !.sig = Signature]
      <3>1. r.pc = "read" /\ r.sig = Signature
        BY <1>a DEF WellFormed, Thread
      <3>2. th' = [th EXCEPT ![t] = r]
        BY <2>3 DEF TypeOK
      <3>3. r.sig[1] <= file.stamp
        BY <1>f, <3>1
      <3> HIDE DEF r
      <3> QED BY <2>1, <3>1, <3>2, <3>3, QuietVersions
    <2> QED BY <1>1, <2>2, <2>3 DEF Snapshot
  <1>2. CASE ReadSnapshot(t)
    <2>0. old.pc = "read" /\ UNCHANGED <<file, snap, observed, reloadError>>
          /\ th' = [th EXCEPT ![t].pc = "publish", ![t].content = file]
          /\ missed' = [missed EXCEPT ![P(t)] = FALSE]
      BY <1>2 DEF ReadSnapshot, At
    <2>1. th'[t].pc = "publish" /\ th'[t].content = file
      BY <2>0, <1>a DEF TypeOK, WellFormed, Thread
    <2>2. \A u \in Threads : u # t => th'[u] = th[u]
      BY <2>0 DEF TypeOK
    <2>3. \A u \in Threads : u # t /\ P(u) = P(t) => ~Holding(u)
      BY <2>0, OthersWait DEF Holding
    <2>4. \A q \in Procs : q # P(t) => missed'[q] = missed[q]
      BY <2>0 DEF TypeOK
    <2>5. \A q \in Procs : ProcessOk(q)'
      <3> SUFFICES ASSUME NEW q \in Procs PROVE ProcessOk(q)'
        OBVIOUS
      <3>1. ProcessOk(q)
        BY DEF VersionsOk
      <3>2. CASE q = P(t)
        <4>1. Publishing(t)'
          BY <2>1 DEF Publishing
        <4>2. \E u \in Threads : P(u)' = q /\ Publishing(u)'
          BY <3>2, <4>1 DEF P
        <4> QED BY <2>0, <3>1, <4>2 DEF ProcessOk, Serving, VersionOf
      <3>3. CASE q # P(t)
        <4>1. \A u \in Threads : P(u) = q => (Publishing(u)' <=> Publishing(u))
          BY <3>3, <2>2 DEF Publishing
        <4> QED BY <2>0, <2>4, <3>1, <3>3, <4>1 DEF ProcessOk, Serving, VersionOf, P
      <3> QED BY <3>2, <3>3
    <2>6. \A u \in Threads : PublicationOk(u)'
      <3> SUFFICES ASSUME NEW u \in Threads PROVE PublicationOk(u)'
        OBVIOUS
      <3>1. PublicationOk(u) /\ P(u) \in Procs
        BY ProcessAssumption DEF VersionsOk, P
      <3>2. CASE u = t
        <4>1. Serving(P(t)) => snap[P(t)].stamp <= file.stamp
          BY <1>p DEF VersionsOk, ProcessOk, VersionOf
        <4> QED BY <1>f, <2>0, <2>1, <3>2, <4>1 DEF PublicationOk, Publishing, VersionOf, Serving, P
      <3>3. CASE u # t /\ P(u) = P(t)
        BY <2>2, <2>3, <3>3 DEF PublicationOk, Publishing, Holding
      <3>4. CASE u # t /\ P(u) # P(t)
        BY <2>0, <2>2, <2>4, <3>1, <3>4 DEF PublicationOk, Publishing, VersionOf, Serving, P
      <3> QED BY <3>2, <3>3, <3>4
    <2> QED BY <2>5, <2>6 DEF VersionsOk
  <1>3. CASE PublishSnapshot(t)
    <2> DEFINE r == Given(old, old.content.content)
    <2>0. old.pc = "publish" /\ old.content \in LanguageModelSnapshot
      BY <1>3, <1>a DEF PublishSnapshot, At, WellFormed
    <2>1. r.pc \notin {"read", "publish", "replaced"}
      BY <1>a, <2>0, SnapshotsServed, GivenWellFormed
    <2>2. th' = [th EXCEPT ![t] = r]
      BY <1>3 DEF PublishSnapshot, Return
    <2> HIDE DEF r
    <2>3. /\ snap' = [snap EXCEPT ![P(t)] = old.content]
          /\ observed' = [observed EXCEPT ![P(t)] = Signature]
          /\ UNCHANGED <<file, missed>>
          /\ reloadError' = [reloadError EXCEPT ![P(t)] = FALSE]
      BY <1>3 DEF PublishSnapshot
    <2>4. Publishing(t)
      BY <2>0 DEF Publishing
    <2> QED BY <2>1, <2>2, <2>3, <2>4, PublishVersions
  <1>4. CASE RefuseReload(t)
    <2> DEFINE r == Given(old, snap[P(t)].content)
    <2>0. /\ old.pc = "read" /\ Serving(P(t)) /\ old.sig \in Signatures
          /\ UNCHANGED <<file, snap, missed>>
          /\ observed' = [observed EXCEPT ![P(t)] = old.sig]
          /\ reloadError' = [reloadError EXCEPT ![P(t)] = TRUE]
      BY <1>4, <1>a DEF RefuseReload, At, WellFormed
    <2>1. r.pc \notin {"read", "publish", "replaced"}
      BY <1>a, <1>s, <2>0, GivenWellFormed
    <2>2. th' = [th EXCEPT ![t] = r]
      BY <1>4 DEF RefuseReload, Return
    <2> HIDE DEF r
    <2>3. th'[t] = r /\ \A u \in Threads : u # t => th'[u] = th[u]
      BY <2>2 DEF TypeOK
    <2>4. old.sig[1] <= file.stamp
      BY <2>0 DEF VersionsOk, PublicationOk
    <2>5. observed'[P(t)] = old.sig /\ reloadError'[P(t)] = TRUE
      BY <2>0, <1>p DEF TypeOK
    <2>6. \A q \in Procs : q # P(t) => observed'[q] = observed[q] /\ reloadError'[q] = reloadError[q]
      BY <2>0 DEF TypeOK
    <2>7. \A q \in Procs : ProcessOk(q)'
      <3> SUFFICES ASSUME NEW q \in Procs PROVE ProcessOk(q)'
        OBVIOUS
      <3>1. ProcessOk(q)
        BY DEF VersionsOk
      <3>2. CASE q = P(t)
        BY <2>0, <2>4, <2>5, <3>1, <3>2 DEF ProcessOk, Serving, VersionOf
      <3>3. CASE q # P(t)
        <4>1. \A u \in Threads : P(u) = q => (Publishing(u)' <=> Publishing(u))
          BY <3>3, <2>3 DEF Publishing
        <4> QED BY <2>0, <2>6, <3>1, <3>3, <4>1 DEF ProcessOk, Serving, VersionOf, P
      <3> QED BY <3>2, <3>3
    <2>8. \A u \in Threads : PublicationOk(u)'
      <3> SUFFICES ASSUME NEW u \in Threads PROVE PublicationOk(u)'
        OBVIOUS
      <3>1. PublicationOk(u)
        BY DEF VersionsOk
      <3>2. CASE u = t
        BY <2>1, <2>3, <3>2 DEF PublicationOk, Publishing
      <3>3. CASE u # t
        BY <2>0, <2>3, <3>1, <3>3 DEF PublicationOk, Publishing, VersionOf, Serving, P
      <3> QED BY <3>2, <3>3
    <2> QED BY <2>7, <2>8 DEF VersionsOk
  <1>5. CASE RefuseBoot(t)
    BY <1>5, <1>i, QuietVersions DEF RefuseBoot, At, Publishing
  <1>6. CASE Boot(t)
    <2> DEFINE r == [old EXCEPT !.pc = "read", !.for = "boot", !.sig = Signature]
    <2>1. r.pc = "read" /\ r.sig = Signature
      BY <1>a DEF WellFormed, Thread
    <2>2. /\ th' = [th EXCEPT ![t] = r] /\ ~Publishing(t)
          /\ UNCHANGED <<file, snap, observed, reloadError, missed>>
      BY <1>6 DEF Boot, At, Publishing, TypeOK
    <2>3. r.sig[1] <= file.stamp
      BY <1>f, <2>1
    <2> HIDE DEF r
    <2> QED BY <2>1, <2>2, <2>3, QuietVersions
  <1> QED BY <1>1, <1>2, <1>3, <1>4, <1>5, <1>6

\* The other steps of the requests.
LEMMA RequestVersions ==
  ASSUME TypeOK, ThreadsOk, VersionsOk, NEW t \in Threads,
         \/ Request(t) \/ Retrieved(t) \/ Answered(t) \/ Activated(t)
         \/ BuildCandidate(t) \/ RefuseEdit(t) \/ LockFile(t) \/ LockRegistry(t)
         \/ Compare(t) \/ AbandonReplace(t)
  PROVE  VersionsOk'
  <1>a. WellFormed(th[t]) /\ th[t] \in Thread
    BY DEF ThreadsOk, WellFormed
  <1>i. Idle.pc = "idle"
    BY DEF Idle
  <1>j. Idle \in Thread
    BY IdleWellFormed DEF WellFormed
  <1>q. ASSUME NEW r, th' = [th EXCEPT ![t] = r],
               r.pc \notin {"read", "publish", "replaced"}, ~Publishing(t),
               UNCHANGED <<file, snap, observed, reloadError, missed>>
        PROVE  VersionsOk'
    BY <1>q, QuietVersions
  <1>1. CASE Chat(t)
    <2>1. [Idle EXCEPT !.pc = "call", !.for = "pin", !.choice = selected].pc = "call"
      BY <1>j DEF Thread
    <2> QED BY <1>1, <1>q, <2>1 DEF Chat, Arrive, At, Publishing
  <1>2. CASE ActivateModel(t)
    <2> PICK k \in Choices : Arrive(t, [Idle EXCEPT !.pc = "call", !.for = "activate", !.choice = k])
      BY <1>2 DEF ActivateModel
    <2>1. [Idle EXCEPT !.pc = "call", !.for = "activate", !.choice = k].pc = "call"
      BY <1>j DEF Thread
    <2> QED BY <1>q, <2>1 DEF Arrive, At, Publishing
  <1>3. CASE ViewModels(t)
    <2>1. [Idle EXCEPT !.pc = "call", !.for = "view"].pc = "call"
      BY <1>j DEF Thread
    <2> QED BY <1>3, <1>q, <2>1 DEF ViewModels, Arrive, At, Publishing
  <1>4. CASE SubmitEdit(t)
    <2> PICK op \in Ops, page \in pages :
               th' = [th EXCEPT ![t] = [Idle EXCEPT !.pc = "call", !.for = "edit",
                                                    !.op = op, !.page = page]]
      BY <1>4 DEF SubmitEdit
    <2>1. [Idle EXCEPT !.pc = "call", !.for = "edit", !.op = op, !.page = page].pc = "call"
      BY <1>j DEF Thread
    <2>2. ~Publishing(t) /\ UNCHANGED <<file, snap, observed, reloadError, missed>>
      BY <1>4 DEF SubmitEdit, At, Publishing
    <2> QED BY <1>q, <2>1, <2>2
  <1>5. CASE Retrieved(t)
    <2>1. ~Publishing(t) /\ UNCHANGED <<file, snap, observed, reloadError, missed>>
      BY <1>5 DEF Retrieved, At, Publishing
    <2>2. CASE th' = [th EXCEPT ![t].pc = "generate", ![t].used = th[t].pinned]
      <3>1. [th[t] EXCEPT !.pc = "generate", !.used = th[t].pinned].pc = "generate"
        BY <1>a DEF Thread
      <3>2. th' = [th EXCEPT ![t] = [th[t] EXCEPT !.pc = "generate", !.used = th[t].pinned]]
        BY <2>2 DEF TypeOK
      <3> QED BY <1>q, <2>1, <3>1, <3>2
    <2>3. CASE \E choice \in {th[t].choice, selected} :
                 th' = [th EXCEPT ![t].pc = "call", ![t].for = "stream", ![t].choice = choice]
      <3> PICK choice : th' = [th EXCEPT ![t].pc = "call", ![t].for = "stream", ![t].choice = choice]
        BY <2>3
      <3>1. [th[t] EXCEPT !.pc = "call", !.for = "stream", !.choice = choice].pc = "call"
        BY <1>a DEF Thread
      <3>2. th' = [th EXCEPT ![t] = [th[t] EXCEPT !.pc = "call", !.for = "stream", !.choice = choice]]
        BY DEF TypeOK
      <3> QED BY <1>q, <2>1, <3>1, <3>2
    <2> QED BY <1>5, <2>2, <2>3 DEF Retrieved
  <1>6. CASE Answered(t)
    BY <1>6, <1>i, <1>q DEF Answered, At, Publishing
  <1>7. CASE Activated(t)
    BY <1>7, <1>i, <1>q DEF Activated, At, Publishing
  <1>8. CASE BuildCandidate(t)
    <2>1. ~Publishing(t) /\ UNCHANGED <<file, snap, observed, reloadError, missed>>
      BY <1>8 DEF BuildCandidate, At, Publishing
    <2>2. \E x, y : \/ th' = [th EXCEPT ![t] = [th[t] EXCEPT !.pc = "flock", !.token = x, !.content = y]]
                    \/ th' = [th EXCEPT ![t] = Idle]
      <3> DEFINE new == th[t].op.kind \in {"create", "update"} /\ th[t].op.auth = "new"
                 token == [key |-> key', n |-> tokens']
                 x == IF new THEN token ELSE None
                 candidate == Edited(th[t].op, th[t].base, token)
                 y == [stamp |-> 0, content |-> candidate]
      <3>1. th' = [th EXCEPT ![t] = IF Valid(candidate)
                     THEN [th[t] EXCEPT !.pc = "flock", !.token = x, !.content = y]
                     ELSE Idle]
        BY <1>8 DEF BuildCandidate
      <3> HIDE DEF x, y, candidate
      <3> QED BY <3>1
    <2> PICK x, y : \/ th' = [th EXCEPT ![t] = [th[t] EXCEPT !.pc = "flock", !.token = x, !.content = y]]
                    \/ th' = [th EXCEPT ![t] = Idle]
      BY <2>2
    <2>3. [th[t] EXCEPT !.pc = "flock", !.token = x, !.content = y].pc = "flock"
      BY <1>a DEF Thread
    <2> QED BY <1>i, <1>q, <2>1, <2>3
  <1>9. CASE RefuseEdit(t)
    BY <1>9, <1>i, <1>q DEF RefuseEdit, At, Publishing
  <1>m. \A pc \in Step : [th[t] EXCEPT !.pc = pc].pc = pc
    BY <1>a DEF Thread
  <1>n. \A pc \in Step : [th EXCEPT ![t].pc = pc] = [th EXCEPT ![t] = [th[t] EXCEPT !.pc = pc]]
    BY DEF TypeOK
  <1>10. CASE LockFile(t)
    <2>1. "mutex" \in Step BY DEF Step
    <2> QED BY <1>10, <1>q, <1>m, <1>n, <2>1 DEF LockFile, At, Publishing
  <1>11. CASE LockRegistry(t)
    <2>1. "compare" \in Step BY DEF Step
    <2> QED BY <1>11, <1>q, <1>m, <1>n, <2>1 DEF LockRegistry, At, Publishing
  <1>12. CASE Compare(t)
    <2>1. "write" \in Step BY DEF Step
    <2> QED BY <1>12, <1>q, <1>m, <1>n, <2>1 DEF Compare, At, Publishing
  <1>13. CASE AbandonReplace(t)
    BY <1>13, <1>i, <1>q DEF AbandonReplace, LeaveReplace, At, Publishing
  <1> QED BY <1>1, <1>2, <1>3, <1>4, <1>5, <1>6, <1>7, <1>8, <1>9, <1>10, <1>11,
             <1>12, <1>13 DEF Request

\* Writes of the file, publication of an edit, and the environment.
LEMMA WritingVersions ==
  ASSUME TypeOK, ThreadsOk, VersionsOk,
         \/ \E t \in Threads : WriteFile(t) \/ WriteFileThenFail(t) \/ PublishEdit(t)
         \/ EditByHand \/ LoseKey \/ RestoreKey \/ \E p \in Procs : Crash(p)
  PROVE  VersionsOk'
  <1>i. Idle.pc = "idle"
    BY DEF Idle
  <1>1. ASSUME NEW t \in Threads, WriteFile(t) \/ WriteFileThenFail(t)
        PROVE  VersionsOk'
    <2>p. P(t) \in Procs
      BY ProcessAssumption DEF P
    <2>0. th[t].pc = "write" /\ th[t] \in Thread
      BY <1>1 DEF WriteFile, WriteFileThenFail, At, TypeOK
    <2>1. file'.stamp = file.stamp + 1 /\ UNCHANGED <<snap, observed, reloadError>>
      BY <1>1 DEF WriteFile, WriteFileThenFail, ReplaceFile
    <2>2. \A q \in Procs \ {P(t)} : missed'[q] = MissedByReaders[q]
      BY <1>1 DEF WriteFile, WriteFileThenFail, ReplaceFile, MissedByReaders
    <2>3. \A u \in Threads : u # t => th'[u] = th[u]
      BY <1>1 DEF WriteFile, WriteFileThenFail, LeaveReplace, TypeOK
    <2>4. th'[t].pc # "read" /\ (Publishing(t)' => th'[t].content = file')
      <3>1. CASE WriteFile(t)
        BY <2>0, <3>1 DEF WriteFile, TypeOK, Thread
      <3>2. CASE WriteFileThenFail(t)
        BY <1>i, <3>2 DEF WriteFileThenFail, LeaveReplace, TypeOK, Publishing
      <3> QED BY <1>1, <3>1, <3>2
    <2>5. \A u \in Threads : u # t /\ P(u) = P(t) => ~Holding(u)
      BY <2>0, OthersWait DEF Holding
    <2>6. \A u \in Threads : P(u) \in {P(t)} =>
            th'[u].pc # "read" /\ (Publishing(u)' => th'[u].content = file')
      BY <2>3, <2>4, <2>5 DEF Publishing, Holding
    <2>7. \A u \in Threads : P(u) \notin {P(t)} => th'[u] = th[u]
      BY <2>3
    <2> QED BY <2>p, <2>1, <2>2, <2>6, <2>7, WriteVersions
  <1>2. ASSUME NEW t \in Threads, PublishEdit(t) PROVE VersionsOk'
    <2>1. /\ th' = [th EXCEPT ![t] = Idle] /\ Publishing(t)
          /\ snap' = [snap EXCEPT ![P(t)] = th[t].content]
          /\ observed' = [observed EXCEPT ![P(t)] = Signature]
          /\ UNCHANGED <<file, missed>>
          /\ reloadError' = [reloadError EXCEPT ![P(t)] = FALSE]
      BY <1>2 DEF PublishEdit, LeaveReplace, At, Publishing
    <2> QED BY <1>i, <2>1, PublishVersions
  <1>3. CASE EditByHand
    <2>1. file'.stamp = file.stamp + 1 /\ UNCHANGED <<snap, observed, reloadError, th>>
      BY <1>3 DEF EditByHand
    <2>2. \A q \in Procs : missed'[q] = MissedByReaders[q]
      BY <1>3 DEF EditByHand
    <2>3. {} \in SUBSET Procs
      OBVIOUS
    <2> QED BY <2>1, <2>2, <2>3, WriteVersions
  <1>4. CASE LoseKey \/ RestoreKey
    <2>1. UNCHANGED <<file, snap, observed, reloadError, missed, th>>
      BY <1>4 DEF LoseKey, RestoreKey
    <2> QED BY <2>1 DEF VersionsOk, ProcessOk, PublicationOk, VersionOf, Publishing, Serving, P
  <1>5. ASSUME NEW p \in Procs, Crash(p) PROVE VersionsOk'
    <2>1. /\ file' = file /\ snap'[p] = None
          /\ \A q \in Procs : q # p => /\ snap'[q] = snap[q] /\ observed'[q] = observed[q]
                                       /\ reloadError'[q] = reloadError[q] /\ missed'[q] = missed[q]
      BY <1>5 DEF Crash, TypeOK
    <2>2. \A u \in Threads : IF P(u) = p THEN th'[u] = Idle ELSE th'[u] = th[u]
      BY <1>5 DEF Crash
    <2>3. \A q \in Procs : ProcessOk(q)'
      <3> SUFFICES ASSUME NEW q \in Procs PROVE ProcessOk(q)'
        OBVIOUS
      <3>1. ProcessOk(q)
        BY DEF VersionsOk
      <3>2. CASE q = p
        BY <2>1, <3>2 DEF ProcessOk, Serving
      <3>3. CASE q # p
        <4>1. \A u \in Threads : P(u) = q => (Publishing(u)' <=> Publishing(u))
          BY <3>3, <2>2 DEF Publishing
        <4> QED BY <2>1, <3>1, <3>3, <4>1 DEF ProcessOk, Serving, VersionOf, P
      <3> QED BY <3>2, <3>3
    <2>4. \A u \in Threads : PublicationOk(u)'
      <3> SUFFICES ASSUME NEW u \in Threads PROVE PublicationOk(u)'
        OBVIOUS
      <3>1. PublicationOk(u) /\ P(u) \in Procs
        BY ProcessAssumption DEF VersionsOk, P
      <3>2. CASE P(u) = p
        <4>1. th'[u].pc = "idle"
          BY <1>i, <2>2, <3>2
        <4> QED BY <4>1 DEF PublicationOk, Publishing
      <3>3. CASE P(u) # p
        <4>1. th'[u] = th[u]
          BY <2>2, <3>3
        <4> QED BY <2>1, <3>1, <3>3, <4>1 DEF PublicationOk, Publishing, VersionOf, Serving, P
      <3> QED BY <3>2, <3>3
    <2> QED BY <2>3, <2>4 DEF VersionsOk
  <1> QED BY <1>1, <1>2, <1>3, <1>4, <1>5

LEMMA InitVersions == Init => VersionsOk
  BY DEF Init, Idle, VersionsOk, ProcessOk, PublicationOk, Publishing, Serving

LEMMA StepKeepsVersions ==
  TypeOK /\ ThreadsOk /\ VersionsOk /\ [Next]_vars => VersionsOk'
  <1> SUFFICES ASSUME TypeOK, ThreadsOk, VersionsOk, [Next]_vars PROVE VersionsOk'
    OBVIOUS
  <1>1. ASSUME NEW t \in Threads, Progress(t) \/ Request(t) \/ Boot(t)
        PROVE  VersionsOk'
    BY <1>1, ReloadVersions, RequestVersions, WritingVersions DEF Progress
  <1>2. CASE UNCHANGED vars
    BY <1>2 DEF vars, VersionsOk, ProcessOk, PublicationOk, VersionOf, Publishing, Serving, P
  <1> QED BY <1>1, <1>2, WritingVersions DEF Next

LEMMA RegistryInvariant == Spec => [](TypeOK /\ ThreadsOk /\ VersionsOk)
  BY InitTyped, InitVersions, StepKeepsTypes, StepKeepsVersions, PTL DEF Spec

\* No process serves an endpoint configuration the file has not held.
THEOREM ServedFromFile == Spec => []ServesTheFile
  <1>1. VersionsOk => ServesTheFile
    BY DEF VersionsOk, ProcessOk, VersionOf, ServesTheFile
  <1> QED BY <1>1, RegistryInvariant, PTL

\* The only way a process can serve an old file without reporting it is a write
\* between its read and its stat.
THEOREM StaleIsMissed == Spec => []StaleOnlyIfMissed
  <1>1. TypeOK /\ ThreadsOk /\ VersionsOk => StaleOnlyIfMissed
    <2> SUFFICES ASSUME TypeOK, ThreadsOk, VersionsOk, NEW p \in Procs, Serving(p),
                        mutex[p] = None, observed[p] = Signature, ~reloadError[p]
                 PROVE  snap[p].stamp = file.stamp \/ missed[p]
      BY DEF StaleOnlyIfMissed
    <2>1. \A t \in Threads : P(t) = p => ~Publishing(t)
      BY ProcessAssumption DEF ThreadsOk, MutexHeld, Holding, Publishing
    <2>2. observed[p][1] = file.stamp
      BY SignatureStamp
    <2> QED BY <2>1, <2>2 DEF VersionsOk, ProcessOk
  <1> QED BY <1>1, RegistryInvariant, PTL

\* A running process never goes back to an older version of the file.
THEOREM MovesForward == Spec => SnapshotsMoveForward
  <1> DEFINE Forward == \A p \in Procs : snap[p] # None /\ snap'[p] # None
                          => snap[p].stamp <= snap'[p].stamp
  <1>1. TypeOK /\ ThreadsOk /\ VersionsOk /\ [Next]_vars => [Forward]_vars
    <2> SUFFICES ASSUME TypeOK, ThreadsOk, VersionsOk, Next PROVE Forward
      OBVIOUS
    <2>s. \A p \in Procs : snap[p] # None => snap[p].stamp \in Nat
      BY DEF TypeOK, LanguageModelSnapshot
    <2>1. ASSUME snap' = snap PROVE Forward
      BY <2>1, <2>s
    <2>2. ASSUME NEW t \in Threads, PublishSnapshot(t) \/ PublishEdit(t) PROVE Forward
      <3>1. Publishing(t) /\ snap' = [snap EXCEPT ![P(t)] = th[t].content]
        BY <2>2 DEF PublishSnapshot, PublishEdit, At, Publishing
      <3>2. Serving(P(t)) => snap[P(t)].stamp <= th[t].content.stamp
        BY <3>1 DEF VersionsOk, PublicationOk
      <3> QED BY <2>s, <3>1, <3>2 DEF Serving, TypeOK
    <2>3. ASSUME NEW p \in Procs, Crash(p) PROVE Forward
      BY <2>s, <2>3 DEF Crash, TypeOK
    <2>4. ASSUME NEW t \in Threads, Progress(t) \/ Request(t) \/ Boot(t),
                 ~PublishSnapshot(t), ~PublishEdit(t)
          PROVE  snap' = snap
      BY <2>4 DEF Progress, Request, Boot, Chat, ActivateModel, ViewModels, Arrive,
         SubmitEdit, Retrieved, Answered, Activated, Snapshot, ReadSnapshot,
         RefuseReload, RefuseBoot, BuildCandidate, RefuseEdit, LockFile,
         LockRegistry, Compare, AbandonReplace, WriteFile, WriteFileThenFail
    <2>5. EditByHand \/ LoseKey \/ RestoreKey => snap' = snap
      BY DEF EditByHand, LoseKey, RestoreKey
    <2> QED BY <2>1, <2>2, <2>3, <2>4, <2>5 DEF Next
  <1> QED BY <1>1, RegistryInvariant, PTL DEF Spec, SnapshotsMoveForward

-----------------------------------------------------------------------------
(* Edits: what an administrator was shown, and the file's past.            *)

\* A version that is not the file's has its content in the past.
Recorded(s) == s.stamp = file.stamp \/ s.content \in past

\* What process p serves or is about to serve is the version the file is at.
Current(p) ==
  /\ Serving(p) => snap[p].stamp = file.stamp
  /\ \A u \in Threads : P(u) = p /\ Publishing(u) => th[u].content.stamp = file.stamp

\* A page shows a content of the past, or the file and its process are still at
\* what it shows.
PageOk(g) == \/ g.content \in past
             \/ g.content = file.content /\ Current(g.proc)

\* The thread carries an edit of a page; it has made its candidate.
Shown(r) == \/ r.pc \in {"build", "flock", "mutex", "compare", "write"}
            \/ r.pc \in {"call", "read", "publish"} /\ r.for = "edit"
Made(r) == r.pc \in {"flock", "mutex", "compare", "write"}

\* The candidate is the one edit, made of what the page shows unless that is of
\* the past or the process was behind the page's.
EditOk(t) ==
  /\ Shown(th[t]) => th[t].page \in pages
  /\ th[t].pc = "build" \/ Made(th[t]) =>
       /\ th[t].base \in Configuration
       /\ \/ th[t].page.content \in past \/ th[t].base = th[t].page.content
          \/ t \in behind
  /\ Made(th[t]) => th[t].content.content = Edited(th[t].op, th[t].base, th[t].token)
  /\ th[t].pc \in {"mutex", "compare", "write", "replaced"} => flock = t
  /\ th[t].pc = "write" /\ t \notin overtaken => file.content = th[t].page.content

PastOk ==
  /\ \A p \in Procs : Serving(p) => Recorded(snap[p])
  /\ \A t \in Threads : Publishing(t) => Recorded(th[t].content)
  /\ \A g \in pages : PageOk(g)
  /\ \A t \in Threads : EditOk(t)

RegistryInv == TypeOK /\ ThreadsOk /\ VersionsOk

\* The file stays, or what it held joins its past.
FileMoves == UNCHANGED <<file, past>> \/ past' = past \cup {file.content}

LEMMA RecordedStays ==
  ASSUME FileMoves, NEW s, VersionOf(s), Recorded(s)
  PROVE  s.stamp = file'.stamp \/ s.content \in past'
  BY DEF FileMoves, VersionOf, Recorded

\* The snapshot a process serves takes the place of one no newer.
LEMMA NewestStays ==
  ASSUME RegistryInv, NEW p \in Procs, Serving(p), snap[p].stamp = file.stamp,
         NEW s \in LanguageModelSnapshot, snap[p].stamp <= s.stamp, VersionOf(s)
  PROVE  s.stamp = file.stamp /\ s.content = file.content
  <1>1. s.stamp \in Nat /\ file.stamp \in Nat
    BY SnapshotsServed DEF RegistryInv, TypeOK
  <1> QED BY <1>1 DEF VersionOf

\* A page stays in order while its process only loads what is newer, or while the
\* file changes under it.
LEMMA PagesStay ==
  ASSUME RegistryInv, NEW g \in pages, PageOk(g), FileMoves,
         \/ past' = past \cup {file.content}
         \/ /\ snap'[g.proc] \in {snap[g.proc], None} \/ snap'[g.proc].stamp = file.stamp
               \/ \E u \in Threads : /\ P(u) = g.proc /\ Publishing(u)
                                     /\ snap'[g.proc] = th[u].content
            /\ \A u \in Threads : P(u) = g.proc /\ Publishing(u)' =>
                 \/ Publishing(u) /\ th'[u].content = th[u].content
                 \/ th'[u].content.stamp = file.stamp
  PROVE  PageOk(g)'
  <1>1. CASE g.content \in past \/ past' = past \cup {file.content}
    BY <1>1 DEF PageOk, FileMoves
  <1>2. CASE g.content \notin past /\ past' # past \cup {file.content}
    <2>1. UNCHANGED <<file, past>> /\ g.content = file.content /\ Current(g.proc)
      BY <1>2 DEF FileMoves, PageOk
    <2>2. Current(g.proc)'
      BY <1>2, <2>1 DEF Current, Serving, P
    <2> QED BY <2>1, <2>2 DEF PageOk
  <1> QED BY <1>1, <1>2

\* A thread that a step leaves alone keeps its part of the invariant.
LEMMA OthersKeepEdits ==
  ASSUME RegistryInv, NEW u \in Threads, EditOk(u), th'[u] = th[u],
         FileMoves, pages \subseteq pages',
         u \in behind => u \in behind',
         flock = u => flock' = u,
         th[u].pc = "write" => u \in overtaken'
           \/ (file'.content = file.content /\ u \notin overtaken)
  PROVE  EditOk(u)'
  <1>1. past \subseteq past'
    BY DEF FileMoves
  <1>2. th[u].pc = "write" /\ u \notin overtaken' => file'.content = th[u].page.content
    BY DEF EditOk
  <1> QED BY <1>1, <1>2 DEF EditOk, Shown, Made

\* A step of one thread that leaves the file and the snapshots alone.
LEMMA QuietEdits ==
  ASSUME RegistryInv, PastOk, NEW t \in Threads, NEW r,
         th' = [th EXCEPT ![t] = r],
         UNCHANGED <<file, past, snap>>, pages \subseteq pages',
         \A g \in pages' \ pages : PageOk(g)',
         \A u \in Threads : u # t => /\ flock = u => flock' = u
                                     /\ u \in overtaken <=> u \in overtaken'
                                     /\ u \in behind => u \in behind',
         r.pc \in {"publish", "replaced"} => r.content = file,
         EditOk(t)'
  PROVE  PastOk'
  <1>1. th'[t] = r /\ \A u \in Threads : u # t => th'[u] = th[u]
    BY DEF RegistryInv, TypeOK
  <1>2. \A u \in Threads : EditOk(u)'
    <2> SUFFICES ASSUME NEW u \in Threads, u # t PROVE EditOk(u)'
      OBVIOUS
    <2> QED BY <1>1, OthersKeepEdits DEF PastOk, FileMoves
  <1>3. \A u \in Threads : Publishing(u)' => Recorded(th[u].content)'
    BY <1>1 DEF PastOk, Publishing, Recorded
  <1>4. \A p \in Procs : Serving(p)' => Recorded(snap[p])'
    BY DEF PastOk, Serving, Recorded
  <1>5. \A g \in pages' : PageOk(g)'
    <2> SUFFICES ASSUME NEW g \in pages PROVE PageOk(g)'
      OBVIOUS
    <2>1. \A u \in Threads : Publishing(u)' => \/ Publishing(u) /\ th'[u].content = th[u].content
                                              \/ th'[u].content.stamp = file.stamp
      BY <1>1 DEF Publishing
    <2> QED BY <2>1, PagesStay DEF PastOk, FileMoves
  <1> QED BY <1>2, <1>3, <1>4, <1>5 DEF PastOk

\* A thread publishes the snapshot it read or wrote.
LEMMA PublishEdits ==
  ASSUME RegistryInv, PastOk, NEW t \in Threads, NEW r,
         Publishing(t), th' = [th EXCEPT ![t] = r],
         UNCHANGED <<file, past, overtaken>>, pages \subseteq pages',
         \A g \in pages' \ pages : PageOk(g)',
         snap' = [snap EXCEPT ![P(t)] = th[t].content],
         \A u \in Threads : u # t => /\ flock = u => flock' = u
                                     /\ u \in behind => u \in behind',
         r.pc \notin {"publish", "replaced"},
         EditOk(t)'
  PROVE  PastOk'
  <1>p. P(t) \in Procs
    BY ProcessAssumption DEF P
  <1>1. th'[t] = r /\ \A u \in Threads : u # t => th'[u] = th[u]
    BY DEF RegistryInv, TypeOK
  <1>2. /\ snap'[P(t)] = th[t].content
        /\ \A q \in Procs : q # P(t) => snap'[q] = snap[q]
    BY <1>p DEF RegistryInv, TypeOK
  <1>3. \A u \in Threads : EditOk(u)'
    <2> SUFFICES ASSUME NEW u \in Threads, u # t PROVE EditOk(u)'
      OBVIOUS
    <2>1. th[u].pc = "write" => u \in overtaken'
            \/ (file'.content = file.content /\ u \notin overtaken)
      OBVIOUS
    <2> QED BY <1>1, <2>1, OthersKeepEdits DEF PastOk, FileMoves
  <1>4. \A u \in Threads : Publishing(u)' => Recorded(th[u].content)'
    BY <1>1 DEF PastOk, Publishing, Recorded
  <1>5. \A p \in Procs : Serving(p)' => Recorded(snap[p])'
    BY <1>2 DEF PastOk, Serving, Recorded
  <1>6. \A g \in pages' : PageOk(g)'
    <2> SUFFICES ASSUME NEW g \in pages PROVE PageOk(g)'
      OBVIOUS
    <2>1. g.proc \in Procs
      BY DEF RegistryInv, TypeOK, Page
    <2>2. \/ snap'[g.proc] = snap[g.proc]
          \/ P(t) = g.proc /\ snap'[g.proc] = th[t].content
      BY <1>2, <2>1
    <2>3. \A u \in Threads : Publishing(u)' => Publishing(u) /\ th'[u].content = th[u].content
      BY <1>1 DEF Publishing
    <2> QED BY <2>2, <2>3, PagesStay DEF PastOk, FileMoves
  <1> QED BY <1>3, <1>4, <1>5, <1>6 DEF PastOk

\* A page that shows the snapshot its process serves is in order.
LEMMA ShownPage ==
  ASSUME NEW t \in Threads, NEW s, VersionOf(s), Recorded(s), snap'[P(t)] = s,
         UNCHANGED <<file, past>>,
         \A u \in Threads : P(u) = P(t) => ~Publishing(u)',
         ShowPage(t, s.content)
  PROVE  pages \subseteq pages' /\ \A g \in pages' \ pages : PageOk(g)'
  <1> DEFINE g == [proc |-> P(t), content |-> s.content]
  <1>1. pages' = pages \cup {g}
    BY DEF ShowPage
  <1>2. g.proc = P(t) /\ g.content = s.content
    OBVIOUS
  <1> HIDE DEF g
  <1>3. PageOk(g)'
    <2>1. CASE s.content \in past
      BY <1>2, <2>1 DEF PageOk
    <2>2. CASE s.stamp = file.stamp
      <3>1. Current(P(t))'
        BY <2>2 DEF Current, P
      <3> QED BY <1>2, <2>2, <3>1 DEF PageOk, VersionOf, P
    <2> QED BY <2>1, <2>2 DEF Recorded
  <1> QED BY <1>1, <1>3

\* The caller of snapshot() goes on: an edit is made of c.
LEMMA GivenEdit ==
  ASSUME NEW old, WellFormed(old), old.pc \in {"call", "read", "publish"}, NEW c
  PROVE  LET r == Given(old, c) IN
           /\ r.pc = "build" => old.for = "edit" /\ r.base = c /\ r.page = old.page
           /\ r.pc \in {"idle", "build", "retrieve", "generate", "check"}
  BY DEF Given, Idle, WellFormed, Thread, Purpose

\* The base of an edit is what its page shows: its own process serves nothing
\* older, and another one does only if it has missed a write or refused the file.
LEMMA GivenEditOk ==
  ASSUME RegistryInv, PastOk, NEW t \in Threads,
         th[t].pc \in {"call", "read", "publish"},
         NEW s \in LanguageModelSnapshot, VersionOf(s), NEW b \in BOOLEAN,
         Return(t, s.content, b), pages \subseteq pages', UNCHANGED <<file, past>>,
         Current(P(t)) /\ th[t].for = "edit" => s.stamp = file.stamp,
         s.stamp = file.stamp \/ missed[P(t)] = TRUE \/ b = TRUE
  PROVE  EditOk(t)'
  <1> DEFINE r == Given(th[t], s.content)
  <1>1. WellFormed(th[t]) /\ s.content \in Configuration /\ EditOk(t)
    BY SnapshotsServed DEF RegistryInv, ThreadsOk, Served, PastOk
  <1>2. /\ r.pc = "build" => /\ th[t].for = "edit" /\ r.base = s.content
                             /\ r.page = th[t].page
        /\ r.pc \in {"idle", "build", "retrieve", "generate", "check"}
    BY <1>1, GivenEdit
  <1>3. th'[t] = r
    BY DEF Return, RegistryInv, TypeOK
  <1> HIDE DEF r
  <1>4. CASE r.pc = "build"
    <2>1. th[t].page \in pages /\ PageOk(th[t].page)
      BY <1>1, <1>2, <1>4 DEF EditOk, Shown, PastOk
    <2>2. \/ th[t].page.content \in past \/ s.content = th[t].page.content
          \/ t \in behind'
      <3>1. CASE s.stamp = file.stamp
        BY <2>1, <3>1 DEF PageOk, VersionOf
      <3>2. CASE th[t].page.proc = P(t)
        BY <1>2, <1>4, <2>1, <3>2 DEF PageOk, VersionOf
      <3>3. CASE s.stamp # file.stamp /\ th[t].page.proc # P(t)
        BY <1>2, <1>4, <3>3 DEF Return
      <3> QED BY <3>1, <3>2, <3>3
    <2> QED BY <1>1, <1>2, <1>3, <1>4, <2>1, <2>2 DEF EditOk, Shown, Made
  <1>5. CASE r.pc # "build"
    BY <1>2, <1>3, <1>5 DEF EditOk, Shown, Made
  <1> QED BY <1>4, <1>5

LEMMA ReloadEdits ==
  ASSUME RegistryInv, PastOk, NEW t \in Threads,
         Snapshot(t) \/ ReadSnapshot(t) \/ PublishSnapshot(t)
           \/ RefuseReload(t) \/ RefuseBoot(t) \/ Boot(t)
  PROVE  PastOk'
  <1> DEFINE old == th[t]
  <1>a. WellFormed(old) /\ old \in Thread /\ EditOk(t)
    BY DEF RegistryInv, ThreadsOk, WellFormed, PastOk
  <1>b. old.pc # "idle" /\ old.for # "boot" => Serving(P(t))
    BY DEF RegistryInv, ThreadsOk, RequestsServed
  <1>p. P(t) \in Procs
    BY ProcessAssumption DEF P
  <1>s. Serving(P(t)) => /\ snap[P(t)] \in LanguageModelSnapshot
                         /\ VersionOf(snap[P(t)]) /\ Recorded(snap[P(t)])
    BY <1>p DEF Serving, RegistryInv, TypeOK, VersionsOk, ProcessOk, PastOk
  <1>u. UNCHANGED <<file, past, overtaken, flock>>
    BY DEF Snapshot, ReadSnapshot, PublishSnapshot, RefuseReload, RefuseBoot, Boot, history
  \* A thread given the snapshot that its process serves already.
  <1>g. ASSUME NEW b \in BOOLEAN, old.pc \in {"call", "read"}, Serving(P(t)), snap' = snap,
               Return(t, snap[P(t)].content, b),
               \A u \in Threads : P(u) = P(t) => ~Publishing(u),
               snap[P(t)].stamp = file.stamp \/ missed[P(t)] = TRUE \/ b = TRUE
        PROVE  PastOk'
    <2> DEFINE r == Given(old, snap[P(t)].content)
    <2>1. th' = [th EXCEPT ![t] = r] /\ \A u \in Threads : th'[u] = IF u = t THEN r ELSE th[u]
      BY <1>g DEF Return, RegistryInv, TypeOK
    <2>2. r.pc \notin {"publish", "replaced"}
      BY <1>a, <1>g, GivenEdit
    <2> HIDE DEF r
    <2>3. \A u \in Threads : P(u) = P(t) => ~Publishing(u)'
      BY <1>g, <2>1, <2>2 DEF Publishing
    <2>4. pages \subseteq pages' /\ \A g \in pages' \ pages : PageOk(g)'
      <3>1. CASE ShowPage(t, snap[P(t)].content)
        BY <1>g, <1>s, <1>u, <2>3, <3>1, ShownPage
      <3> QED BY <1>g, <3>1 DEF Return
    <2>5. EditOk(t)'
      BY <1>g, <1>s, <1>u, <2>4, GivenEditOk DEF Current
    <2>6. \A u \in Threads : u # t => (u \in behind => u \in behind')
      BY <1>g DEF Return
    <2> QED BY <1>g, <1>u, <2>1, <2>2, <2>4, <2>5, <2>6, QuietEdits
  <1>1. CASE Snapshot(t)
    <2>1. /\ old.pc = "call" /\ old.for # "boot" /\ Serving(P(t)) /\ snap' = snap
      BY <1>1, <1>a, <1>b DEF Snapshot, At, WellFormed
    <2>2. CASE Signature = observed[P(t)] /\ Return(t, snap[P(t)].content, reloadError[P(t)])
      <3>1. \A u \in Threads : P(u) = P(t) => ~Publishing(u)
        <4>1. mutex[P(t)] = None
          BY <1>1 DEF Snapshot, MutexFree
        <4> QED BY <4>1, ProcessAssumption DEF RegistryInv, ThreadsOk, MutexHeld, Holding,
                                               Publishing
      <3>2. snap[P(t)].stamp = file.stamp \/ missed[P(t)] = TRUE \/ reloadError[P(t)] = TRUE
        BY <1>p, <2>1, <2>2, <3>1, SignatureStamp DEF RegistryInv, VersionsOk, ProcessOk
      <3>3. reloadError[P(t)] \in BOOLEAN
        BY <1>p DEF RegistryInv, TypeOK
      <3> QED BY <1>g, <2>1, <2>2, <3>1, <3>2, <3>3
    <2>3. CASE /\ th' = [th EXCEPT ![t].pc = "read", ![t].sig = Signature]
               /\ UNCHANGED <<pages, behind>>
      <3> DEFINE r == [old EXCEPT !.pc = "read", !.sig = Signature]
      <3>1. r.pc = "read" /\ r.for = old.for /\ r.page = old.page
        BY <1>a DEF Thread
      <3>2. th' = [th EXCEPT ![t] = r] /\ th'[t] = r
        BY <2>3 DEF RegistryInv, TypeOK
      <3> HIDE DEF r
      <3>3. EditOk(t)'
        BY <1>a, <2>1, <2>3, <3>1, <3>2 DEF EditOk, Shown, Made
      <3> QED BY <1>u, <2>1, <2>3, <3>1, <3>2, <3>3, QuietEdits
    <2> QED BY <1>1, <2>2, <2>3 DEF Snapshot
  <1>2. CASE ReadSnapshot(t)
    <2> DEFINE r == [old EXCEPT !.pc = "publish", !.content = file]
    <2>0. old.pc = "read" /\ UNCHANGED <<snap, pages, behind>>
      BY <1>2 DEF ReadSnapshot, At, browser, history
    <2>1. /\ r.pc = "publish" /\ r.for = old.for /\ r.page = old.page
          /\ r.content = file
      BY <1>a DEF Thread
    <2>2. th' = [th EXCEPT ![t] = r] /\ th'[t] = r
      BY <1>2 DEF ReadSnapshot, RegistryInv, TypeOK
    <2> HIDE DEF r
    <2>3. EditOk(t)'
      BY <1>a, <2>0, <2>1, <2>2 DEF EditOk, Shown, Made
    <2> QED BY <1>u, <2>0, <2>1, <2>2, <2>3, QuietEdits
  <1>3. CASE PublishSnapshot(t)
    <2> DEFINE r == Given(old, old.content.content)
    <2>0. /\ old.pc = "publish" /\ Publishing(t) /\ old.content \in LanguageModelSnapshot
          /\ VersionOf(old.content) /\ Recorded(old.content)
      BY <1>3, <1>a DEF PublishSnapshot, At, WellFormed, Publishing, RegistryInv,
         VersionsOk, PublicationOk, PastOk
    <2>1. /\ th' = [th EXCEPT ![t] = r]
          /\ \A u \in Threads : th'[u] = IF u = t THEN r ELSE th[u]
          /\ snap' = [snap EXCEPT ![P(t)] = old.content] /\ snap'[P(t)] = old.content
      BY <1>3, <1>p DEF PublishSnapshot, Return, RegistryInv, TypeOK
    <2>2. r.pc \notin {"publish", "replaced"}
      BY <1>a, <2>0, GivenEdit
    <2> HIDE DEF r
    <2>3. \A u \in Threads : P(u) = P(t) => ~Publishing(u)'
      <3>1. \A u \in Threads : u # t /\ P(u) = P(t) => ~Publishing(u)
        BY <2>0, OthersWait DEF RegistryInv, Holding, Publishing
      <3> QED BY <2>1, <2>2, <3>1 DEF Publishing
    <2>4. Return(t, old.content.content, FALSE)
      BY <1>3 DEF PublishSnapshot
    <2>5. pages \subseteq pages' /\ \A g \in pages' \ pages : PageOk(g)'
      <3>1. CASE ShowPage(t, old.content.content)
        BY <1>u, <2>0, <2>1, <2>3, <3>1, ShownPage
      <3> QED BY <2>4, <3>1 DEF Return
    <2>6. EditOk(t)'
      <3>1. Current(P(t)) => old.content.stamp = file.stamp
        BY <2>0 DEF Current
      <3>2. old.content.stamp = file.stamp \/ missed[P(t)] = TRUE
        BY <2>0 DEF RegistryInv, VersionsOk, PublicationOk
      <3> QED BY <1>u, <2>0, <2>4, <2>5, <3>1, <3>2, GivenEditOk
    <2>7. \A u \in Threads : u # t => (u \in behind => u \in behind')
      BY <2>4 DEF Return
    <2> QED BY <1>u, <2>0, <2>1, <2>2, <2>5, <2>6, <2>7, PublishEdits
  <1>4. CASE RefuseReload(t)
    <2>1. /\ old.pc = "read" /\ Serving(P(t)) /\ snap' = snap
          /\ Return(t, snap[P(t)].content, TRUE)
      BY <1>4 DEF RefuseReload, At
    <2>2. \A u \in Threads : P(u) = P(t) => ~Publishing(u)
      BY <2>1, OthersWait DEF RegistryInv, Holding, Publishing
    <2> QED BY <1>g, <2>1, <2>2
  <1>5. CASE RefuseBoot(t)
    <2>1. th' = [th EXCEPT ![t] = Idle] /\ th'[t] = Idle /\ Idle.pc = "idle"
          /\ UNCHANGED <<snap, pages, behind>>
      BY <1>5 DEF RefuseBoot, Idle, RegistryInv, TypeOK, browser, history
    <2>2. EditOk(t)'
      BY <2>1 DEF EditOk, Shown, Made
    <2> QED BY <1>u, <2>1, <2>2, QuietEdits
  <1>6. CASE Boot(t)
    <2> DEFINE r == [old EXCEPT !.pc = "read", !.for = "boot", !.sig = Signature]
    <2>1. r.pc = "read" /\ r.for = "boot"
      BY <1>a DEF Thread
    <2>2. th' = [th EXCEPT ![t] = r] /\ th'[t] = r /\ UNCHANGED <<snap, pages, behind>>
      BY <1>6 DEF Boot, RegistryInv, TypeOK, browser, history
    <2> HIDE DEF r
    <2>3. EditOk(t)'
      BY <2>1, <2>2 DEF EditOk, Shown, Made
    <2> QED BY <1>u, <2>1, <2>2, <2>3, QuietEdits
  <1> QED BY <1>1, <1>2, <1>3, <1>4, <1>5, <1>6

\* The other steps of the requests, up to the replacement of the file.
LEMMA RequestEdits ==
  ASSUME RegistryInv, PastOk, NEW t \in Threads,
         \/ Request(t) \/ Retrieved(t) \/ Answered(t) \/ Activated(t)
         \/ BuildCandidate(t) \/ RefuseEdit(t) \/ LockFile(t) \/ LockRegistry(t)
         \/ Compare(t) \/ AbandonReplace(t)
  PROVE  PastOk'
  <1> DEFINE old == th[t]
  <1>a. WellFormed(old) /\ old \in Thread /\ EditOk(t)
    BY DEF RegistryInv, ThreadsOk, WellFormed, PastOk
  <1>j. Idle \in Thread /\ Idle.pc = "idle" /\ Idle.for = "boot"
    BY IdleWellFormed DEF WellFormed, Idle
  \* A thread that carries no revision afterwards.
  <1>n. ASSUME NEW r, th' = [th EXCEPT ![t] = r],
               UNCHANGED <<file, snap, past, overtaken, pages, behind>>,
               \A u \in Threads : u # t => (flock = u => flock' = u),
               \/ r.pc \in {"idle", "retrieve", "generate"}
               \/ r.pc = "call" /\ r.for # "edit"
        PROVE  PastOk'
    <2>1. th'[t] = r
      BY <1>n DEF RegistryInv, TypeOK
    <2>2. EditOk(t)'
      BY <1>n, <2>1 DEF EditOk, Shown, Made
    <2> QED BY <1>n, <2>2, QuietEdits
  \* A thread that leaves.
  <1>l. ASSUME th' = [th EXCEPT ![t] = Idle],
               UNCHANGED <<file, snap, past, overtaken, pages, behind>>,
               \A u \in Threads : u # t => (flock = u => flock' = u)
        PROVE  PastOk'
    BY <1>j, <1>l, <1>n
  \* A thread that goes on with its edit.
  <1>e. ASSUME NEW pc \in {"mutex", "compare", "write"},
               th' = [th EXCEPT ![t] = [th[t] EXCEPT !.pc = pc]],
               Made(old), UNCHANGED <<file, snap, past, pages, behind>>, flock' = t,
               \A u \in Threads : u # t => flock # u /\ (u \in overtaken <=> u \in overtaken'),
               pc = "write" => file.content = old.page.content
        PROVE  PastOk'
    <2> DEFINE r == [old EXCEPT !.pc = pc]
    <2>1. /\ r.pc = pc /\ r.for = old.for /\ r.page = old.page /\ r.op = old.op
          /\ r.base = old.base /\ r.token = old.token /\ r.content = old.content
      BY <1>a DEF Thread
    <2>2. th' = [th EXCEPT ![t] = r] /\ th'[t] = r
      BY <1>e DEF RegistryInv, TypeOK
    <2> HIDE DEF r
    <2>3. EditOk(t)'
      BY <1>a, <1>e, <2>1, <2>2 DEF EditOk, Shown, Made, P
    <2>4. r.pc \notin {"publish", "replaced"}
      BY <1>e, <2>1
    <2> QED BY <1>e, <2>2, <2>3, <2>4, QuietEdits
  <1>1. CASE Chat(t)
    <2>1. LET r == [Idle EXCEPT !.pc = "call", !.for = "pin", !.choice = selected]
          IN r.pc = "call" /\ r.for = "pin"
      BY <1>j DEF Thread
    <2> QED BY <1>1, <1>n, <2>1 DEF Chat, Arrive, browser, history
  <1>2. CASE ActivateModel(t)
    <2> PICK k \in Choices : Arrive(t, [Idle EXCEPT !.pc = "call", !.for = "activate", !.choice = k])
      BY <1>2 DEF ActivateModel
    <2>1. LET r == [Idle EXCEPT !.pc = "call", !.for = "activate", !.choice = k]
          IN r.pc = "call" /\ r.for = "activate"
      BY <1>j DEF Thread
    <2> QED BY <1>n, <2>1 DEF Arrive, browser, history
  <1>3. CASE ViewModels(t)
    <2>1. LET r == [Idle EXCEPT !.pc = "call", !.for = "view"]
          IN r.pc = "call" /\ r.for = "view"
      BY <1>j DEF Thread
    <2> QED BY <1>3, <1>n, <2>1 DEF ViewModels, Arrive, browser, history
  <1>4. CASE SubmitEdit(t)
    <2>0. UNCHANGED <<file, snap, past, overtaken, flock, pages, behind>>
      BY <1>4 DEF SubmitEdit, history
    <2> PICK op \in Ops, page \in pages :
               th' = [th EXCEPT ![t] = [Idle EXCEPT !.pc = "call", !.for = "edit",
                                                    !.op = op, !.page = page]]
      BY <1>4 DEF SubmitEdit
    <2> DEFINE r == [Idle EXCEPT !.pc = "call", !.for = "edit", !.op = op, !.page = page]
    <2>1. r.pc = "call" /\ r.page = page
      BY <1>j DEF Thread
    <2>2. th' = [th EXCEPT ![t] = r] /\ th'[t] = r
      BY DEF RegistryInv, TypeOK
    <2> HIDE DEF r
    <2>3. EditOk(t)'
      BY <2>0, <2>1, <2>2 DEF EditOk, Shown, Made
    <2> QED BY <2>0, <2>1, <2>2, <2>3, QuietEdits
  <1>5. CASE Retrieved(t)
    <2>0. UNCHANGED <<file, snap, past, overtaken, flock, pages, behind>>
      BY <1>5 DEF Retrieved, browser, history
    <2>1. CASE th' = [th EXCEPT ![t].pc = "generate", ![t].used = th[t].pinned]
      <3> DEFINE r == [old EXCEPT !.pc = "generate", !.used = old.pinned]
      <3>1. r.pc = "generate"
        BY <1>a DEF Thread
      <3>2. th' = [th EXCEPT ![t] = r]
        BY <2>1 DEF RegistryInv, TypeOK
      <3> HIDE DEF r
      <3> QED BY <1>n, <2>0, <3>1, <3>2
    <2>2. ASSUME NEW choice,
                 th' = [th EXCEPT ![t].pc = "call", ![t].for = "stream", ![t].choice = choice]
          PROVE  PastOk'
      <3> DEFINE r == [old EXCEPT !.pc = "call", !.for = "stream", !.choice = choice]
      <3>1. r.pc = "call" /\ r.for = "stream"
        BY <1>a DEF Thread
      <3>2. th' = [th EXCEPT ![t] = r]
        BY <2>2 DEF RegistryInv, TypeOK
      <3> HIDE DEF r
      <3> QED BY <1>n, <2>0, <3>1, <3>2
    <2> QED BY <1>5, <2>1, <2>2 DEF Retrieved
  <1>6. CASE Answered(t)
    BY <1>6, <1>l DEF Answered, browser, history
  <1>7. CASE Activated(t)
    BY <1>7, <1>l DEF Activated, browser, history
  <1>8. CASE BuildCandidate(t)
    <2> DEFINE new == old.op.kind \in {"create", "update"} /\ old.op.auth = "new"
               token == [key |-> key', n |-> tokens']
               x == IF new THEN token ELSE None
               candidate == Edited(old.op, old.base, token)
               y == [stamp |-> 0, content |-> candidate]
               r == [old EXCEPT !.pc = "flock", !.token = x, !.content = y]
    <2>0. old.pc = "build" /\ UNCHANGED <<file, snap, past, overtaken, flock, pages, behind>>
      BY <1>8 DEF BuildCandidate, At, browser, history
    <2>1. th' = [th EXCEPT ![t] = IF Valid(candidate) THEN r ELSE Idle]
      BY <1>8 DEF BuildCandidate
    <2>2. /\ r.pc = "flock" /\ r.page = old.page /\ r.op = old.op
          /\ r.base = old.base /\ r.token = x /\ r.content.content = candidate
      BY <1>a DEF Thread
    <2>3. candidate = Edited(old.op, old.base, x)
      BY DEF Edited
    <2> HIDE DEF x, candidate, r
    <2>4. CASE th' = [th EXCEPT ![t] = r]
      <3>1. th'[t] = r
        BY <2>4 DEF RegistryInv, TypeOK
      <3>2. EditOk(t)'
        BY <1>a, <2>0, <2>2, <2>3, <3>1 DEF EditOk, Shown, Made, P
      <3> QED BY <2>0, <2>2, <2>4, <3>2, QuietEdits
    <2> QED BY <1>l, <2>0, <2>1, <2>4
  <1>9. CASE RefuseEdit(t)
    BY <1>9, <1>l DEF RefuseEdit, browser, history
  <1>k. \A pc \in Step : [th EXCEPT ![t].pc = pc] = [th EXCEPT ![t] = [th[t] EXCEPT !.pc = pc]]
    BY DEF RegistryInv, TypeOK
  <1>10. CASE LockFile(t)
    <2>1. /\ th' = [th EXCEPT ![t].pc = "mutex"] /\ Made(old) /\ flock = None /\ flock' = t
          /\ UNCHANGED <<file, snap, past, overtaken, pages, behind>>
      BY <1>10 DEF LockFile, At, Made, browser, history
    <2>2. "mutex" \in Step
      BY DEF Step
    <2> QED BY <1>e, <1>k, <2>1, <2>2, ProcessAssumption
  <1>11. CASE LockRegistry(t)
    <2>1. /\ th' = [th EXCEPT ![t].pc = "compare"] /\ Made(old) /\ flock = t /\ flock' = t
          /\ UNCHANGED <<file, snap, past, overtaken, pages, behind>>
      BY <1>11, <1>a DEF LockRegistry, At, Made, browser, history, EditOk
    <2>2. "compare" \in Step
      BY DEF Step
    <2> QED BY <1>e, <1>k, <2>1, <2>2
  <1>12. CASE Compare(t)
    <2>1. /\ th' = [th EXCEPT ![t].pc = "write"] /\ Made(old) /\ flock = t /\ flock' = t
          /\ UNCHANGED <<file, snap, past, pages, behind>> /\ overtaken' = overtaken \ {t}
          /\ file.content = old.page.content
      BY <1>12, <1>a DEF Compare, At, Made, browser, EditOk, RevisionExpected
    <2>2. "write" \in Step
      BY DEF Step
    <2> QED BY <1>e, <1>k, <2>1, <2>2
  <1>13. CASE AbandonReplace(t)
    <2>1. flock = t
      BY <1>13, <1>a DEF AbandonReplace, At, EditOk
    <2> QED BY <1>13, <1>l, <2>1 DEF AbandonReplace, LeaveReplace, browser, history
  <1> QED BY <1>1, <1>2, <1>3, <1>4, <1>5, <1>6, <1>7, <1>8, <1>9, <1>10, <1>11,
             <1>12, <1>13 DEF Request

\* Writes of the file, publication of an edit, and the environment.
LEMMA WritingEdits ==
  ASSUME RegistryInv, PastOk,
         \/ \E t \in Threads : WriteFile(t) \/ WriteFileThenFail(t) \/ PublishEdit(t)
         \/ EditByHand \/ LoseKey \/ RestoreKey \/ \E p \in Procs : Crash(p)
  PROVE  PastOk'
  <1>i. Idle.pc = "idle"
    BY DEF Idle
  <1>p. \A u \in Threads : P(u) \in Procs
    BY ProcessAssumption DEF P
  <1>s. \A q \in Procs : Serving(q) => VersionOf(snap[q]) /\ Recorded(snap[q])
    BY DEF RegistryInv, VersionsOk, ProcessOk, PastOk
  <1>c. \A u \in Threads : Publishing(u) => VersionOf(th[u].content) /\ Recorded(th[u].content)
    BY DEF RegistryInv, VersionsOk, PublicationOk, PastOk
  <1>1. ASSUME NEW t \in Threads, WriteFile(t) \/ WriteFileThenFail(t)
        PROVE  PastOk'
    <2>0. /\ th[t].pc = "write" /\ th[t] \in Thread /\ flock = t
          /\ UNCHANGED <<snap, overtaken, behind, pages>> /\ past' = past \cup {file.content}
      BY <1>1 DEF WriteFile, WriteFileThenFail, ReplaceFile, At, browser, RegistryInv,
         TypeOK, PastOk, EditOk
    <2>1. \A u \in Threads : u # t => th'[u] = th[u]
      BY <1>1 DEF WriteFile, WriteFileThenFail, LeaveReplace, RegistryInv, TypeOK
    <2>2. \/ th'[t].pc = "replaced" /\ th'[t].content = file' /\ flock' = flock
          \/ th'[t].pc = "idle"
      <3>1. CASE WriteFile(t)
        BY <2>0, <3>1 DEF WriteFile, RegistryInv, TypeOK, Thread
      <3>2. CASE WriteFileThenFail(t)
        BY <1>i, <3>2 DEF WriteFileThenFail, LeaveReplace, RegistryInv, TypeOK
      <3> QED BY <1>1, <3>1, <3>2
    <2>3. \A u \in Threads : u # t => flock # u /\ th[u].pc # "write"
      BY <2>0 DEF PastOk, EditOk
    <2>4. \A u \in Threads : EditOk(u)'
      <3> SUFFICES ASSUME NEW u \in Threads PROVE EditOk(u)'
        OBVIOUS
      <3>1. CASE u = t
        BY <2>0, <2>2, <3>1 DEF EditOk, Shown, Made
      <3>2. CASE u # t
        BY <2>0, <2>1, <2>3, <3>2, OthersKeepEdits DEF PastOk, FileMoves
      <3> QED BY <3>1, <3>2
    <2>5. \A u \in Threads : Publishing(u)' => Recorded(th[u].content)'
      <3> SUFFICES ASSUME NEW u \in Threads, Publishing(u)'
                   PROVE  Recorded(th[u].content)'
        OBVIOUS
      <3>1. CASE u = t
        BY <2>2, <3>1 DEF Publishing, Recorded
      <3>2. CASE u # t
        BY <1>c, <2>0, <2>1, <3>2, RecordedStays DEF Publishing, Recorded, FileMoves
      <3> QED BY <3>1, <3>2
    <2>6. \A q \in Procs : Serving(q)' => Recorded(snap[q])'
      BY <1>s, <2>0, RecordedStays DEF Serving, Recorded, FileMoves
    <2>7. \A g \in pages' : PageOk(g)'
      BY <2>0, PagesStay DEF PastOk, FileMoves
    <2> QED BY <2>4, <2>5, <2>6, <2>7 DEF PastOk
  <1>2. ASSUME NEW t \in Threads, PublishEdit(t) PROVE PastOk'
    <2>1. /\ th' = [th EXCEPT ![t] = Idle] /\ Publishing(t)
          /\ \A u \in Threads : th'[u] = IF u = t THEN Idle ELSE th[u]
          /\ snap' = [snap EXCEPT ![P(t)] = th[t].content] /\ snap'[P(t)] = th[t].content
          /\ UNCHANGED <<file, past, overtaken, behind>> /\ flock = t
          /\ ShowPage(t, th[t].content.content)
      BY <1>p, <1>2 DEF PublishEdit, LeaveReplace, At, Publishing, history, RegistryInv,
         TypeOK, PastOk, EditOk
    <2>2. EditOk(t)'
      BY <1>i, <2>1 DEF EditOk, Shown, Made
    <2>3. \A u \in Threads : P(u) = P(t) => ~Publishing(u)'
      <3>1. \A u \in Threads : u # t /\ P(u) = P(t) => ~Publishing(u)
        BY <2>1, OthersWait DEF RegistryInv, Holding, Publishing
      <3> QED BY <1>i, <2>1, <3>1 DEF Publishing
    <2>4. pages \subseteq pages' /\ \A g \in pages' \ pages : PageOk(g)'
      BY <1>c, <2>1, <2>3, ShownPage
    <2> QED BY <1>i, <2>1, <2>2, <2>4, PublishEdits
  <1>3. CASE EditByHand
    <2>1. /\ UNCHANGED <<snap, th, flock, pages, behind>> /\ past' = past \cup {file.content}
          /\ \A u \in Threads : th[u].pc = "write" => u \in overtaken'
      BY <1>3 DEF EditByHand, At, browser
    <2>2. \A u \in Threads : EditOk(u)'
      BY <2>1, OthersKeepEdits DEF PastOk, FileMoves
    <2>3. \A u \in Threads : Publishing(u)' => Recorded(th[u].content)'
      BY <1>c, <2>1, RecordedStays DEF Publishing, Recorded, FileMoves
    <2>4. \A q \in Procs : Serving(q)' => Recorded(snap[q])'
      BY <1>s, <2>1, RecordedStays DEF Serving, Recorded, FileMoves
    <2>5. \A g \in pages' : PageOk(g)'
      BY <2>1, PagesStay DEF PastOk, FileMoves
    <2> QED BY <2>2, <2>3, <2>4, <2>5 DEF PastOk
  <1>4. CASE LoseKey \/ RestoreKey
    <2>1. UNCHANGED <<file, snap, th, flock, past, overtaken, pages, behind>>
      BY <1>4 DEF LoseKey, RestoreKey, browser, history
    <2> QED BY <2>1 DEF PastOk, EditOk, PageOk, Current, Recorded, Shown, Made, Publishing,
                         Serving, P
  <1>5. ASSUME NEW p \in Procs, Crash(p) PROVE PastOk'
    <2>1. /\ UNCHANGED <<file, past, overtaken, pages, behind>> /\ snap'[p] = None
          /\ \A q \in Procs : q # p => snap'[q] = snap[q]
          /\ flock' = (IF flock # None /\ ProcOf[flock] = p THEN None ELSE flock)
      BY <1>5 DEF Crash, browser, history, RegistryInv, TypeOK
    <2>2. \A u \in Threads : IF P(u) = p THEN th'[u] = Idle ELSE th'[u] = th[u]
      BY <1>5 DEF Crash
    <2>3. \A u \in Threads : EditOk(u)'
      <3> SUFFICES ASSUME NEW u \in Threads PROVE EditOk(u)'
        OBVIOUS
      <3>1. CASE P(u) = p
        BY <1>i, <2>2, <3>1 DEF EditOk, Shown, Made
      <3>2. CASE P(u) # p
        <4>1. /\ th'[u] = th[u] /\ snap'[P(u)] = snap[P(u)] /\ FileMoves
              /\ flock = u => flock' = u
          BY <1>p, <2>1, <2>2, <3>2 DEF FileMoves, P
        <4> QED BY <2>1, <4>1, OthersKeepEdits DEF PastOk
      <3> QED BY <3>1, <3>2
    <2>4. \A u \in Threads : Publishing(u)' => Recorded(th[u].content)'
      BY <1>i, <1>c, <2>1, <2>2 DEF Publishing, Recorded
    <2>5. \A q \in Procs : Serving(q)' => Recorded(snap[q])'
      BY <1>s, <2>1 DEF Serving, Recorded
    <2>6. \A g \in pages' : PageOk(g)'
      <3> SUFFICES ASSUME NEW g \in pages PROVE PageOk(g)'
        BY <2>1
      <3>1. g.proc \in Procs
        BY DEF RegistryInv, TypeOK, Page
      <3>2. \A u \in Threads : Publishing(u)' => Publishing(u) /\ th'[u].content = th[u].content
        BY <1>i, <2>2 DEF Publishing
      <3> QED BY <2>1, <3>1, <3>2, PagesStay DEF PastOk, FileMoves
    <2> QED BY <2>3, <2>4, <2>5, <2>6 DEF PastOk
  <1> QED BY <1>1, <1>2, <1>3, <1>4, <1>5

LEMMA StepKeepsPast == RegistryInv /\ PastOk /\ [Next]_vars => PastOk'
  <1> SUFFICES ASSUME RegistryInv, PastOk, [Next]_vars PROVE PastOk'
    OBVIOUS
  <1>1. ASSUME NEW t \in Threads, Progress(t) \/ Request(t) \/ Boot(t)
        PROVE  PastOk'
    BY <1>1, ReloadEdits, RequestEdits, WritingEdits DEF Progress
  <1>2. CASE UNCHANGED vars
    BY <1>2 DEF vars, browser, history, PastOk, EditOk, PageOk, Current, Recorded, Shown, Made,
       Publishing, Serving, P
  <1> QED BY <1>1, <1>2, WritingEdits DEF Next

LEMMA PastInvariant == Spec => [](RegistryInv /\ PastOk)
  <1>1. Init => PastOk
    BY DEF Init, PastOk, EditOk, Idle, Shown, Made, Publishing, Serving
  <1>2. RegistryInv <=> TypeOK /\ ThreadsOk /\ VersionsOk
    BY DEF RegistryInv
  <1> QED BY <1>1, <1>2, RegistryInvariant, StepKeepsPast, PTL DEF Spec

\* However many processes, administrators and edits by hand there are, an edit
\* that replaces the file replaces the very content its page showed, by that
\* content with the edit made: the only ways to undo another's edit are a content
\* that came back, an operator's edit after the comparison, and a page answered
\* by another process than a stale one that makes the edit.
THEOREM NoEditIsLost == Spec => EditsAreNotLost
  <1> DEFINE Kept == \A t \in Threads \ (overtaken \cup behind) :
                       At(t, "write") /\ ~At(t, "write")' /\ file' # file
                         /\ file.content \notin past
                         => /\ file.content # Broken
                            /\ file'.content = Edited(th[t].op, file.content, th[t].token)
  <1>1. RegistryInv /\ PastOk /\ [Next]_vars => [Kept]_vars
    <2> SUFFICES ASSUME RegistryInv, PastOk, Next,
                        NEW t \in Threads \ (overtaken \cup behind), At(t, "write"), ~At(t, "write")',
                        file' # file, file.content \notin past
                 PROVE  /\ file.content # Broken
                        /\ file'.content = Edited(th[t].op, file.content, th[t].token)
      OBVIOUS
    <2>1. /\ th[t].base = file.content /\ file.content \in Configuration
          /\ th[t].content.content = Edited(th[t].op, file.content, th[t].token)
      BY DEF PastOk, EditOk, At, Made
    <2>2. PICK u \in Threads : WriteFile(u) \/ WriteFileThenFail(u)
      <3>1. \A p \in Procs : Crash(p) => file' = file
        BY DEF Crash
      <3>2. EditByHand => th' = th
        BY DEF EditByHand
      <3>3. LoseKey \/ RestoreKey => file' = file
        BY DEF LoseKey, RestoreKey
      <3>4. ASSUME NEW u \in Threads, Progress(u) \/ Request(u) \/ Boot(u),
                   ~WriteFile(u), ~WriteFileThenFail(u)
            PROVE  file' = file
        BY <3>4 DEF Progress, Request, Boot, Chat, ActivateModel, ViewModels, Arrive,
           SubmitEdit, Retrieved, Answered, Activated, Snapshot, ReadSnapshot,
           PublishSnapshot, RefuseReload, RefuseBoot, BuildCandidate, RefuseEdit,
           LockFile, LockRegistry, Compare, AbandonReplace, PublishEdit
      <3> QED BY <3>1, <3>2, <3>3, <3>4 DEF Next, At
    <2>3. u = t
      BY <2>2 DEF PastOk, EditOk, WriteFile, WriteFileThenFail, At
    <2> QED BY <2>1, <2>2, <2>3, ContentAssumption DEF WriteFile, WriteFileThenFail, ReplaceFile
  <1> QED BY <1>1, PastInvariant, PTL DEF Spec, EditsAreNotLost

=============================================================================
