------------------------- MODULE AnswerStreamProofs --------------------------
(***************************************************************************)
(* Proofs about AnswerStream, for every alphabet, every way of cutting a   *)
(* stream into deltas, every correction, all chunks and budgets and any    *)
(* number of attempts.  IInv is about what becomes of a text and leaves    *)
(* the text itself unexpanded; MarkerInv looks into what the normaliser    *)
(* makes of it, SourcesInv into the prompt and the sources.                *)
(***************************************************************************)
EXTENDS AnswerStream, FiniteSetTheorems, NaturalsInduction, WellFoundedInduction, TLAPS

Unfinished == {"gate", "stream", "degenerate", "citations", "literal"}

Phases ==
  Unfinished \cup {"revision", "persist", "sources", "done", "error", "ended", "cancelled"}

\* The browser has, or is about to have, the text t.
Shows(t) ==
  \/ wire = <<>> /\ client.text = t
  \/ wire # <<>> /\ wire[1].kind = "delta" /\ client.text \o wire[1].text = t

Corrects(t) == wire # <<>> /\ wire[1].kind = "revision" /\ wire[1].text = t

OnScreen == client.text = stored.text /\ client.sources = stored.sources

\* An open answer that is streamed.
StreamInv ==
  /\ phase \in Unfinished \cup {"revision"} => Shows(visible)
  /\ phase = "revision" =>
       \/ revision = <<>> /\ generated.text = visible
       \/ revision # <<>> /\ revision[1] = generated.text
  /\ phase \in {"persist", "sources"} => Shows(generated.text) \/ Corrects(generated.text)
  /\ phase = "sources" => stored = generated
  /\ phase = "done" =>
       /\ stored = generated /\ client.text = stored.text
       /\ \/ wire = <<>> /\ client.sources = stored.sources
          \/ wire # <<>> /\ wire[1].kind = "sources" /\ wire[1].sources = stored.sources
  /\ phase = "error" => wire = <<>> \/ wire[1].kind \in {"delta", "revision"}

\* What is under way when the server has ended, to a browser that still waits.
LastEvent ==
  /\ wire # <<>>
  /\ \/ wire[1].kind = "error"
     \/ wire[1].kind = "done" /\ OnScreen
     \/ wire[1].kind = "answer" /\ wire[1].answer = stored

\* The server has ended, and the connection holds.
EndInv ==
  \/ client.status = "open" /\ LastEvent
  \/ client.status = "done" /\ wire = <<>> /\ OnScreen
  \/ client.status = "failed" /\ wire = <<>>

LinkedInv ==
  /\ phase # "ended" =>
       /\ client.status = "open"
       /\ IF Streaming THEN StreamInv ELSE wire = <<>> /\ phase # "done"
  /\ phase = "ended" => EndInv

IInv ==
  /\ phase \in Phases
  /\ client = [text |-> client.text, sources |-> client.sources, status |-> client.status]
  /\ phase = "gate" => visible = <<>>
  /\ phase \in Unfinished \/ ~Streaming => revision = <<>>
  /\ phase = "cancelled" => ~linked
  /\ ~linked => wire = <<>> /\ client.status = "failed"
  /\ linked => LinkedInv

-----------------------------------------------------------------------------

\* Nothing is under way before the first step.
LEMMA InitIInv == Init => IInv
BY DEF Init, IInv, LinkedInv, StreamInv, Shows, Unfinished, Phases

\* An event that leaves while the connection holds is the only one under way.
LEMMA Sent ==
  ASSUME NEW e, Send(e)
  PROVE  /\ linked => wire = <<>> /\ wire' # <<>> /\ wire'[1] = e
         /\ ~linked => wire' = <<>>
BY DEF Send

\* Text that is handed out is added to what the browser shows.
LEMMA Yielded ==
  ASSUME NEW text, linked, Shows(visible), Yield(text), client' = client
  PROVE  Shows(visible)'
<1> DEFINE e == [kind |-> "delta", text |-> text]
<1>1. wire = <<>> /\ wire' # <<>> /\ wire'[1] = e
  <2>1. Send(e)
    BY DEF Yield
  <2> QED BY <2>1, Sent
<1>2. client.text = visible
  BY <1>1 DEF Shows
<1>3. visible' = visible \o text
  BY DEF Yield
<1>4. wire'[1].kind = "delta" /\ wire'[1].text = text
  BY <1>1
<1>5. client'.text \o wire'[1].text = visible'
  BY <1>2, <1>3, <1>4
<1> QED BY <1>1, <1>4, <1>5 DEF Shows

\* Without a connection nothing gets under way.
LEMMA Unheard ==
  ASSUME ~linked, wire = <<>>, NEW text, Yield(text) \/ Emit(text)
  PROVE  wire' = <<>>
BY DEF Yield, Emit, Send, NoEvent

LEMMA Emitted ==
  ASSUME NEW text, linked, Shows(visible), Emit(text), client' = client
  PROVE  Shows(visible)'
<1>1. CASE text = <<>> \/ suppress
  BY <1>1 DEF Emit, Shows, NoEvent
<1>2. CASE ~(text = <<>> \/ suppress)
  BY <1>2, Yielded DEF Emit
<1> QED BY <1>1, <1>2

-----------------------------------------------------------------------------
(* The steps of the server.                                                *)

\* A fixed answer is all the text there is.
LEMMA CannedStep ==
  ASSUME IInv, AnswerCanned
  PROVE  IInv'
<1>1. /\ phase = "gate" /\ phase' = "revision" /\ client' = client /\ linked' = linked
      /\ question' = question /\ revision' = revision /\ stored' = stored
      /\ generated'.text = <<"canned">> /\ revision = <<>> /\ visible = <<>>
  BY DEF AnswerCanned, IInv, Unfinished
<1>2. Streaming' = Streaming
  BY <1>1 DEF Streaming
<1>3. CASE Streaming
  <2>1. Yield(<<"canned">>)
    BY <1>3 DEF AnswerCanned
  <2>2. visible' = <<"canned">>
    BY <1>1, <2>1 DEF Yield
  <2>3. linked => Shows(visible)'
    <3>1. linked => Shows(visible)
      BY <1>1, <1>3 DEF IInv, LinkedInv, StreamInv, Unfinished
    <3> QED BY <3>1, <2>1, <1>1, Yielded
  <2>4. ~linked => wire' = <<>>
    BY <2>1, Unheard DEF IInv
  <2> QED BY <1>1, <1>2, <1>3, <2>2, <2>3, <2>4 DEF IInv, LinkedInv, Phases, StreamInv, Unfinished
<1>4. CASE ~Streaming
  <2>1. visible' = visible /\ wire' = wire
    BY <1>4 DEF AnswerCanned, NoEvent
  <2> QED BY <1>1, <1>2, <1>4, <2>1 DEF IInv, LinkedInv, Phases, Unfinished
<1> QED BY <1>3, <1>4

\* Steps that hand nothing out and end with a text to be corrected.
LEMMA QuietSteps ==
  ASSUME IInv,
         BeginAnswer \/ Complete \/ ReduceOutput \/ NextAttempt \/ RetryDegenerate
           \/ ValidateCitations
  PROVE  IInv'
<1>1. /\ phase \in Unfinished /\ phase' \in Unfinished \ {"gate"}
      /\ client' = client /\ linked' = linked /\ question' = question
      /\ revision' = revision /\ wire' = wire /\ visible' = visible
  BY DEF BeginAnswer, Complete, ReduceOutput, NextAttempt, RetryDegenerate, ValidateCitations,
     Corrected, Unfinished, server
<1>2. Streaming' = Streaming
  BY <1>1 DEF Streaming
<1> QED BY <1>1, <1>2 DEF IInv, LinkedInv, Phases, StreamInv, Shows, Unfinished

\* What the normaliser lets through is handed out, once.
LEMMA DeltaSteps ==
  ASSUME IInv, Receive \/ EndStream
  PROVE  IInv'
<1>1. PICK text : Emit(text)
  BY DEF Receive, EndStream
<1>2. /\ phase = "stream" /\ phase' \in {"stream", "degenerate"} /\ Streaming
      /\ client' = client /\ linked' = linked /\ question' = question
      /\ revision' = revision
  BY DEF Receive, EndStream
<1>3. Streaming'
  BY <1>2 DEF Streaming
<1>4. linked => Shows(visible)'
  <2>1. linked => Shows(visible)
    BY <1>2 DEF IInv, LinkedInv, StreamInv, Unfinished
  <2> QED BY <2>1, <1>1, <1>2, Emitted
<1>5. ~linked => wire' = <<>>
  BY <1>1, Unheard DEF IInv
<1> QED BY <1>2, <1>3, <1>4, <1>5 DEF IInv, LinkedInv, Phases, StreamInv, Unfinished

\* The excerpt replaces what was shown, or is shown itself.
LEMMA ExtractStep ==
  ASSUME IInv, Extract
  PROVE  IInv'
<1> DEFINE chosen == ExtractiveSources(PromptOf[attempt], MaxExcerpts)
           answer == IF chosen = <<>> THEN <<"canned">> ELSE <<"e">>
<1>1. /\ phase = "stream" /\ phase' = "revision" /\ client' = client /\ linked' = linked
      /\ question' = question /\ stored' = stored
      /\ generated' = [text |-> answer, sources |-> Ids(chosen)]
      /\ revision' = IF Streaming /\ visible # <<>> THEN <<answer>> ELSE <<>>
      /\ IF ~Streaming \/ visible # <<>> THEN UNCHANGED visible /\ NoEvent ELSE Yield(answer)
  BY DEF Extract
<1> HIDE DEF chosen
<1>2. Streaming' = Streaming /\ generated'.text = answer
  BY <1>1 DEF Streaming
<1>3. CASE Streaming /\ visible = <<>>
  <2>1. Yield(answer) /\ revision' = <<>>
    BY <1>1, <1>3
  <2>2. visible' = answer
    BY <1>3, <2>1 DEF Yield
  <2>3. linked => Shows(visible)'
    <3>1. linked => Shows(visible)
      BY <1>1, <1>3 DEF IInv, LinkedInv, StreamInv, Unfinished
    <3> QED BY <3>1, <2>1, <1>1, Yielded
  <2>4. ~linked => wire' = <<>>
    BY <2>1, Unheard DEF IInv
  <2> QED BY <1>1, <1>2, <1>3, <2>1, <2>2, <2>3, <2>4 DEF IInv, LinkedInv, Phases, StreamInv, Unfinished
<1>4. CASE Streaming /\ visible # <<>>
  <2>1. visible' = visible /\ wire' = wire /\ revision' # <<>> /\ revision'[1] = answer
    BY <1>1, <1>4 DEF NoEvent
  <2> QED BY <1>1, <1>2, <1>4, <2>1 DEF IInv, LinkedInv, Phases, StreamInv, Shows, Unfinished
<1>5. CASE ~Streaming
  <2>1. visible' = visible /\ wire' = wire /\ revision' = <<>>
    BY <1>1, <1>5 DEF NoEvent
  <2> QED BY <1>1, <1>2, <1>5, <2>1 DEF IInv, LinkedInv, Phases, Unfinished
<1> QED BY <1>3, <1>4, <1>5

\* The final text is what was shown, or is sent as its correction.
LEMMA FinishStep ==
  ASSUME IInv, FinishAnswer
  PROVE  IInv'
<1>1. PICK text, sources, d :
        /\ Corrected("revision", d)
        /\ revision' = IF Streaming /\ text # visible THEN <<text>> ELSE <<>>
        /\ generated' = [text |-> text, sources |-> sources]
  BY DEF FinishAnswer
<1>2. /\ phase = "literal" /\ phase' = "revision" /\ client' = client /\ linked' = linked
      /\ question' = question /\ wire' = wire /\ visible' = visible
  BY <1>1 DEF FinishAnswer, Corrected
<1>3. Streaming' = Streaming /\ generated'.text = text
  BY <1>1, <1>2 DEF Streaming
<1>4. \/ revision' = <<>> /\ (Streaming => text = visible)
      \/ Streaming /\ revision' # <<>> /\ revision'[1] = text
  BY <1>1
<1> QED BY <1>2, <1>3, <1>4 DEF IInv, LinkedInv, Phases, StreamInv, Shows, Unfinished

\* A correction leaves when everything handed out has been read.
LEMMA RevisionStep ==
  ASSUME IInv, SendRevision
  PROVE  IInv'
<1>1. /\ phase = "revision" /\ phase' = "persist" /\ client' = client /\ linked' = linked
      /\ question' = question /\ visible' = visible /\ revision' = revision
      /\ generated' = generated /\ stored' = stored
  BY DEF SendRevision, At
<1>2. Streaming' = Streaming
  BY <1>1 DEF Streaming
<1>3. CASE revision = <<>>
  <2>1. wire' = wire
    BY <1>3 DEF SendRevision, NoEvent
  <2> QED BY <1>1, <1>2, <1>3, <2>1 DEF IInv, LinkedInv, Phases, StreamInv, Shows, Unfinished
<1>4. CASE revision # <<>>
  <2> DEFINE e == [kind |-> "revision", text |-> revision[1]]
  <2>1. Send(e)
    BY <1>4 DEF SendRevision
  <2>2. /\ linked => wire' # <<>> /\ wire'[1].kind = "revision" /\ wire'[1].text = revision[1]
        /\ ~linked => wire' = <<>>
    BY <2>1, Sent
  <2>3. Streaming
    BY <1>4 DEF IInv
  <2>4. linked => Corrects(generated.text)'
    BY <2>2, <2>3, <1>1, <1>4 DEF IInv, LinkedInv, StreamInv, Corrects
  <2> QED BY <1>1, <1>2, <2>2, <2>3, <2>4 DEF IInv, LinkedInv, Phases, StreamInv, Unfinished
<1> QED BY <1>3, <1>4

\* What is committed is what the events add up to; a failure is told.
LEMMA PersistSteps ==
  ASSUME IInv, Persist \/ PersistFails \/ ModelFails
  PROVE  IInv'
<1>1. /\ client' = client /\ linked' = linked /\ question' = question /\ wire' = wire
      /\ revision' = revision /\ visible' = visible /\ generated' = generated
      /\ \/ phase = "persist" /\ phase' = "sources" /\ stored' = generated
         \/ phase \in {"persist", "stream"} /\ phase' = "error"
  BY DEF Persist, PersistFails, ModelFails, At, NoEvent, server
<1>2. Streaming' = Streaming
  BY <1>1 DEF Streaming
<1> QED BY <1>1, <1>2 DEF IInv, LinkedInv, Phases, StreamInv, Shows, Corrects, Unfinished

\* The last events, each sent when the one before has been read.
LEMMA LastSteps ==
  ASSUME IInv, SendSources \/ SendDone \/ Respond \/ SendError
  PROVE  IInv'
<1>1. /\ client' = client /\ linked' = linked /\ question' = question
      /\ revision' = revision /\ visible' = visible /\ generated' = generated
      /\ stored' = stored
  BY DEF SendSources, SendDone, Respond, SendError, At
<1>2. Streaming' = Streaming
  BY <1>1 DEF Streaming
<1>3. CASE SendSources
  <2> DEFINE e == [kind |-> "sources", sources |-> generated.sources]
  <2>1. Send(e) /\ phase = "sources" /\ phase' = "done" /\ Streaming
    BY <1>3 DEF SendSources, At
  <2>2. /\ linked => wire = <<>> /\ wire' # <<>> /\ wire'[1].kind = "sources"
                     /\ wire'[1].sources = generated.sources
        /\ ~linked => wire' = <<>>
    BY <2>1, Sent
  <2>3. linked => client.text = generated.text /\ stored = generated /\ client.status = "open"
    BY <2>1, <2>2 DEF IInv, LinkedInv, StreamInv, Shows, Corrects
  <2> QED BY <1>1, <1>2, <2>1, <2>2, <2>3 DEF IInv, LinkedInv, Phases, StreamInv, Unfinished
<1>4. CASE SendDone
  <2> DEFINE e == [kind |-> "done"]
  <2>1. Send(e) /\ phase = "done" /\ phase' = "ended" /\ Streaming
    BY <1>4 DEF SendDone, At
  <2>2. /\ linked => wire = <<>> /\ wire' # <<>> /\ wire'[1].kind = "done"
        /\ ~linked => wire' = <<>>
    BY <2>1, Sent
  <2>3. linked => OnScreen /\ client.status = "open"
    BY <2>1, <2>2 DEF IInv, LinkedInv, StreamInv, OnScreen
  <2> QED BY <1>1, <1>2, <2>1, <2>2, <2>3
          DEF IInv, LinkedInv, Phases, EndInv, LastEvent, OnScreen, Unfinished
<1>5. CASE Respond
  <2> DEFINE e == [kind |-> "answer", answer |-> stored]
  <2>1. Send(e) /\ phase = "sources" /\ phase' = "ended"
    BY <1>5 DEF Respond, At
  <2>2. /\ linked => wire' # <<>> /\ wire'[1].kind = "answer" /\ wire'[1].answer = stored
        /\ ~linked => wire' = <<>>
    BY <2>1, Sent
  <2> QED BY <1>1, <1>2, <2>1, <2>2 DEF IInv, LinkedInv, Phases, EndInv, LastEvent, Unfinished
<1>6. CASE SendError
  <2> DEFINE e == [kind |-> "error"]
  <2>1. Send(e) /\ phase = "error" /\ phase' = "ended"
    BY <1>6 DEF SendError, At
  <2>2. /\ linked => wire' # <<>> /\ wire'[1].kind = "error"
        /\ ~linked => wire' = <<>>
    BY <2>1, Sent
  <2> QED BY <1>1, <1>2, <2>1, <2>2 DEF IInv, LinkedInv, Phases, EndInv, LastEvent, Unfinished
<1> QED BY <1>3, <1>4, <1>5, <1>6

\* A closed generator has lost its browser.
LEMMA LeaveStep ==
  ASSUME IInv, LeaveStream
  PROVE  IInv'
<1>1. /\ ~linked /\ phase' = "cancelled" /\ linked' = linked /\ client' = client
      /\ wire' = wire /\ question' = question /\ revision' = revision
  BY DEF LeaveStream, server
<1>2. Streaming' = Streaming
  BY <1>1 DEF Streaming
<1> QED BY <1>1, <1>2 DEF IInv, Unfinished, Phases, LeaveStream

-----------------------------------------------------------------------------
(* The steps of the browser.                                               *)

LEMMA ReadEvent ==
  ASSUME NEW e,
         client = [text |-> client.text, sources |-> client.sources, status |-> client.status],
         client' = Read(e),
         e.kind \in {"delta", "revision", "sources", "done", "error", "answer"}
  PROVE  /\ client' = [text |-> client'.text, sources |-> client'.sources,
                       status |-> client'.status]
         /\ e.kind = "delta" => client'.text = client.text \o e.text
         /\ e.kind = "revision" => client'.text = e.text
         /\ e.kind = "sources" => client'.text = client.text /\ client'.sources = e.sources
         /\ e.kind \in {"delta", "revision", "sources"} => client'.status = client.status
         /\ e.kind = "done" => client'.text = client.text /\ client'.sources = client.sources
         /\ e.kind = "answer" => client'.text = e.answer.text
                                 /\ client'.sources = e.answer.sources
         /\ e.kind \in {"done", "answer"} => client'.status = "done"
         /\ e.kind = "error" => client'.status = "failed"
<1>1. CASE e.kind = "delta"
  <2>1. client' = [client EXCEPT !.text = client.text \o e.text]
    BY <1>1 DEF Read
  <2> QED BY <1>1, <2>1
<1>2. CASE e.kind = "revision"
  <2>1. client' = [client EXCEPT !.text = e.text]
    BY <1>2 DEF Read
  <2> QED BY <1>2, <2>1
<1>3. CASE e.kind = "sources"
  <2>1. client' = [client EXCEPT !.sources = e.sources]
    BY <1>3 DEF Read
  <2> QED BY <1>3, <2>1
<1>4. CASE e.kind = "done"
  <2>1. client' = [client EXCEPT !.status = "done"]
    BY <1>4 DEF Read
  <2> QED BY <1>4, <2>1
<1>5. CASE e.kind = "error"
  <2>1. client' = Failed
    BY <1>5 DEF Read
  <2> QED BY <1>5, <2>1 DEF Failed
<1>6. CASE e.kind = "answer"
  <2>1. client' = [text |-> e.answer.text, sources |-> e.answer.sources, status |-> "done"]
    BY <1>6 DEF Read
  <2> QED BY <1>6, <2>1
<1> QED BY <1>1, <1>2, <1>3, <1>4, <1>5, <1>6

\* Reading the event under way shows what it was about to show.
LEMMA ProcessStep ==
  ASSUME IInv, ProcessEvent
  PROVE  IInv'
<1> DEFINE e == wire[1]
<1>1. /\ wire # <<>> /\ client' = Read(e) /\ wire' = <<>> /\ linked
      /\ phase' = phase /\ visible' = visible /\ linked' = linked /\ question' = question
      /\ revision' = revision /\ generated' = generated /\ stored' = stored
  BY DEF ProcessEvent, server, IInv
<1>2. Streaming' = Streaming /\ LinkedInv
  BY <1>1 DEF Streaming, IInv
<1>3. CASE phase = "ended"
  <2>1. client.status = "open" /\ LastEvent
    BY <1>1, <1>2, <1>3 DEF LinkedInv, EndInv
  <2>2. e.kind \in {"done", "error", "answer"}
    BY <2>1 DEF LastEvent
  <2>3. /\ client' = [text |-> client'.text, sources |-> client'.sources,
                      status |-> client'.status]
        /\ \/ client'.status = "failed"
           \/ client'.status = "done" /\ OnScreen'
    <3> HIDE DEF e
    <3>1. \/ e.kind = "error"
          \/ e.kind = "done" /\ OnScreen
          \/ e.kind = "answer" /\ e.answer = stored
      BY <2>1 DEF LastEvent, e
    <3> QED BY <1>1, <2>2, <3>1, ReadEvent DEF IInv, OnScreen
  <2> QED BY <1>1, <1>2, <1>3, <2>3 DEF IInv, LinkedInv, Phases, EndInv, Unfinished
<1>4. CASE phase # "ended"
  <2>1. client.status = "open" /\ Streaming /\ StreamInv
    BY <1>1, <1>2, <1>4 DEF LinkedInv
  <2>2. ASSUME NEW t, Shows(t), Streaming
        PROVE  e.kind = "delta" /\ client.text \o e.text = t
    BY <1>1, <2>2 DEF Shows
  <2>3. ASSUME e.kind \in {"delta", "revision", "sources"}
        PROVE  /\ client' = [text |-> client'.text, sources |-> client'.sources,
                             status |-> client'.status]
               /\ client'.status = "open"
               /\ e.kind = "delta" => client'.text = client.text \o e.text
               /\ e.kind = "revision" => client'.text = e.text
               /\ e.kind = "sources" => client'.text = client.text
                                        /\ client'.sources = e.sources
    <3> HIDE DEF e
    <3> QED BY <1>1, <2>1, <2>3, ReadEvent DEF IInv
  <2>4. CASE phase \in Unfinished \cup {"revision"}
    <3>1. e.kind = "delta" /\ client.text \o e.text = visible
      BY <2>1, <2>2, <2>4 DEF StreamInv
    <3>2. Shows(visible)'
      BY <1>1, <2>3, <3>1 DEF Shows
    <3> QED BY <1>1, <1>2, <1>4, <2>1, <2>3, <2>4, <3>1, <3>2
            DEF IInv, LinkedInv, Phases, StreamInv, Unfinished
  <2>5. CASE phase \in {"persist", "sources"}
    <3>1. \/ e.kind = "delta" /\ client.text \o e.text = generated.text
          \/ e.kind = "revision" /\ e.text = generated.text
      BY <2>1, <2>2, <2>5 DEF StreamInv, Corrects
    <3>2. Shows(generated.text)'
      BY <1>1, <2>3, <3>1 DEF Shows
    <3> QED BY <1>1, <1>2, <1>4, <2>1, <2>3, <2>5, <3>1, <3>2
            DEF IInv, LinkedInv, Phases, StreamInv, Unfinished
  <2>6. CASE phase = "done"
    <3>1. e.kind = "sources" /\ e.sources = stored.sources /\ client.text = stored.text
          /\ stored = generated
      BY <1>1, <2>1, <2>6 DEF StreamInv
    <3> QED BY <1>1, <1>2, <1>4, <2>1, <2>3, <2>6, <3>1
            DEF IInv, LinkedInv, Phases, StreamInv, Unfinished
  <2>7. CASE phase = "error"
    <3>1. e.kind \in {"delta", "revision"}
      BY <1>1, <2>1, <2>7 DEF StreamInv
    <3> QED BY <1>1, <1>2, <1>4, <2>1, <2>3, <2>7, <3>1
            DEF IInv, LinkedInv, Phases, StreamInv, Unfinished
  <2> QED BY <1>1, <1>4, <2>4, <2>5, <2>6, <2>7 DEF IInv, Unfinished, Phases
<1> QED BY <1>3, <1>4

\* A broken connection is a failure in the browser.
LEMMA LoseStep ==
  ASSUME IInv, LoseConnection
  PROVE  IInv'
<1>1. /\ ~linked' /\ wire' = <<>> /\ client' = Failed /\ phase' = phase
      /\ visible' = visible /\ question' = question /\ revision' = revision
  BY DEF LoseConnection, server
<1>2. Streaming' = Streaming
  BY <1>1 DEF Streaming
<1> QED BY <1>1, <1>2 DEF IInv, Failed

-----------------------------------------------------------------------------

LEMMA NextIInv ==
  ASSUME IInv, [Next]_vars
  PROVE  IInv'
<1>1. ASSUME ServerStep PROVE IInv'
  BY <1>1, CannedStep, QuietSteps, DeltaSteps, ExtractStep, FinishStep, RevisionStep,
     PersistSteps, LastSteps, LeaveStep DEF ServerStep
<1>2. CASE UNCHANGED vars
  BY <1>2 DEF vars, server, IInv, LinkedInv, StreamInv, EndInv, LastEvent, OnScreen, Shows,
     Corrects, Streaming
<1> QED BY <1>1, <1>2, ProcessStep, LoseStep DEF Next

\* The inductive invariant holds throughout every answer.
THEOREM Invariance == Spec => []IInv
<1>1. Init => IInv
  BY InitIInv
<1>2. IInv /\ [Next]_vars => IInv'
  BY NextIInv
<1> QED BY <1>1, <1>2, PTL DEF Spec

\* A browser that was told the answer is complete shows the stored text and
\* the stored sources, through deltas, abandoned attempts and corrections
\* (generator.py:250, api-client.js:282).
THEOREM StreamAddsUp == Spec => []DoneShowsStored
<1>1. IInv => DoneShowsStored
  BY DEF IInv, LinkedInv, EndInv, OnScreen, DoneShowsStored
<1> QED BY <1>1, Invariance, PTL

-----------------------------------------------------------------------------
(* What the normaliser makes of a text.                                    *)

NoOpening(t) == \A i \in DOMAIN t : t[i] # "[["

LEMMA LeastPlace ==
  ASSUME NEW S, S \subseteq Nat, S # {}
  PROVE  \E n \in S : \A m \in S : n <= m
<1> DEFINE R == OpToRel(<, Nat)
<1>1. IsWellFoundedOn(R, Nat)
  BY NatLessThanWellFounded
<1> HIDE DEF R
<1>2. PICK x \in S : \A y \in S : ~(<<y, x>> \in R)
  BY <1>1, WFMin
<1>3. ASSUME NEW y \in S PROVE x <= y
  <2>1. y < x => <<y, x>> \in R
    BY DEF R, OpToRel
  <2> QED BY <1>2, <2>1
<1> QED BY <1>3

LEMMA GreatestPlace ==
  ASSUME NEW n \in Nat, NEW S \in SUBSET (1..n), S # {}
  PROVE  \E m \in S : \A x \in S : x <= m
<1> DEFINE T == {b \in Nat : \A x \in S : x <= b}
<1>1. n \in T
  OBVIOUS
<1>2. PICK b \in T : \A c \in T : b <= c
  BY <1>1, LeastPlace
<1>3. ASSUME b \notin S PROVE FALSE
  <2>1. \A x \in S : x <= b - 1
    BY <1>3
  <2>2. b # 0
    <3>1. PICK x \in S : x <= b
      BY <1>2
    <3> QED BY <3>1
  <2> QED BY <1>2, <2>1, <2>2
<1> QED BY <1>3

\* A part of a text has tokens of that text.
LEMMA PartOf ==
  ASSUME NEW S, NEW t \in Seq(S), NEW m \in 1..(Len(t) + 1), NEW n \in 0..Len(t)
  PROVE  /\ SubSeq(t, m, n) \in Seq(S)
         /\ \A i \in DOMAIN SubSeq(t, m, n) : \E j \in m..n : SubSeq(t, m, n)[i] = t[j]
<1>1. CASE m <= n
  <2>1. Len(SubSeq(t, m, n)) = n - m + 1 /\ SubSeq(t, m, n) \in Seq(S)
    BY <1>1
  <2>2. ASSUME NEW i \in DOMAIN SubSeq(t, m, n)
        PROVE  \E j \in m..n : SubSeq(t, m, n)[i] = t[j]
    <3>1. i \in 1..(n - m + 1)
      BY <2>1
    <3>2. SubSeq(t, m, n)[i] = t[m + i - 1] /\ m + i - 1 \in m..n
      BY <1>1, <3>1
    <3> QED BY <3>2
  <2> QED BY <2>1, <2>2
<1>2. CASE m > n
  <2>1. SubSeq(t, m, n) = <<>>
    BY <1>2
  <2> QED BY <2>1
<1> QED BY <1>1, <1>2

\* Stripping cuts a text before its first token that is not white space ...
LEMMA LStripped ==
  ASSUME NEW S, NEW t \in Seq(S)
  PROVE  \E k \in 1..(Len(t) + 1) :
           LStrip(t) = SubSeq(t, k, Len(t)) /\ (1 \in Solid(t) => k = 1)
<1> DEFINE Begins(i) == (i \in Solid(t) \/ i > Len(t)) /\ \A j \in Solid(t) : i <= j
<1>1. Solid(t) \subseteq 1..Len(t)
  BY DEF Solid
<1>2. \E i \in 1..(Len(t) + 1) : Begins(i)
  <2>1. CASE Solid(t) = {}
    BY <2>1
  <2>2. CASE Solid(t) # {}
    <3>1. Solid(t) \subseteq Nat
      BY <1>1
    <3>2. PICK i \in Solid(t) : \A j \in Solid(t) : i <= j
      BY <2>2, <3>1, LeastPlace
    <3> QED BY <1>1, <3>2
  <2> QED BY <2>1, <2>2
<1> DEFINE k == CHOOSE i \in 1..(Len(t) + 1) : Begins(i)
<1>3. k \in 1..(Len(t) + 1) /\ Begins(k)
  BY <1>2
<1>4. LStrip(t) = SubSeq(t, k, Len(t))
  BY DEF LStrip
<1>5. 1 \in Solid(t) => k = 1
  BY <1>3
<1> QED BY <1>3, <1>4, <1>5

\* ... and behind its last one.
LEMMA RStripped ==
  ASSUME NEW S, NEW t \in Seq(S)
  PROVE  \E k \in 0..Len(t) : RStrip(t) = SubSeq(t, 1, k)
<1> DEFINE Ends(i) == (i \in Solid(t) \/ i = 0) /\ \A j \in Solid(t) : j <= i
<1>1. Solid(t) \subseteq 1..Len(t)
  BY DEF Solid
<1>2. \E i \in 0..Len(t) : Ends(i)
  <2>1. CASE Solid(t) = {}
    BY <2>1
  <2>2. CASE Solid(t) # {}
    <3>1. Len(t) \in Nat /\ Solid(t) \in SUBSET (1..Len(t))
      BY <1>1
    <3>2. PICK i \in Solid(t) : \A j \in Solid(t) : j <= i
      BY <2>2, <3>1, GreatestPlace
    <3> QED BY <1>1, <3>2
  <2> QED BY <2>1, <2>2
<1> DEFINE k == CHOOSE i \in 0..Len(t) : Ends(i)
<1>3. k \in 0..Len(t)
  BY <1>2
<1>4. RStrip(t) = SubSeq(t, 1, k)
  BY DEF RStrip
<1> QED BY <1>3, <1>4

LEMMA StripTyped ==
  ASSUME NEW S, NEW t \in Seq(S)
  PROVE  /\ LStrip(t) \in Seq(S) /\ RStrip(t) \in Seq(S)
         /\ \A i \in DOMAIN LStrip(t) : \E j \in DOMAIN t : LStrip(t)[i] = t[j]
         /\ \A i \in DOMAIN RStrip(t) : \E j \in DOMAIN t : RStrip(t)[i] = t[j]
<1>1. PICK k \in 1..(Len(t) + 1) : LStrip(t) = SubSeq(t, k, Len(t))
  BY LStripped
<1>2. PICK n \in 0..Len(t) : RStrip(t) = SubSeq(t, 1, n)
  BY RStripped
<1>3. 1 \in 1..(Len(t) + 1) /\ Len(t) \in 0..Len(t)
  OBVIOUS
<1>4. k..Len(t) \subseteq DOMAIN t /\ 1..n \subseteq DOMAIN t
  BY <1>1, <1>2
<1>5. /\ LStrip(t) \in Seq(S)
      /\ \A i \in DOMAIN LStrip(t) : \E j \in k..Len(t) : LStrip(t)[i] = t[j]
  <2> DEFINE s == SubSeq(t, k, Len(t))
  <2>1. s \in Seq(S) /\ \A i \in DOMAIN s : \E j \in k..Len(t) : s[i] = t[j]
    BY <1>3, PartOf
  <2>2. LStrip(t) = s
    BY <1>1
  <2> HIDE DEF s
  <2> QED BY <2>1, <2>2
<1>6. /\ RStrip(t) \in Seq(S)
      /\ \A i \in DOMAIN RStrip(t) : \E j \in 1..n : RStrip(t)[i] = t[j]
  <2> DEFINE s == SubSeq(t, 1, n)
  <2>1. s \in Seq(S) /\ \A i \in DOMAIN s : \E j \in 1..n : s[i] = t[j]
    BY <1>3, PartOf
  <2>2. RStrip(t) = s
    BY <1>2
  <2> HIDE DEF s
  <2> QED BY <2>1, <2>2
<1> QED BY <1>4, <1>5, <1>6

\* A text that does not begin with white space is not stripped on the left.
LEMMA LStripSolid ==
  ASSUME NEW S, NEW t \in Seq(S), t # <<>>, t[1] # "sp"
  PROVE  LStrip(t) = t
<1>1. 1 \in Solid(t)
  BY DEF Solid
<1>2. LStrip(t) = SubSeq(t, 1, Len(t))
  BY <1>1, LStripped
<1> QED BY <1>2

LEMMA PrefixElements ==
  ASSUME NEW s \in Seq(Token), NEW t \in Seq(Token)
  PROVE  IsPrefix(s, t) <=> Len(s) <= Len(t) /\ \A i \in 1..Len(s) : s[i] = t[i]
<1>1. CASE Len(s) <= Len(t)
  <2> DEFINE a == SubSeq(s, 1, Len(s))
             b == SubSeq(t, 1, Len(s))
  <2>1. /\ a \in Seq(Token) /\ Len(a) = Len(s) /\ \A i \in 1..Len(s) : a[i] = s[i]
        /\ b \in Seq(Token) /\ Len(b) = Len(s) /\ \A i \in 1..Len(s) : b[i] = t[i]
    BY <1>1
  <2> HIDE DEF a, b
  <2>2. a = b <=> \A i \in 1..Len(s) : a[i] = b[i]
    BY <2>1
  <2>3. IsPrefix(s, t) <=> a = b
    BY <1>1 DEF IsPrefix, a, b
  <2> QED BY <1>1, <2>1, <2>2, <2>3
<1>2. CASE ~(Len(s) <= Len(t))
  BY <1>2 DEF IsPrefix
<1> QED BY <1>1, <1>2

\* The tokens behind the marker are those behind its second half.
LEMMA BehindTyped ==
  ASSUME NEW S, NEW t \in Seq(S), HasMarker(t)
  PROVE  /\ BehindMarker(t) \in Seq(S)
         /\ \A i \in DOMAIN BehindMarker(t) : \E j \in 3..Len(t) : BehindMarker(t)[i] = t[j]
<1> DEFINE m == CHOOSE j \in MarkerEnd(t) : TRUE
           s == SubSeq(t, 1 + m, Len(t))
<1>1. m \in MarkerEnd(t)
  BY DEF HasMarker
<1>2. m \in 2..Len(t)
  BY <1>1 DEF MarkerEnd
<1>3. BehindMarker(t) = LStrip(s)
  BY DEF BehindMarker
<1> HIDE DEF m
<1>4. s \in Seq(S) /\ \A i \in DOMAIN s : \E j \in (1 + m)..Len(t) : s[i] = t[j]
  <2> DEFINE a == 1 + m
  <2>1. a \in 1..(Len(t) + 1) /\ Len(t) \in 0..Len(t)
    BY <1>2
  <2> HIDE DEF a
  <2>2. /\ SubSeq(t, a, Len(t)) \in Seq(S)
        /\ \A i \in DOMAIN SubSeq(t, a, Len(t)) :
             \E j \in a..Len(t) : SubSeq(t, a, Len(t))[i] = t[j]
    BY <2>1, PartOf
  <2>3. s = SubSeq(t, a, Len(t))
    BY DEF a
  <2> HIDE DEF s
  <2> QED BY <2>2, <2>3 DEF a
<1> HIDE DEF s
<1>5. (1 + m)..Len(t) \subseteq 3..Len(t)
  BY <1>2
<1>6. /\ LStrip(s) \in Seq(S)
      /\ \A i \in DOMAIN LStrip(s) : \E j \in DOMAIN s : LStrip(s)[i] = s[j]
  BY <1>4, StripTyped
<1> QED BY <1>3, <1>4, <1>5, <1>6

LEMMA NormalizeTyped ==
  ASSUME NEW S, {"u", "v"} \subseteq S, NEW t \in Seq(S)
  PROVE  Normalize(t) \in [text: Seq(S), grounded: {"yes", "no"}]
<1>1. NotFound \in Seq(S)
  BY DEF NotFound
<1>2. CASE HasMarker(t)
  <2>1. RStrip(BehindMarker(t)) \in Seq(S)
    BY <1>2, BehindTyped, StripTyped
  <2> QED BY <1>1, <1>2, <2>1 DEF Normalize
<1>3. CASE ~HasMarker(t)
  BY <1>3 DEF Normalize
<1> QED BY <1>2, <1>3

LEMMA TokensOfNotFound == {"u", "v"} \subseteq Token
BY DEF Token

\* What is left of a text with one marker opens none.
LEMMA NormalizeRemoves ==
  ASSUME NEW S, NEW t \in Seq(S), HasMarker(t), \A i \in 2..Len(t) : t[i] # "[["
  PROVE  NoOpening(Normalize(t).text)
<1>1. NoOpening(NotFound)
  BY DEF NoOpening, NotFound
<1>2. /\ BehindMarker(t) \in Seq(S)
      /\ \A i \in DOMAIN BehindMarker(t) : BehindMarker(t)[i] # "[["
  BY BehindTyped
<1>3. NoOpening(RStrip(BehindMarker(t)))
  BY <1>2, StripTyped DEF NoOpening
<1> QED BY <1>1, <1>3 DEF Normalize

\* While it is held back, a text may still become the marker.
LEMMA DecideHolds ==
  ASSUME NEW t \in Seq(Token), Decide(t) # "undecided"
  PROVE  ~IsPrefix(t, Marker)
<1>1. SUFFICES ASSUME IsPrefix(t, Marker) PROVE IsPrefix(LStrip(t), Marker)
  BY DEF Decide
<1>2. Marker \in Seq(Token) /\ Len(Marker) = 2 /\ Marker[1] = "[["
  BY DEF Marker, Token
<1>3. CASE t = <<>>
  <2>1. PICK k \in 1..(Len(t) + 1) : LStrip(t) = SubSeq(t, k, Len(t))
    BY LStripped
  <2>2. LStrip(t) = <<>>
    BY <1>3, <2>1
  <2> QED BY <1>1, <1>3, <2>2
<1>4. CASE t # <<>>
  <2>1. t[1] = "[["
    BY <1>1, <1>2, <1>4, PrefixElements
  <2>2. LStrip(t) = t
    BY <1>4, <2>1, LStripSolid
  <2> QED BY <1>1, <2>2
<1> QED BY <1>3, <1>4

\* A text that begins with the marker and opens no other.
OpensOnce(t) == IsPrefix(Marker, t) /\ ~Contains(Tail(t), "[[")

LEMMA OpensOnceAt ==
  ASSUME NEW t \in Seq(Token), OpensOnce(t)
  PROVE  /\ Len(t) >= 2 /\ t[1] = "[[" /\ t[2] = "NS"
         /\ \A i \in 2..Len(t) : t[i] # "[["
<1>1. Marker \in Seq(Token) /\ Len(Marker) = 2 /\ Marker[1] = "[[" /\ Marker[2] = "NS"
  BY DEF Marker, Token
<1>2. Len(t) >= 2 /\ t[1] = "[[" /\ t[2] = "NS"
  BY <1>1, PrefixElements DEF OpensOnce
<1>3. ASSUME NEW i \in 2..Len(t) PROVE t[i] # "[["
  <2>1. Len(Tail(t)) = Len(t) - 1 /\ Tail(t)[i - 1] = t[i]
    BY <1>2
  <2>2. i - 1 \in 1..Len(Tail(t))
    BY <2>1
  <2> QED BY <2>1, <2>2 DEF Contains, OpensOnce
<1> QED BY <1>2, <1>3

\* Such a text is not handed out but for what stands behind the marker.
LEMMA MarkerIsCut ==
  ASSUME NEW t \in Seq(Token), OpensOnce(t)
  PROVE  Decide(t) # "yes" /\ NoOpening(Normalize(t).text)
<1>1. /\ Len(t) >= 2 /\ t[1] = "[[" /\ t[2] = "NS"
      /\ \A i \in 2..Len(t) : t[i] # "[["
  BY OpensOnceAt
<1>2. LStrip(t) = t
  BY <1>1, LStripSolid
<1>3. HasMarker(t)
  <2>1. 2 \in DOMAIN t /\ 1 \in 1..(2 - 1) /\ \A k \in 1..(2 - 1) : k = 1
    BY <1>1
  <2>2. 2 \in MarkerEnd(t)
    BY <1>1, <2>1 DEF MarkerEnd
  <2> QED BY <2>2 DEF HasMarker
<1>4. Decide(t) # "yes"
  BY <1>2, <1>3 DEF Decide
<1>5. NoOpening(Normalize(t).text)
  BY <1>1, <1>3, NormalizeRemoves
<1> QED BY <1>4, <1>5

\* Once a text can no longer become the marker, more of it does not matter.
LEMMA Extended ==
  ASSUME NEW t \in Seq(Token), NEW d \in Seq(Token), ~IsPrefix(t, Marker)
  PROVE  /\ ~IsPrefix(t \o d, Marker)
         /\ OpensOnce(t \o d) => OpensOnce(t) /\ NoOpening(d)
<1>1. Marker \in Seq(Token) /\ Len(Marker) = 2 /\ Marker[1] = "[[" /\ Marker[2] = "NS"
  BY DEF Marker, Token
<1>2. /\ t \o d \in Seq(Token) /\ Len(t \o d) = Len(t) + Len(d)
      /\ \A i \in 1..Len(t) : (t \o d)[i] = t[i]
      /\ \A i \in 1..Len(d) : (t \o d)[Len(t) + i] = d[i]
  OBVIOUS
<1>3. ~IsPrefix(t \o d, Marker)
  <2>1. SUFFICES ASSUME IsPrefix(t \o d, Marker) PROVE FALSE
    OBVIOUS
  <2>2. Len(t \o d) <= 2 /\ \A i \in 1..Len(t \o d) : (t \o d)[i] = Marker[i]
    BY <1>1, <1>2, <2>1, PrefixElements
  <2>3. Len(t) <= Len(Marker) /\ \A i \in 1..Len(t) : t[i] = Marker[i]
    BY <1>1, <1>2, <2>2
  <2> QED BY <1>1, <2>3, PrefixElements
<1>4. ASSUME OpensOnce(t \o d) PROVE OpensOnce(t) /\ NoOpening(d)
  <2>1. /\ (t \o d)[1] = "[[" /\ (t \o d)[2] = "NS"
        /\ \A i \in 2..Len(t \o d) : (t \o d)[i] # "[["
    BY <1>2, <1>4, OpensOnceAt
  <2>2. Len(t) > 2
    <3>1. SUFFICES ASSUME Len(t) <= 2 PROVE IsPrefix(t, Marker)
      OBVIOUS
    <3>2. \A i \in 1..Len(t) : i = 1 \/ i = 2
      BY <3>1
    <3>3. \A i \in 1..Len(t) : t[i] = Marker[i]
      BY <1>1, <1>2, <2>1, <3>2
    <3> QED BY <1>1, <3>1, <3>3, PrefixElements
  <2>3. IsPrefix(Marker, t)
    <3>1. t[1] = Marker[1] /\ t[2] = Marker[2]
      BY <1>1, <1>2, <2>1, <2>2
    <3>2. \A i \in 1..Len(Marker) : i = 1 \/ i = 2
      BY <1>1
    <3> QED BY <1>1, <2>2, <3>1, <3>2, PrefixElements
  <2>4. ~Contains(Tail(t), "[[")
    <3>1. Len(Tail(t)) = Len(t) - 1 /\ \A i \in 1..(Len(t) - 1) : Tail(t)[i] = t[i + 1]
      BY <2>2
    <3>2. ASSUME NEW i \in 1..(Len(t) - 1) PROVE Tail(t)[i] # "[["
      <4>1. i + 1 \in 1..Len(t) /\ i + 1 \in 2..Len(t \o d)
        BY <1>2
      <4> QED BY <1>2, <2>1, <3>1, <4>1
    <3> QED BY <3>1, <3>2 DEF Contains
  <2>5. NoOpening(d)
    <3>1. ASSUME NEW i \in 1..Len(d) PROVE d[i] # "[["
      <4>1. Len(t) + i \in 2..Len(t \o d)
        BY <1>2, <2>2
      <4> QED BY <1>2, <2>1, <4>1
    <3> QED BY <3>1 DEF NoOpening
  <2> QED BY <2>3, <2>4, <2>5 DEF OpensOnce
<1> QED BY <1>3, <1>4

-----------------------------------------------------------------------------
(* No marker is handed out.                                                *)

TextsTyped ==
  /\ raw \in Seq(Token) /\ norm \in Normalizer /\ visible \in Seq(Word)
  /\ attempt \in Nat \ {0} /\ speakers \subseteq 1..attempt

\* Nothing is said before the first attempt, and an attempt that may speak is the
\* first to do so.
Silent ==
  /\ Streaming \/ speakers = {}
  /\ phase = "gate" => raw = <<>> /\ norm = Undecided /\ speakers = {}
  /\ phase \in {"gate", "stream"} => (speakers = {} <=> visible = <<>>)
  /\ phase = "stream" /\ ~suppress => speakers \subseteq {attempt}

\* An undecided attempt holds back all it has received; a decision is only taken on
\* what can no longer become the marker.
HeldBack ==
  phase = "stream" /\ Streaming =>
    IF norm.grounded = "undecided" THEN norm.pending = raw /\ attempt \notin speakers
    ELSE ~IsPrefix(raw, Marker)

MarkerCut == OpensOnce(raw) /\ attempt \in speakers => NoOpening(visible)

MarkerInv == TextsTyped /\ Silent /\ HeldBack /\ MarkerCut

LEMMA BoundedTyped ==
  ASSUME NEW S, S \subseteq Token, NEW n \in Nat, NEW t \in BoundedSeq(S, n)
  PROVE  t \in Seq(Token)
<1>1. PICK m \in 0..n : t \in [1..m -> S]
  BY DEF BoundedSeq, SeqOf
<1> QED BY <1>1

LEMMA PushTyped ==
  ASSUME NEW n \in Normalizer, NEW d \in Seq(Token)
  PROVE  Push(n, d).norm \in Normalizer /\ Push(n, d).out \in Seq(Token)
<1> DEFINE held == n.pending \o d
           said == IF Decide(held) = "yes" THEN held ELSE Normalize(held).text
<1>1. held \in Seq(Token) /\ <<>> \in Seq(Token) /\ n.parts \o d \in Seq(Token)
  BY DEF Normalizer
<1>2. said \in Seq(Token)
  BY <1>1, TokensOfNotFound, NormalizeTyped
<1>3. Decide(held) \in {"undecided", "yes", "no"}
  BY DEF Decide
<1> HIDE DEF held, said
<1>4. CASE n.grounded # "undecided"
  BY <1>1, <1>4 DEF Push, Normalizer
<1>5. CASE n.grounded = "undecided" /\ Decide(held) = "undecided"
  BY <1>1, <1>5 DEF Push, Normalizer, held
<1>6. CASE n.grounded = "undecided" /\ Decide(held) # "undecided"
  BY <1>1, <1>2, <1>3, <1>6 DEF Push, Normalizer, Decision, held, said
<1> QED BY <1>4, <1>5, <1>6

\* What Finish hands out is the normalised rest, or that nothing was found, or nothing.
LEMMA FinishTyped ==
  ASSUME NEW n \in Normalizer
  PROVE  /\ Finish(n).norm \in Normalizer
         /\ \/ Finish(n).out \in {<<>>, NotFound}
            \/ n.grounded = "undecided" /\ Finish(n).out = Normalize(n.pending).text
         /\ Finish(n).out \in Seq(Token)
<1> DEFINE last == Normalize(n.pending)
           f == IF n.grounded # "undecided" THEN [norm |-> n, out |-> <<>>]
                ELSE [norm |-> [pending |-> <<>>, parts |-> last.text,
                                grounded |-> last.grounded],
                      out |-> last.text]
<1>1. <<>> \in Seq(Token) /\ NotFound \in Seq(Token)
  BY DEF NotFound, Token
<1>2. last \in [text: Seq(Token), grounded: {"yes", "no"}]
  BY TokensOfNotFound, NormalizeTyped DEF Normalizer
<1> HIDE DEF last
<1>3. /\ f.norm \in Normalizer /\ f.out \in Seq(Token)
      /\ f.out = <<>> \/ (n.grounded = "undecided" /\ f.out = last.text)
  <2>1. CASE n.grounded # "undecided"
    <3>1. f = [norm |-> n, out |-> <<>>]
      BY <2>1
    <3>2. f.norm = n /\ f.out = <<>>
      BY <3>1
    <3> HIDE DEF f
    <3> QED BY <1>1, <3>2
  <2>2. CASE n.grounded = "undecided"
    BY <1>1, <1>2, <2>2 DEF Normalizer, Decision
  <2> QED BY <2>1, <2>2
<1>4. Finish(n) = IF f.norm.parts = <<>> /\ f.norm.grounded = "no"
                  THEN [norm |-> [f.norm EXCEPT !.parts = NotFound], out |-> NotFound]
                  ELSE f
  BY DEF Finish, last
<1> HIDE DEF f
<1>5. [f.norm EXCEPT !.parts = NotFound] \in Normalizer
  BY <1>1, <1>3 DEF Normalizer
<1> QED BY <1>1, <1>3, <1>4, <1>5 DEF last

\* What the attempt under way hands out.
LEMMA EmitSays ==
  ASSUME TextsTyped, Silent, phase = "stream", NEW text \in Seq(Token), Emit(text)
  PROVE  /\ visible' \in Seq(Word) /\ speakers' \subseteq speakers \cup {attempt}
         /\ speakers \subseteq speakers'
         /\ speakers' = {} <=> visible' = <<>>
         /\ text = <<>> => speakers' = speakers
         /\ ~suppress => speakers' \subseteq {attempt}
         /\ NoOpening(text) /\ (attempt \in speakers => NoOpening(visible))
              => (attempt \in speakers' => NoOpening(visible'))
<1>1. CASE text = <<>> \/ suppress
  BY <1>1 DEF Emit, TextsTyped, Silent
<1>2. CASE ~(text = <<>> \/ suppress)
  <2>1. visible' = visible \o text /\ speakers' = speakers \cup {attempt}
    BY <1>2 DEF Emit, Yield
  <2>2. visible \in Seq(Word) /\ text \in Seq(Word)
    BY DEF TextsTyped, Word
  <2>3. attempt \notin speakers => visible = <<>>
    BY <1>2 DEF Silent
  <2>4. ASSUME NoOpening(text), attempt \in speakers => NoOpening(visible)
        PROVE  NoOpening(visible')
    <3>1. NoOpening(visible)
      BY <2>3, <2>4 DEF NoOpening
    <3>2. ASSUME NEW i \in 1..(Len(visible) + Len(text)) PROVE visible'[i] # "[["
      <4>1. CASE i <= Len(visible)
        BY <2>1, <2>2, <3>1, <4>1 DEF NoOpening
      <4>2. CASE i > Len(visible)
        <5>1. visible'[i] = text[i - Len(visible)] /\ i - Len(visible) \in 1..Len(text)
          BY <2>1, <2>2, <4>2
        <5> QED BY <2>4, <5>1 DEF NoOpening
      <4> QED BY <2>2, <4>1, <4>2
    <3> QED BY <2>1, <2>2, <3>2 DEF NoOpening
  <2>5. visible' \in Seq(Word) /\ visible' # <<>> /\ speakers' # {}
    BY <1>2, <2>1, <2>2
  <2>6. speakers' \subseteq {attempt}
    BY <1>2, <2>1 DEF Silent
  <2> QED BY <1>2, <2>1, <2>4, <2>5, <2>6
<1> QED BY <1>1, <1>2

LEMMA ReceiveHolds ==
  ASSUME MarkerInv, Receive
  PROVE  MarkerInv'
<1>1. PICK d \in Deltas : /\ raw' = raw \o d /\ norm' = Push(norm, d).norm
                          /\ Emit(Push(norm, d).out)
  BY DEF Receive
<1>2. /\ phase = "stream" /\ Streaming /\ phase' = phase /\ Streaming' = Streaming
      /\ attempt' = attempt /\ suppress' = suppress
  BY DEF Receive, Streaming
<1>3. d \in Seq(Token)
  BY AnswerAssumption, BoundedTyped DEF Deltas
<1>4. raw \in Seq(Token) /\ norm \in Normalizer /\ raw' \in Seq(Token)
  BY <1>1, <1>3 DEF MarkerInv, TextsTyped
<1> DEFINE out == Push(norm, d).out
<1>5. norm' \in Normalizer /\ out \in Seq(Token)
  BY <1>1, <1>3, <1>4, PushTyped
<1>6. /\ visible' \in Seq(Word) /\ speakers' \subseteq speakers \cup {attempt}
      /\ speakers \subseteq speakers'
      /\ speakers' = {} <=> visible' = <<>>
      /\ out = <<>> => speakers' = speakers
      /\ ~suppress => speakers' \subseteq {attempt}
      /\ NoOpening(out) /\ (attempt \in speakers => NoOpening(visible))
           => (attempt \in speakers' => NoOpening(visible'))
  BY <1>1, <1>2, <1>5, EmitSays DEF MarkerInv
<1> HIDE DEF out
<1>7. TextsTyped' /\ Silent'
  <2>1. attempt \in Nat \ {0} /\ speakers \subseteq 1..attempt
    BY DEF MarkerInv, TextsTyped
  <2>2. attempt \in 1..attempt
    BY <2>1
  <2> QED BY <1>2, <1>4, <1>5, <1>6, <2>1, <2>2 DEF TextsTyped, Silent
<1>8. CASE norm.grounded = "undecided"
  <2>1. norm.pending = raw /\ attempt \notin speakers
    BY <1>2, <1>8 DEF MarkerInv, HeldBack
  <2>2. CASE Decide(raw') = "undecided"
    <3>1. norm' = [norm EXCEPT !.pending = raw'] /\ out = <<>>
      BY <1>1, <1>8, <2>1, <2>2 DEF Push, out
    <3>2. norm'.grounded = "undecided" /\ norm'.pending = raw'
      BY <1>4, <1>8, <3>1 DEF Normalizer
    <3> QED BY <1>2, <1>6, <1>7, <2>1, <3>1, <3>2 DEF MarkerInv, HeldBack, MarkerCut
  <2>3. CASE Decide(raw') # "undecided"
    <3>1. /\ norm'.grounded = Decide(raw')
          /\ out = IF Decide(raw') = "yes" THEN raw' ELSE Normalize(raw').text
      BY <1>1, <1>8, <2>1, <2>3 DEF Push, out
    <3>2. ~IsPrefix(raw', Marker)
      BY <1>4, <2>3, DecideHolds
    <3>3. OpensOnce(raw') => NoOpening(out)
      BY <1>4, <3>1, MarkerIsCut
    <3> QED BY <1>2, <1>6, <1>7, <2>1, <2>3, <3>1, <3>2, <3>3
            DEF MarkerInv, HeldBack, MarkerCut, OpensOnce
  <2> QED BY <2>2, <2>3
<1>9. CASE norm.grounded # "undecided"
  <2>1. norm' = [norm EXCEPT !.parts = @ \o d] /\ out = d
    BY <1>1, <1>9 DEF Push, out
  <2>2. norm'.grounded = norm.grounded
    BY <1>4, <2>1 DEF Normalizer
  <2>3. ~IsPrefix(raw, Marker)
    BY <1>2, <1>9 DEF MarkerInv, HeldBack
  <2>4. ~IsPrefix(raw', Marker) /\ (OpensOnce(raw') => OpensOnce(raw) /\ NoOpening(d))
    BY <1>1, <1>3, <1>4, <2>3, Extended
  <2> QED BY <1>2, <1>6, <1>7, <1>9, <2>1, <2>2, <2>4
          DEF MarkerInv, HeldBack, MarkerCut
<1> QED BY <1>8, <1>9

LEMMA EndStreamHolds ==
  ASSUME MarkerInv, EndStream
  PROVE  MarkerInv'
<1> DEFINE out == Finish(norm).out
<1>1. /\ phase = "stream" /\ Streaming /\ phase' = "degenerate" /\ Streaming' = Streaming
      /\ attempt' = attempt /\ raw' = raw /\ norm' = Finish(norm).norm /\ Emit(out)
  BY DEF EndStream, Streaming
<1>2. raw \in Seq(Token) /\ norm \in Normalizer
  BY DEF MarkerInv, TextsTyped
<1>3. /\ norm' \in Normalizer /\ out \in Seq(Token)
      /\ \/ out \in {<<>>, NotFound}
         \/ norm.grounded = "undecided" /\ out = Normalize(norm.pending).text
  BY <1>1, <1>2, FinishTyped
<1>4. /\ visible' \in Seq(Word) /\ speakers' \subseteq speakers \cup {attempt}
      /\ speakers \subseteq speakers'
      /\ speakers' = {} <=> visible' = <<>>
      /\ NoOpening(out) /\ (attempt \in speakers => NoOpening(visible))
           => (attempt \in speakers' => NoOpening(visible'))
  BY <1>1, <1>3, EmitSays DEF MarkerInv
<1> HIDE DEF out
<1>5. OpensOnce(raw) => NoOpening(out)
  <2>1. NoOpening(<<>>) /\ NoOpening(NotFound)
    BY DEF NoOpening, NotFound
  <2>2. norm.grounded = "undecided" => norm.pending = raw
    BY <1>1 DEF MarkerInv, HeldBack
  <2> QED BY <1>2, <1>3, <2>1, <2>2, MarkerIsCut
<1>6. TextsTyped'
  BY <1>1, <1>2, <1>3, <1>4 DEF MarkerInv, TextsTyped
<1>7. MarkerCut'
  BY <1>1, <1>4, <1>5 DEF MarkerInv, MarkerCut, OpensOnce
<1> QED BY <1>1, <1>6, <1>7 DEF MarkerInv, Silent, HeldBack

\* A stretch of the server's own text opens no marker either.
LEMMA ServerSays ==
  ASSUME TextsTyped, NEW text, text \in {<<"canned">>, <<"e">>},
         visible' = visible \/ Yield(text)
  PROVE  visible' \in Seq(Word) /\ (NoOpening(visible) => NoOpening(visible'))
<1>1. visible \in Seq(Word) /\ text \in Seq(Word) /\ NoOpening(text)
  <2>1. visible \in Seq(Word)
    BY DEF TextsTyped
  <2>2. "canned" \in Word /\ "e" \in Word
    BY DEF Word
  <2>3. \E x \in {"canned", "e"} : text = <<x>>
    OBVIOUS
  <2> QED BY <2>1, <2>2, <2>3 DEF NoOpening
<1>2. CASE visible' = visible
  BY <1>1, <1>2
<1>3. CASE Yield(text)
  <2>1. visible' = visible \o text
    BY <1>3 DEF Yield
  <2>2. ASSUME NoOpening(visible), NEW i \in 1..(Len(visible) + Len(text))
        PROVE  visible'[i] # "[["
    <3>1. CASE i <= Len(visible)
      BY <1>1, <2>1, <2>2, <3>1 DEF NoOpening
    <3>2. CASE i > Len(visible)
      <4>1. visible'[i] = text[i - Len(visible)] /\ i - Len(visible) \in 1..Len(text)
        BY <1>1, <2>1, <3>2
      <4> QED BY <1>1, <4>1 DEF NoOpening
    <3> QED BY <1>1, <3>1, <3>2
  <2> QED BY <1>1, <2>1, <2>2 DEF NoOpening
<1> QED BY <1>2, <1>3

LEMMA UndecidedTyped == Undecided \in Normalizer /\ <<>> \in Seq(Token) /\ <<>> \in Seq(Word)
BY DEF Undecided, Normalizer, Decision

LEMMA NothingOpens == ~OpensOnce(<<>>)
<1>1. <<>> \in Seq(Token) /\ Marker \in Seq(Token) /\ Len(Marker) = 2 /\ Len(<<>>) = 0
  BY DEF Marker, Token
<1> QED BY <1>1 DEF OpensOnce, IsPrefix

LEMMA AttemptHolds ==
  ASSUME MarkerInv, BeginAnswer \/ Complete \/ ReduceOutput \/ NextAttempt \/ ModelFails
  PROVE  MarkerInv'
<1>1. CASE BeginAnswer
  <2>1. /\ phase = "gate" /\ phase' = "stream" /\ UNCHANGED server
        /\ visible' = visible /\ speakers' = speakers
    BY <1>1 DEF BeginAnswer
  <2> QED BY <2>1
          DEF MarkerInv, TextsTyped, Silent, HeldBack, MarkerCut, server, Undecided, Streaming,
              OpensOnce
<1>2. CASE Complete
  <2>1. PICK t \in Texts : raw' = t
    BY <1>2 DEF Complete
  <2>2. t \in Seq(Token)
    BY AnswerAssumption, BoundedTyped DEF Texts
  <2>3. /\ phase = "stream" /\ phase' = "degenerate" /\ ~Streaming /\ Streaming' = Streaming
        /\ UNCHANGED <<attempt, norm, visible, speakers>>
    BY <1>2 DEF Complete, Streaming
  <2> QED BY <2>1, <2>2, <2>3 DEF MarkerInv, TextsTyped, Silent, HeldBack, MarkerCut
<1>3. CASE ReduceOutput \/ ModelFails
  <2>1. /\ phase = "stream" /\ phase' \in {"stream", "error"} /\ Streaming' = Streaming
        /\ UNCHANGED <<raw, attempt, norm, visible, speakers, suppress>>
    BY <1>3 DEF ReduceOutput, ModelFails, Streaming, server
  <2> QED BY <2>1 DEF MarkerInv, TextsTyped, Silent, HeldBack, MarkerCut, OpensOnce
<1>4. CASE NextAttempt
  <2>1. /\ phase = "stream" /\ phase' = phase /\ Streaming' = Streaming
        /\ attempt' = attempt + 1 /\ raw' = <<>> /\ norm' = Undecided
        /\ suppress' = (visible # <<>>)
        /\ UNCHANGED <<visible, speakers>>
    BY <1>4 DEF NextAttempt, Streaming
  <2>2. TextsTyped'
    BY <2>1, UndecidedTyped DEF MarkerInv, TextsTyped
  <2>3. norm'.grounded = "undecided" /\ norm'.pending = raw' /\ attempt' \notin speakers'
    BY <2>1 DEF MarkerInv, TextsTyped, Undecided
  <2> QED BY <2>1, <2>2, <2>3, NothingOpens DEF MarkerInv, Silent, HeldBack, MarkerCut, OpensOnce
<1> QED BY <1>1, <1>2, <1>3, <1>4

LEMMA OwnWordsHold ==
  ASSUME MarkerInv, AnswerCanned \/ Extract
  PROVE  MarkerInv'
<1>1. /\ phase' = "revision" /\ Streaming' = Streaming
      /\ UNCHANGED <<raw, attempt, norm, speakers>>
  BY DEF AnswerCanned, Extract, Streaming
<1>2. \E text \in {<<"canned">>, <<"e">>} : visible' = visible \/ Yield(text)
  BY DEF AnswerCanned, Extract
<1>3. visible' \in Seq(Word) /\ (NoOpening(visible) => NoOpening(visible'))
  BY <1>2, ServerSays DEF MarkerInv
<1> QED BY <1>1, <1>3 DEF MarkerInv, TextsTyped, Silent, HeldBack, MarkerCut, OpensOnce

LEMMA CorrectionHolds ==
  ASSUME MarkerInv, RetryDegenerate \/ ValidateCitations \/ FinishAnswer
  PROVE  MarkerInv'
<1>1. PICK next \in {"citations", "literal", "revision"} : \E d : Corrected(next, d)
  BY DEF RetryDegenerate, ValidateCitations, FinishAnswer
<1>2. /\ phase' = next /\ raw' = <<>> /\ norm' = Undecided /\ Streaming' = Streaming
      /\ UNCHANGED <<attempt, visible, speakers>>
  BY <1>1 DEF Corrected, Streaming
<1> QED BY <1>2, UndecidedTyped, NothingOpens
        DEF MarkerInv, TextsTyped, Silent, HeldBack, MarkerCut, OpensOnce

\* The end of the request and the browser leave the texts alone.
LEMMA RestHolds ==
  ASSUME MarkerInv,
         \/ PersistFails \/ Persist \/ SendRevision \/ SendSources \/ SendDone \/ Respond
         \/ SendError \/ LeaveStream \/ ProcessEvent \/ LoseConnection \/ UNCHANGED vars
  PROVE  MarkerInv'
<1>1. /\ UNCHANGED <<question, raw, attempt, norm, visible, speakers, suppress>>
      /\ phase' = phase \/ phase' \in {"persist", "sources", "done", "error", "ended", "cancelled"}
  BY DEF PersistFails, Persist, SendRevision, SendSources, SendDone, Respond, SendError,
         LeaveStream, ProcessEvent, LoseConnection, vars, server, At
<1> QED BY <1>1
        DEF MarkerInv, TextsTyped, Silent, HeldBack, MarkerCut, OpensOnce, Streaming

LEMMA NextMarker == MarkerInv /\ [Next]_vars => MarkerInv'
BY ReceiveHolds, EndStreamHolds, AttemptHolds, OwnWordsHold, CorrectionHolds, RestHolds
   DEF Next, ServerStep

LEMMA InitMarker == Init => MarkerInv
BY UndecidedTyped, NothingOpens DEF Init, MarkerInv, TextsTyped, Silent, HeldBack, MarkerCut

-----------------------------------------------------------------------------
(* One attempt speaks.                                                     *)

\* What the attempt under way has handed out is all that it was made into; one
\* that is suppressed has handed out nothing.
Speaker ==
  /\ speakers = {} \/ \E a : speakers = {a}
  /\ phase = "stream" /\ Streaming =>
       /\ norm.grounded = "undecided" => norm.parts = <<>>
       /\ suppress => attempt \notin speakers
       /\ ~suppress => visible = norm.parts
  /\ phase = "degenerate" /\ attempt \in speakers => visible = norm.parts

LEMMA InitSpeaker == Init => Speaker
BY DEF Init, Speaker

LEMMA NothingAdded ==
  ASSUME NEW s \in Seq(Token), NEW t \in Seq(Token)
  PROVE  s \o <<>> = s /\ <<>> \o s = s /\ (s \o t = <<>> => s = <<>>)
<1>1. <<>> \in Seq(Token)
  OBVIOUS
<1>2. s \o <<>> \in Seq(Token) /\ <<>> \o s \in Seq(Token) /\ s \o t \in Seq(Token)
  BY <1>1
<1>3. Len(s \o <<>>) = Len(s) /\ \A i \in 1..Len(s) : (s \o <<>>)[i] = s[i]
  OBVIOUS
<1>4. Len(<<>> \o s) = Len(s) /\ \A i \in 1..Len(s) : (<<>> \o s)[i] = s[i]
  OBVIOUS
<1>5. Len(s \o t) = Len(s) + Len(t)
  OBVIOUS
<1> QED BY <1>2, <1>3, <1>4, <1>5

\* What Push and Finish hand out is what they add to the parts.
LEMMA PushAdds ==
  ASSUME NEW n \in Normalizer, n.grounded = "undecided" => n.parts = <<>>, NEW d \in Seq(Token)
  PROVE  /\ Push(n, d).norm.parts = n.parts \o Push(n, d).out
         /\ Push(n, d).norm.grounded = "undecided" => Push(n, d).norm.parts = <<>>
<1> DEFINE held == n.pending \o d
           said == IF Decide(held) = "yes" THEN held ELSE Normalize(held).text
<1>1. n.parts \in Seq(Token) /\ held \in Seq(Token)
  BY DEF Normalizer
<1>2. said \in Seq(Token)
  BY <1>1, TokensOfNotFound, NormalizeTyped
<1> HIDE DEF held, said
<1>3. CASE n.grounded # "undecided"
  BY <1>1, <1>3 DEF Push, Normalizer
<1>4. CASE n.grounded = "undecided" /\ Decide(held) = "undecided"
  <2>1. Push(n, d) = [norm |-> [n EXCEPT !.pending = held], out |-> <<>>]
    BY <1>4 DEF Push, held
  <2>2. Push(n, d).norm.parts = n.parts /\ Push(n, d).out = <<>> /\ n.parts = <<>>
    BY <1>4, <2>1 DEF Normalizer
  <2> QED BY <1>1, <2>2, NothingAdded
<1>5. CASE n.grounded = "undecided" /\ Decide(held) # "undecided"
  <2>1. Push(n, d).norm.parts = said /\ Push(n, d).out = said
        /\ Push(n, d).norm.grounded # "undecided" /\ n.parts = <<>>
    BY <1>5 DEF Push, held, said
  <2> QED BY <1>2, <2>1, NothingAdded
<1> QED BY <1>3, <1>4, <1>5

LEMMA FinishAdds ==
  ASSUME NEW n \in Normalizer, n.grounded = "undecided" => n.parts = <<>>
  PROVE  Finish(n).norm.parts = n.parts \o Finish(n).out
<1> DEFINE last == Normalize(n.pending)
           f == IF n.grounded # "undecided" THEN [norm |-> n, out |-> <<>>]
                ELSE [norm |-> [pending |-> <<>>, parts |-> last.text,
                                grounded |-> last.grounded],
                      out |-> last.text]
<1>1. n \in Normalizer /\ n.parts \in Seq(Token) /\ NotFound \in Seq(Token)
  BY DEF Normalizer, NotFound, Token
<1>2. last.text \in Seq(Token) /\ last.grounded \in Decision
  BY TokensOfNotFound, NormalizeTyped DEF Normalizer, Decision
<1> HIDE DEF last
<1>3. f.norm \in Normalizer /\ f.norm.parts = n.parts \o f.out /\ f.out \in Seq(Token)
  <2>1. CASE n.grounded # "undecided"
    <3>1. f.norm = n /\ f.out = <<>>
      BY <2>1
    <3> HIDE DEF f
    <3> QED BY <1>1, <3>1, NothingAdded
  <2>2. CASE n.grounded = "undecided"
    <3>1. f.norm = [pending |-> <<>>, parts |-> last.text, grounded |-> last.grounded]
          /\ f.out = last.text
      BY <2>2
    <3>2. f.norm \in Normalizer /\ f.norm.parts = last.text
      BY <1>2, <3>1 DEF Normalizer
    <3>3. n.parts = <<>> /\ <<>> \o last.text = last.text
      BY <1>2, <2>2, NothingAdded
    <3> HIDE DEF f
    <3> QED BY <1>2, <3>1, <3>2, <3>3
  <2> QED BY <2>1, <2>2
<1>4. Finish(n) = IF f.norm.parts = <<>> /\ f.norm.grounded = "no"
                  THEN [norm |-> [f.norm EXCEPT !.parts = NotFound], out |-> NotFound]
                  ELSE f
  BY DEF Finish, last
<1> HIDE DEF f
<1>5. CASE f.norm.parts = <<>> /\ f.norm.grounded = "no"
  <2>1. Finish(n).norm = [f.norm EXCEPT !.parts = NotFound] /\ Finish(n).out = NotFound
    BY <1>4, <1>5
  <2>2. Finish(n).norm.parts = NotFound
    BY <1>3, <2>1 DEF Normalizer
  <2>3. n.parts = <<>>
    BY <1>1, <1>3, <1>5, NothingAdded
  <2> QED BY <1>1, <2>1, <2>2, <2>3, NothingAdded
<1>6. CASE ~(f.norm.parts = <<>> /\ f.norm.grounded = "no")
  BY <1>3, <1>4, <1>6
<1> QED BY <1>5, <1>6

\* A delta of an attempt that may speak keeps what was handed out and what the attempt
\* was made into the same.
LEMMA EmitKeeps ==
  ASSUME MarkerInv, Speaker, phase = "stream", Streaming, NEW text \in Seq(Token), Emit(text),
         norm'.parts = norm.parts \o text
  PROVE  /\ speakers' = {} \/ \E a : speakers' = {a}
         /\ suppress => attempt \notin speakers'
         /\ ~suppress => visible' = norm'.parts
<1>1. norm.parts \in Seq(Token)
  BY DEF MarkerInv, TextsTyped, Normalizer
<1>2. CASE text = <<>> \/ suppress
  <2>1. visible' = visible /\ speakers' = speakers
    BY <1>2 DEF Emit
  <2>2. ~suppress => norm'.parts = norm.parts
    BY <1>1, <1>2, NothingAdded
  <2> QED BY <2>1, <2>2 DEF Speaker
<1>3. CASE ~(text = <<>> \/ suppress)
  <2>1. speakers' = speakers \cup {attempt} /\ visible' = visible \o text
    BY <1>3 DEF Emit, Yield
  <2>2. speakers' = {attempt}
    BY <1>3, <2>1 DEF MarkerInv, Silent
  <2> QED BY <1>3, <2>1, <2>2 DEF Speaker
<1> QED BY <1>2, <1>3

LEMMA ReceiveSpeaks ==
  ASSUME MarkerInv, Speaker, Receive
  PROVE  Speaker'
<1>1. PICK d \in Deltas : norm' = Push(norm, d).norm /\ Emit(Push(norm, d).out)
  BY DEF Receive
<1>2. phase = "stream" /\ Streaming /\ UNCHANGED <<phase, question, attempt, suppress>>
  BY DEF Receive
<1>3. d \in Seq(Token) /\ norm \in Normalizer
  BY AnswerAssumption, BoundedTyped DEF Deltas, MarkerInv, TextsTyped
<1>4. norm.grounded = "undecided" => norm.parts = <<>>
  BY <1>2 DEF Speaker
<1> DEFINE out == Push(norm, d).out
<1>5. /\ out \in Seq(Token) /\ norm'.parts = norm.parts \o out
      /\ norm'.grounded = "undecided" => norm'.parts = <<>>
  BY <1>1, <1>3, <1>4, PushTyped, PushAdds
<1> HIDE DEF out
<1>6. /\ speakers' = {} \/ \E a : speakers' = {a}
      /\ suppress => attempt \notin speakers'
      /\ ~suppress => visible' = norm'.parts
  BY <1>1, <1>2, <1>5, EmitKeeps DEF out
<1> QED BY <1>2, <1>5, <1>6 DEF Speaker, Streaming

LEMMA EndStreamSpeaks ==
  ASSUME MarkerInv, Speaker, EndStream
  PROVE  Speaker'
<1> DEFINE out == Finish(norm).out
<1>1. /\ phase = "stream" /\ Streaming /\ phase' = "degenerate"
      /\ UNCHANGED <<attempt, suppress>>
      /\ norm' = Finish(norm).norm /\ Emit(out)
  BY DEF EndStream
<1>2. norm \in Normalizer /\ (norm.grounded = "undecided" => norm.parts = <<>>)
  BY <1>1 DEF MarkerInv, TextsTyped, Speaker
<1>3. out \in Seq(Token) /\ norm'.parts = norm.parts \o out
  BY <1>1, <1>2, FinishTyped, FinishAdds
<1> HIDE DEF out
<1>4. /\ speakers' = {} \/ \E a : speakers' = {a}
      /\ suppress => attempt \notin speakers'
      /\ ~suppress => visible' = norm'.parts
  BY <1>1, <1>3, EmitKeeps
<1> QED BY <1>1, <1>4 DEF Speaker

LEMMA NextSpeaker == MarkerInv /\ Speaker /\ [Next]_vars => Speaker'
<1> SUFFICES ASSUME MarkerInv, Speaker, [Next]_vars PROVE Speaker'
  OBVIOUS
<1>1. CASE BeginAnswer
  <2>1. /\ phase = "gate" /\ phase' = "stream" /\ norm = Undecided /\ speakers = {}
        /\ visible = <<>> /\ UNCHANGED <<server, visible, speakers>>
    BY <1>1 DEF BeginAnswer, MarkerInv, Silent
  <2> QED BY <2>1 DEF Speaker, server, Undecided
<1>2. CASE NextAttempt
  <2>1. /\ phase = "stream" /\ phase' = phase /\ UNCHANGED <<question, visible, speakers>>
        /\ attempt' = attempt + 1 /\ norm' = Undecided /\ suppress' = (visible # <<>>)
    BY <1>2 DEF NextAttempt
  <2>2. attempt' \notin speakers'
    BY <2>1 DEF MarkerInv, TextsTyped
  <2> QED BY <2>1, <2>2 DEF Speaker, Undecided
<1>3. CASE Complete
  <2>1. ~Streaming /\ phase' = "degenerate" /\ speakers' = speakers /\ speakers = {}
    BY <1>3 DEF Complete, MarkerInv, Silent
  <2> QED BY <2>1 DEF Speaker
<1>4. CASE ReduceOutput \/ ProcessEvent \/ LoseConnection \/ UNCHANGED vars
  <2>1. UNCHANGED <<question, phase, attempt, norm, suppress, visible, speakers>>
    BY <1>4 DEF ReduceOutput, ProcessEvent, LoseConnection, vars, server
  <2> QED BY <2>1 DEF Speaker, Streaming
<1>5. CASE \/ AnswerCanned \/ ModelFails \/ Extract \/ RetryDegenerate \/ ValidateCitations
           \/ FinishAnswer \/ Persist \/ PersistFails \/ SendRevision \/ SendSources
           \/ SendDone \/ Respond \/ SendError \/ LeaveStream
  <2>1. speakers' = speakers /\ phase' \notin {"stream", "degenerate"}
    BY <1>5 DEF AnswerCanned, ModelFails, Extract, RetryDegenerate, ValidateCitations, FinishAnswer,
       Corrected, Persist, PersistFails, SendRevision, SendSources, SendDone, Respond, SendError,
       LeaveStream, At
  <2> QED BY <2>1 DEF Speaker
<1> QED BY <1>1, <1>2, <1>3, <1>4, <1>5, ReceiveSpeaks, EndStreamSpeaks DEF Next, ServerStep

\* What was handed out before a correction is one attempt's, all of it: suppress_deltas,
\* read from visible_parts when an attempt begins, keeps every later attempt silent and
\* never silences the one that speaks (generator.py:194, 200-209).
THEOREM OneSpeaks == Spec => []OneAttemptSpeaks
<1>1. Init => MarkerInv /\ Speaker
  BY InitMarker, InitSpeaker
<1>2. MarkerInv /\ Speaker /\ [Next]_vars => MarkerInv' /\ Speaker'
  BY NextMarker, NextSpeaker
<1>3. MarkerInv /\ Speaker => OneAttemptSpeaks
  <2> SUFFICES ASSUME MarkerInv, Speaker PROVE OneAttemptSpeaks
    OBVIOUS
  <2>1. Cardinality(speakers) <= 1
    <3>1. CASE speakers = {}
      BY <3>1, FS_EmptySet
    <3>2. CASE \E a : speakers = {a}
      <4>1. PICK a : speakers = {a}
        BY <3>2
      <4>2. Cardinality({a}) = 1
        BY FS_Singleton
      <4> QED BY <4>1, <4>2
    <3> QED BY <3>1, <3>2 DEF Speaker
  <2>2. CASE phase = "stream" /\ attempt \in speakers
    BY <2>1, <2>2 DEF MarkerInv, Silent, Speaker, OneAttemptSpeaks
  <2> QED BY <2>1, <2>2 DEF Speaker, OneAttemptSpeaks
<1> QED BY <1>1, <1>2, <1>3, PTL DEF Spec

\* A marker written as the prompt demands it is never handed out, however the stream is
\* cut into deltas and whichever attempt speaks (generator.py:770).
THEOREM MarkerStaysHeld == Spec => []MarkerIsHeld
<1>1. MarkerInv => MarkerIsHeld
  BY DEF MarkerInv, TextsTyped, MarkerCut, MarkerIsHeld, OpensOnce, NoOpening, HasMarker,
         MarkerEnd
<1> QED BY <1>1, InitMarker, NextMarker, PTL DEF Spec

-----------------------------------------------------------------------------
(* What the model is shown.                                                *)

LEMMA EveryNumber ==
  ASSUME NEW G, G \subseteq Nat, 0 \in G, \A n \in G : n + 1 \in G
  PROVE  G = Nat
<1> SUFFICES ASSUME G # Nat PROVE FALSE
  OBVIOUS
<1>1. PICK n \in Nat \ G : \A m \in Nat \ G : n <= m
  BY LeastPlace
<1>2. n # 0
  OBVIOUS
<1>3. n - 1 \in Nat /\ n - 1 \in G
  BY <1>1, <1>2
<1> QED BY <1>3

\* InOrder finds a place for every number up to the number of places: counting the places
\* up to each is one to one.
LEMMA InOrderTyped ==
  ASSUME NEW n \in Nat, NEW S \in SUBSET (1..n)
  PROVE  Cardinality(S) \in Nat /\ InOrder(S) \in [1..Cardinality(S) -> S]
<1> DEFINE c == Cardinality(S)
           UpTo(i) == {j \in S : j <= i}
           rank == [i \in S |-> Cardinality(UpTo(i))]
<1>1. IsFiniteSet(S) /\ c \in Nat
  <2>1. IsFiniteSet(1..n)
    BY FS_Interval
  <2>2. IsFiniteSet(S)
    BY <2>1, FS_Subset
  <2> QED BY <2>2, FS_CardinalityType
<1>2. ASSUME NEW i \in S
      PROVE  IsFiniteSet(UpTo(i)) /\ Cardinality(UpTo(i)) \in 1..c
  <2>1. UpTo(i) \in SUBSET S /\ i \in UpTo(i)
    OBVIOUS
  <2> HIDE DEF UpTo
  <2>2. IsFiniteSet(UpTo(i)) /\ Cardinality(UpTo(i)) <= c
    BY <1>1, <2>1, FS_Subset
  <2>3. Cardinality(UpTo(i)) \in Nat /\ Cardinality(UpTo(i)) # 0
    BY <2>1, <2>2, FS_CardinalityType, FS_EmptySet
  <2> HIDE DEF c
  <2> QED BY <1>1, <2>2, <2>3
<1>3. ASSUME NEW i \in S, NEW j \in S, i < j
      PROVE  Cardinality(UpTo(i)) # Cardinality(UpTo(j))
  <2>1. UpTo(i) \in SUBSET UpTo(j) /\ j \in UpTo(j) /\ j \notin UpTo(i)
    <3>1. \A k \in S : k \in Nat
      OBVIOUS
    <3>2. \A k \in S : k <= i => k <= j
      BY <1>3, <3>1
    <3>3. j <= j /\ ~(j <= i)
      BY <1>3, <3>1
    <3> QED BY <3>2, <3>3
  <2>2. IsFiniteSet(UpTo(j))
    BY <1>2
  <2> HIDE DEF UpTo
  <2> QED BY <2>1, <2>2, FS_Subset
<1>4. rank \in Injection(S, 1..c)
  <2>1. rank \in [S -> 1..c]
    BY <1>2
  <2>2. \A i, j \in S : rank[i] = rank[j] => i = j
    <3>1. \A i, j \in S : i < j \/ j < i \/ i = j
      OBVIOUS
    <3>2. \A i \in S : rank[i] = Cardinality(UpTo(i))
      OBVIOUS
    <3> HIDE DEF rank, UpTo
    <3> QED BY <1>3, <3>1, <3>2
  <2> HIDE DEF rank
  <2> QED BY <2>1, <2>2 DEF Injection, IsInjective
<1>5. IsFiniteSet(1..c) /\ Cardinality(1..c) = c
  BY <1>1, FS_Interval
<1>6. rank \in Surjection(S, 1..c)
  <2> HIDE DEF rank
  <2> QED BY <1>4, <1>5, FS_Injection
<1>7. ASSUME NEW m \in 1..c PROVE \E i \in S : Cardinality(UpTo(i)) = m
  BY <1>6 DEF Surjection
<1>8. ASSUME NEW m \in 1..c
      PROVE  (CHOOSE i \in S : Cardinality(UpTo(i)) = m) \in S
  <2> HIDE DEF UpTo
  <2> QED BY <1>7
<1> QED BY <1>1, <1>8 DEF InOrder

LEMMA PickedTyped ==
  ASSUME NEW X, NEW seq \in Seq(X), NEW places \in SUBSET (DOMAIN seq)
  PROVE  /\ Picked(seq, places) \in Seq(X)
         /\ \A k \in DOMAIN Picked(seq, places) : \E i \in places : Picked(seq, places)[k] = seq[i]
<1> DEFINE c == Cardinality(places)
<1>1. c \in Nat /\ InOrder(places) \in [1..c -> places]
  <2>1. Len(seq) \in Nat /\ places \in SUBSET (1..Len(seq))
    OBVIOUS
  <2> QED BY <2>1, InOrderTyped
<1>2. Picked(seq, places) = [k \in 1..c |-> seq[InOrder(places)[k]]]
  BY <1>1 DEF Picked
<1>3. \A k \in 1..c : InOrder(places)[k] \in places /\ seq[InOrder(places)[k]] \in X
  BY <1>1
<1> HIDE DEF c
<1> QED BY <1>1, <1>2, <1>3

LEMMA PrioritizedTyped ==
  ASSUME NEW chunks \in Seq(Chunk), NEW evidence
  PROVE  Prioritized(chunks, evidence) \in Seq(Chunk)
<1>1. \A places \in SUBSET (DOMAIN chunks) : Picked(chunks, places) \in Seq(Chunk)
  BY PickedTyped
<1> QED BY <1>1 DEF Prioritized

\* What is selected keeps to the budget.
Selection(budget) == [blocks: Seq(Chunk), used: 0..budget]

LEMMA OfferTyped ==
  ASSUME NEW budget \in Nat, NEW selected \in Selection(budget), NEW c \in Chunk
  PROVE  Offer(selected, c, budget) \in Selection(budget)
<1> DEFINE gap == IF selected.blocks = <<>> THEN 0 ELSE Separator
           room == budget - selected.used - gap
           f == Fitted(c, room)
<1>1. gap \in Nat /\ room \in Int /\ selected.used \in 0..budget /\ selected.blocks \in Seq(Chunk)
  BY PromptContextAssumption DEF Selection
<1>2. ASSUME Fits(c, room) PROVE f \in Chunk /\ f.size <= room
  <2>1. CASE c.size <= room
    BY <2>1 DEF Fitted
  <2>2. CASE ~(c.size <= room)
    <3>1. f = [c EXCEPT !.size = room]
      BY <2>2 DEF Fitted
    <3>2. room \in Nat
      BY <1>1, <1>2, <2>2, PromptContextAssumption DEF Fits
    <3> HIDE DEF room, f
    <3> QED BY <3>1, <3>2 DEF Chunk
  <2> QED BY <2>1, <2>2
<1>3. CASE ~Fits(c, room)
  BY <1>3 DEF Offer
<1>4. CASE Fits(c, room)
  <2>1. f.size \in Nat /\ f.size <= budget - selected.used - gap
    BY <1>2, <1>4 DEF Chunk
  <2>2. selected.used + gap + f.size \in 0..budget
    <3> HIDE DEF f, gap
    <3> QED BY <1>1, <2>1
  <2>3. Append(selected.blocks, f) \in Seq(Chunk)
    BY <1>1, <1>2, <1>4
  <2>4. Offer(selected, c, budget) \in
          {selected, [blocks |-> Append(selected.blocks, f), used |-> selected.used + gap + f.size]}
    BY DEF Offer
  <2> HIDE DEF f, gap
  <2> QED BY <2>2, <2>3, <2>4 DEF Selection
<1> QED BY <1>3, <1>4

\* The selection of each number of chunks is what Offer makes of the one before.
LEMMA SelectedOfTyped ==
  ASSUME NEW offered \in Seq(Chunk), NEW budget \in Nat
  PROVE  \A n \in 0..Len(offered) : SelectedOf(offered, budget)[n] \in Selection(budget)
<1> DEFINE L == Len(offered)
           E == [blocks |-> <<>>, used |-> 0]
           Step(f, n) == IF n = 0 THEN E ELSE Offer(f[n - 1], offered[n], budget)
           Defines(f, m) == f = [n \in 0..m |-> Step(f, n)]
           G == {m \in Nat : m <= L => \E f : Defines(f, m)}
<1>1. 0 \in G
  <2> DEFINE f == [n \in 0..0 |-> E]
  <2>1. \A n \in 0..0 : Step(f, n) = E
    OBVIOUS
  <2>2. f = [n \in 0..0 |-> Step(f, n)]
    <3> HIDE DEF Step
    <3> QED BY <2>1
  <2> QED BY <2>2
<1>2. ASSUME NEW m \in G PROVE m + 1 \in G
  <2> SUFFICES ASSUME m + 1 <= L PROVE \E f : Defines(f, m + 1)
    OBVIOUS
  <2>1. PICK g : Defines(g, m)
    BY <1>2
  <2> DEFINE f == [n \in 0..(m + 1) |->
                     IF n = m + 1 THEN Offer(g[m], offered[m + 1], budget) ELSE g[n]]
  <2>2. ASSUME NEW n \in 0..(m + 1) PROVE f[n] = Step(f, n)
    <3>1. CASE n = m + 1
      <4>1. m \in 0..(m + 1) /\ m # m + 1
        OBVIOUS
      <4>2. f[m] = g[m]
        BY <4>1
      <4> QED BY <3>1, <4>2
    <3>2. CASE n # m + 1 /\ n # 0
      <4>1. n - 1 \in 0..(m + 1) /\ n - 1 # m + 1 /\ n \in 0..m
        BY <3>2
      <4>2. f[n - 1] = g[n - 1] /\ f[n] = g[n]
        BY <3>2, <4>1
      <4>3. g[n] = Step(g, n)
        BY <2>1, <4>1
      <4> QED BY <3>2, <4>2, <4>3
    <3>3. CASE n = 0
      <4>1. 0 \in 0..m /\ 0 # m + 1
        OBVIOUS
      <4>2. g[0] = E
        BY <2>1, <4>1
      <4> QED BY <3>3, <4>1, <4>2
    <3> QED BY <3>1, <3>2, <3>3
  <2>3. Defines(f, m + 1)
    <3> HIDE DEF Step
    <3> QED BY <2>2
  <2> QED BY <2>3
<1>3. L \in G
  <2>1. G \subseteq Nat
    OBVIOUS
  <2> HIDE DEF G
  <2>2. G = Nat
    BY <1>1, <1>2, <2>1, EveryNumber
  <2> QED BY <2>2
<1> DEFINE f == CHOOSE f : Defines(f, L)
<1>4. Defines(f, L)
  <2> HIDE DEF Defines
  <2> QED BY <1>3
<1>5. SelectedOf(offered, budget) = f
  BY DEF SelectedOf
<1> DEFINE H == {n \in Nat : n <= L => f[n] \in Selection(budget)}
<1> HIDE DEF f
<1>6. 0 \in H
  <2>1. f[0] = E
    BY <1>4
  <2>2. <<>> \in Seq(Chunk) /\ 0 \in 0..budget
    OBVIOUS
  <2>3. E \in Selection(budget)
    BY <2>2 DEF Selection
  <2> QED BY <2>1, <2>3
<1>7. ASSUME NEW n \in H PROVE n + 1 \in H
  <2> SUFFICES ASSUME n + 1 <= L PROVE f[n + 1] \in Selection(budget)
    OBVIOUS
  <2>1. f[n + 1] = Offer(f[n], offered[n + 1], budget)
    BY <1>4
  <2>2. f[n] \in Selection(budget) /\ offered[n + 1] \in Chunk
    BY <1>7
  <2> QED BY <2>1, <2>2, OfferTyped
<1>8. H = Nat
  <2>1. H \subseteq Nat
    OBVIOUS
  <2> HIDE DEF H
  <2> QED BY <1>6, <1>7, <2>1, EveryNumber
<1> QED BY <1>5, <1>8

\* Every attempt's prompt is made of chunks.
LEMMA PromptTyped ==
  ASSUME NEW n \in Attempts
  PROVE  PromptOf[n] \in Seq(Chunk)
<1> DEFINE offered == Prioritized(Retrieved, Evidence)
<1>1. offered \in Seq(Chunk) /\ Budgets[n] \in Nat
  BY AnswerAssumption, PrioritizedTyped DEF Attempts
<1>2. Len(offered) \in 0..Len(offered)
  BY <1>1
<1>3. SelectedOf(offered, Budgets[n])[Len(offered)] \in Selection(Budgets[n])
  BY <1>1, <1>2, SelectedOfTyped
<1>4. PromptOf[n] = SelectedOf(offered, Budgets[n])[Len(offered)].blocks
  BY DEF PromptOf, SelectGenerationChunks
<1> HIDE DEF offered
<1> QED BY <1>3, <1>4 DEF Selection

LEMMA FirstPlacesTyped ==
  ASSUME NEW X, NEW t \in Seq(X)
  PROVE  FirstPlaces(t) \in SUBSET (DOMAIN t)
BY DEF FirstPlaces

LEMMA ExtractiveTyped ==
  ASSUME NEW candidates \in Seq(Chunk), NEW limit \in Nat
  PROVE  LET chosen == ExtractiveSources(candidates, limit)
         IN  /\ chosen \in Seq(Chunk)
             /\ \A k \in DOMAIN chosen : \E j \in DOMAIN candidates : chosen[k] = candidates[j]
<1> DEFINE locations == [i \in DOMAIN candidates |-> candidates[i].location]
           firsts == FirstPlaces(locations)
           places == {i \in firsts : Cardinality({j \in firsts : j < i}) < limit}
<1>1. DOMAIN locations = DOMAIN candidates
  OBVIOUS
<1>2. firsts \subseteq DOMAIN candidates
  BY <1>1 DEF FirstPlaces
<1>3. places \in SUBSET (DOMAIN candidates)
  BY <1>2
<1>4. ExtractiveSources(candidates, limit) = Picked(candidates, places)
  BY DEF ExtractiveSources
<1> HIDE DEF places
<1> QED BY <1>3, <1>4, PickedTyped

-----------------------------------------------------------------------------
(* What the corrections make of a text, and the sources read out of it.    *)

\* Every source is a chunk of the prompt the citations are looked up in.
LEMMA SourcesTyped ==
  ASSUME NEW t \in Seq(Word), NEW prompt \in Seq(Chunk)
  PROVE  /\ SourcesOf(t, prompt) \in Seq(Nat)
         /\ \A k \in DOMAIN SourcesOf(t, prompt) :
              \E j \in DOMAIN prompt : prompt[j].id = SourcesOf(t, prompt)[k]
<1> DEFINE Cited(i) == prompt[CitedSource(t[i])]
           valid == {i \in DOMAIN t : ValidAt(t, i, prompt)}
           taken == {i \in valid : \A j \in valid : j < i => Cited(j).location # Cited(i).location}
           c == Cardinality(taken)
<1>1. SourcesOf(t, prompt) = [n \in DOMAIN InOrder(taken) |-> Cited(InOrder(taken)[n]).id]
  BY DEF SourcesOf
<1>2. taken \in SUBSET (1..Len(t)) /\ Len(t) \in Nat
  OBVIOUS
<1>3. \A i \in taken : CitedSource(t[i]) \in DOMAIN prompt
  BY DEF ValidAt
<1> HIDE DEF taken
<1>4. c \in Nat /\ InOrder(taken) \in [1..c -> taken]
  BY <1>2, InOrderTyped
<1>5. ASSUME NEW k \in 1..c
      PROVE  \E j \in DOMAIN prompt :
               Cited(InOrder(taken)[k]).id = prompt[j].id /\ prompt[j].id \in Nat
  <2>1. InOrder(taken)[k] \in taken
    BY <1>4
  <2>2. \A j \in DOMAIN prompt : prompt[j] \in Chunk
    OBVIOUS
  <2>3. \A chunk \in Chunk : chunk.id \in Nat
    BY DEF Chunk
  <2> QED BY <1>3, <2>1, <2>2, <2>3
<1> HIDE DEF c, Cited
<1>6. SourcesOf(t, prompt) = [n \in 1..c |-> Cited(InOrder(taken)[n]).id]
  BY <1>1, <1>4
<1>7. SourcesOf(t, prompt) \in [1..c -> Nat]
  BY <1>5, <1>6
<1>8. SourcesOf(t, prompt) \in Seq(Nat) /\ DOMAIN SourcesOf(t, prompt) = 1..c
  BY <1>4, <1>7
<1>9. \A k \in 1..c : \E j \in DOMAIN prompt : prompt[j].id = SourcesOf(t, prompt)[k]
  BY <1>5, <1>6
<1> QED BY <1>8, <1>9

LEMMA TokensAreWords == Seq(Token) \subseteq Seq(Word) /\ {"u", "v"} \subseteq Word
BY DEF Word, Token

LEMMA RepliesTyped == Replies \subseteq Seq(Word)
<1>1. \A t \in Replies : t \in Seq(Token)
  BY AnswerAssumption, BoundedTyped, Token \subseteq Token
<1> QED BY <1>1, TokensAreWords

LEMMA NormalizedDraft ==
  ASSUME NEW t \in Seq(Word)
  PROVE  Normalize(t) \in Draft
<1>1. Normalize(t) \in [text: Seq(Word), grounded: {"yes", "no"}]
  BY NormalizeTyped, TokensAreWords
<1> QED BY <1>1 DEF Draft, Decision

LEMMA Emptied ==
  ASSUME NEW d \in Draft
  PROVE  [d EXCEPT !.text = <<>>] \in Draft
<1>1. <<>> \in Seq(Word)
  OBVIOUS
<1> QED BY <1>1 DEF Draft

LEMMA CutTyped ==
  ASSUME NEW t \in Seq(Word), Repetitive(t)
  PROVE  BeforeRepetition(t) \in Seq(Word)
<1> DEFINE Begins(i) == t[i] = "r" /\ \A j \in 1..(i - 1) : t[j] # "r"
           S == {i \in DOMAIN t : t[i] = "r"}
           m == CHOOSE i \in DOMAIN t : Begins(i)
<1>1. S # {} /\ S \subseteq Nat
  BY DEF Repetitive, Contains
<1>2. PICK n \in S : \A i \in S : n <= i
  <2> HIDE DEF S
  <2> QED BY <1>1, LeastPlace
<1>3. n \in DOMAIN t /\ Begins(n)
  <2>1. \A j \in 1..(n - 1) : j \in DOMAIN t /\ ~(n <= j)
    BY <1>2
  <2> QED BY <1>2, <2>1
<1>4. m \in DOMAIN t
  <2> HIDE DEF Begins
  <2> QED BY <1>3
<1>5. m - 1 \in 0..Len(t) /\ 1 \in 1..(Len(t) + 1)
  <2> HIDE DEF m
  <2> QED BY <1>4
<1>6. BeforeRepetition(t) = RStrip(SubSeq(t, 1, m - 1))
  BY DEF BeforeRepetition
<1> HIDE DEF m
<1>7. SubSeq(t, 1, m - 1) \in Seq(Word)
  BY <1>5, PartOf
<1> QED BY <1>6, <1>7, StripTyped

LEMMA RetriedTyped ==
  ASSUME NEW t \in Seq(Word)
  PROVE  Retried(t) \subseteq Seq(Word)
BY RepliesTyped, CutTyped DEF Retried

LEMMA ValidatedTyped ==
  ASSUME NEW t \in Seq(Word), NEW prompt
  PROVE  Validated(t, prompt) \subseteq Seq(Word)
<1> DEFINE answer == Strip(t)
           claims == GroundedClaims(answer, prompt)
<1>1. \A s \in Seq(Word) : Strip(s) \in Seq(Word)
  BY StripTyped DEF Strip
<1>2. answer \in Seq(Word)
  BY <1>1
<1>3. claims \in Seq(Word)
  <2> DEFINE places == {i \in FirstPlaces(answer) : ValidAt(answer, i, prompt)}
  <2>1. places \in SUBSET (DOMAIN answer)
    BY <1>2, FirstPlacesTyped
  <2>2. claims = Picked(answer, places)
    BY DEF GroundedClaims
  <2> HIDE DEF places, claims, answer
  <2> QED BY <1>2, <2>1, <2>2, PickedTyped
<1>4. "lim" \in Word
  BY DEF Word
<1>5. Append(claims, "lim") \in Seq(Word)
  <2> HIDE DEF claims
  <2> QED BY <1>3, <1>4
<1>6. \A reply \in Replies : Strip(reply) \in Seq(Word)
  BY <1>1, RepliesTyped
<1> HIDE DEF answer
<1> QED BY <1>2, <1>3, <1>5, <1>6 DEF Validated, answer

LEMMA RepairedTyped ==
  ASSUME NEW t \in Seq(Word)
  PROVE  LiteralRepaired(t) \subseteq Seq(Word) /\ WithPrecondition(t) \in Seq(Word)
<1>1. <<"x">> \in Seq(Word)
  BY DEF Word
<1>2. LiteralRepaired(t) \subseteq Seq(Word)
  BY RepliesTyped DEF LiteralRepaired
<1>3. WithPrecondition(t) \in Seq(Word)
  BY <1>1 DEF WithPrecondition
<1> QED BY <1>2, <1>3

-----------------------------------------------------------------------------
(* The answer, the events and the sources.                                 *)

RequestTyped ==
  /\ question \in Questions /\ attempt \in Attempts
  /\ retryUsed \in BOOLEAN /\ suppress \in BOOLEAN /\ left \in 0..MaxTokens

AnswerTyped ==
  /\ draft \in Draft /\ generated \in Answer \cup {None} /\ stored \in Answer \cup {None}
  /\ revision \in Seq(Seq(Word)) /\ Len(revision) <= 1

EventsTyped ==
  /\ wire \in Seq(Event) /\ Len(wire) <= 1
  /\ linked \in BOOLEAN /\ client \in Shown

\* An answer whose sources are among the chunks that attempt n has shown the model.
Listed(a, n) ==
  /\ a \in Answer
  /\ \A i \in DOMAIN a.sources : \E j \in DOMAIN PromptOf[n] : PromptOf[n][j].id = a.sources[i]

\* The attempt does not change once there is an answer, and nothing is stored before.
AnswerListed ==
  /\ phase \in {"revision", "persist", "sources", "done"} => Listed(generated, attempt)
  /\ phase \in Unfinished \cup {"revision", "persist"} => stored = None
  /\ phase = "sources" => stored = generated
  /\ stored # None => Listed(stored, attempt)

SourcesInv == RequestTyped /\ AnswerTyped /\ EventsTyped /\ AnswerListed

LEMMA OneOrNone ==
  ASSUME NEW X, NEW s, s = <<>> \/ \E x \in X : s = <<x>>
  PROVE  s \in Seq(X) /\ Len(s) <= 1
<1>1. CASE s = <<>>
  BY <1>1
<1>2. CASE \E x \in X : s = <<x>>
  BY <1>2
<1> QED BY <1>1, <1>2

LEMMA InitSources == Init => SourcesInv
<1> SUFFICES ASSUME Init PROVE SourcesInv
  OBVIOUS
<1>1. 1 \in Attempts /\ MaxTokens \in 0..MaxTokens
  BY AnswerAssumption DEF Attempts
<1>2. [text |-> <<>>, grounded |-> "undecided"] \in Draft
  BY DEF Draft, Decision
<1>3. [text |-> <<>>, sources |-> <<>>, status |-> "open"] \in Shown
  BY DEF Shown
<1>4. RequestTyped
  BY <1>1 DEF Init, RequestTyped
<1>5. AnswerTyped
  BY <1>2 DEF Init, AnswerTyped
<1>6. EventsTyped
  BY <1>3 DEF Init, EventsTyped
<1>7. AnswerListed
  BY DEF Init, AnswerListed, Unfinished
<1> QED BY <1>4, <1>5, <1>6, <1>7 DEF SourcesInv

\* The attempt only changes while there is no answer.
LEMMA RequestStep ==
  ASSUME RequestTyped, [Next]_vars
  PROVE  RequestTyped'
<1>1. CASE Receive
  <2>1. PICK d \in Deltas : Len(d) <= left /\ left' = left - Len(d)
    BY <1>1 DEF Receive
  <2>2. d \in Seq(Token)
    BY AnswerAssumption, BoundedTyped DEF Deltas
  <2>3. left' \in 0..MaxTokens
    BY <2>1, <2>2, AnswerAssumption DEF RequestTyped
  <2> QED BY <1>1, <2>3 DEF RequestTyped, Receive
<1>2. CASE Complete
  <2>1. PICK t \in Texts : Len(t) <= left /\ left' = left - Len(t)
    BY <1>2 DEF Complete
  <2>2. t \in Seq(Token)
    BY AnswerAssumption, BoundedTyped DEF Texts
  <2>3. left' \in 0..MaxTokens
    BY <2>1, <2>2, AnswerAssumption DEF RequestTyped
  <2> QED BY <1>2, <2>3 DEF RequestTyped, Complete
<1>3. CASE RetryDegenerate \/ ValidateCitations \/ FinishAnswer
  <2>1. \E next, d : Corrected(next, d)
    BY <1>3 DEF RetryDegenerate, ValidateCitations, FinishAnswer
  <2>2. 0 \in 0..MaxTokens
    BY AnswerAssumption
  <2> QED BY <2>1, <2>2 DEF RequestTyped, Corrected
<1>4. CASE NextAttempt \/ ReduceOutput
  BY <1>4 DEF NextAttempt, ReduceOutput, RequestTyped
<1>5. ASSUME ~(\/ Receive \/ Complete \/ RetryDegenerate \/ ValidateCitations \/ FinishAnswer
               \/ NextAttempt \/ ReduceOutput)
      PROVE  UNCHANGED <<question, attempt, retryUsed, suppress, left>>
  BY <1>5 DEF Next, ServerStep, vars, server, AnswerCanned, BeginAnswer, ModelFails, Extract,
     EndStream, Persist, PersistFails, SendRevision, SendSources, SendDone, Respond, SendError,
     LeaveStream, At, ProcessEvent, LoseConnection
<1> QED BY <1>1, <1>2, <1>3, <1>4, <1>5 DEF RequestTyped

LEMMA EventsMade ==
  /\ \A t \in Seq(Word) :
       [kind |-> "delta", text |-> t] \in Event /\ [kind |-> "revision", text |-> t] \in Event
  /\ \A s \in Seq(Nat) : [kind |-> "sources", sources |-> s] \in Event
  /\ \A a \in Answer : [kind |-> "answer", answer |-> a] \in Event
  /\ [kind |-> "done"] \in Event /\ [kind |-> "error"] \in Event
BY DEF Event

\* An event under way is one the server makes.
LEMMA SentTyped ==
  ASSUME NEW e \in Event, Send(e)
  PROVE  wire' \in Seq(Event) /\ Len(wire') <= 1
<1>1. wire' = <<e>> \/ wire' = <<>>
  BY DEF Send
<1> QED BY <1>1, OneOrNone

LEMMA EmittedTyped ==
  ASSUME EventsTyped, NEW text \in Seq(Word), Emit(text) \/ Yield(text)
  PROVE  wire' \in Seq(Event) /\ Len(wire') <= 1
<1>1. CASE Send([kind |-> "delta", text |-> text])
  BY <1>1, EventsMade, SentTyped
<1>2. CASE wire' = wire
  BY <1>2 DEF EventsTyped
<1> QED BY <1>1, <1>2 DEF Emit, Yield, NoEvent

LEMMA ReadTyped ==
  ASSUME client \in Shown, NEW e \in Event
  PROVE  Read(e) \in Shown
<1>1. client.text \in Seq(Word) /\ client.sources \in Seq(Nat)
  BY DEF Shown
<1>2. CASE e \in [kind: {"delta", "revision"}, text: Seq(Word)]
  <2>1. e.text \in Seq(Word) /\ client.text \o e.text \in Seq(Word)
    BY <1>1, <1>2
  <2>2. CASE e.kind = "delta"
    <3>1. Read(e) = [client EXCEPT !.text = client.text \o e.text]
      BY <2>2 DEF Read
    <3> QED BY <2>1, <3>1 DEF Shown
  <2>3. CASE e.kind = "revision"
    <3>1. Read(e) = [client EXCEPT !.text = e.text]
      BY <2>3 DEF Read
    <3> QED BY <2>1, <3>1 DEF Shown
  <2> QED BY <1>2, <2>2, <2>3
<1>3. CASE e \in [kind: {"sources"}, sources: Seq(Nat)]
  <2>1. Read(e) = [client EXCEPT !.sources = e.sources] /\ e.sources \in Seq(Nat)
    BY <1>3 DEF Read
  <2> QED BY <2>1 DEF Shown
<1>4. CASE e \in [kind: {"answer"}, answer: Answer]
  <2>1. /\ Read(e) = [text |-> e.answer.text, sources |-> e.answer.sources, status |-> "done"]
        /\ e.answer \in Answer
    BY <1>4 DEF Read
  <2>2. e.answer.text \in Seq(Word) /\ e.answer.sources \in Seq(Nat)
    BY <2>1 DEF Answer
  <2> QED BY <2>1, <2>2 DEF Shown
<1>5. CASE e \in [kind: {"done", "error"}]
  <2>1. CASE e.kind = "done"
    <3>1. Read(e) = [client EXCEPT !.status = "done"]
      BY <2>1 DEF Read
    <3> QED BY <3>1 DEF Shown
  <2>2. CASE e.kind = "error"
    <3>1. Read(e) = Failed
      BY <2>2 DEF Read
    <3> QED BY <3>1 DEF Failed, Shown
  <2> QED BY <1>5, <2>1, <2>2
<1> QED BY <1>2, <1>3, <1>4, <1>5 DEF Event

LEMMA ServerWords == <<"canned">> \in Seq(Word) /\ <<"e">> \in Seq(Word)
BY DEF Word

LEMMA EventStep ==
  ASSUME TextsTyped, SourcesInv, [Next]_vars
  PROVE  EventsTyped'
<1>1. CASE AnswerCanned \/ Extract \/ Receive \/ EndStream
  <2>1. linked' = linked /\ client' = client
    BY <1>1 DEF AnswerCanned, Extract, Receive, EndStream
  <2>2. wire' = wire \/ \E text \in Seq(Word) : Emit(text) \/ Yield(text)
    <3>1. CASE AnswerCanned \/ Extract
      BY <3>1, ServerWords DEF AnswerCanned, Extract, NoEvent
    <3>2. CASE Receive
      <4>1. PICK d \in Deltas : Emit(Push(norm, d).out)
        BY <3>2 DEF Receive
      <4>2. d \in Seq(Token)
        BY AnswerAssumption, BoundedTyped DEF Deltas
      <4>3. Push(norm, d).out \in Seq(Word)
        BY <4>2, PushTyped, TokensAreWords DEF TextsTyped
      <4> QED BY <4>1, <4>3
    <3>3. CASE EndStream
      <4>1. Emit(Finish(norm).out)
        BY <3>3 DEF EndStream
      <4>2. Finish(norm).out \in Seq(Word)
        BY FinishTyped, TokensAreWords DEF TextsTyped
      <4> QED BY <4>1, <4>2
    <3> QED BY <1>1, <3>1, <3>2, <3>3
  <2>3. wire' \in Seq(Event) /\ Len(wire') <= 1
    BY <2>2, EmittedTyped DEF SourcesInv, EventsTyped
  <2> QED BY <2>1, <2>3 DEF SourcesInv, EventsTyped
<1>2. CASE SendRevision \/ SendSources \/ SendDone \/ Respond \/ SendError
  <2>1. linked' = linked /\ client' = client
    BY <1>2 DEF SendRevision, SendSources, SendDone, Respond, SendError, At
  <2>2. wire' = wire \/ \E e \in Event : Send(e)
    <3>1. CASE SendRevision
      <4>1. wire' = wire \/ (revision # <<>> /\ Send([kind |-> "revision", text |-> revision[1]]))
        BY <3>1 DEF SendRevision, NoEvent
      <4>2. revision # <<>> => revision[1] \in Seq(Word)
        BY DEF SourcesInv, AnswerTyped
      <4> QED BY <4>1, <4>2, EventsMade
    <3>2. CASE SendSources
      <4>1. Send([kind |-> "sources", sources |-> generated.sources]) /\ phase = "sources"
        BY <3>2 DEF SendSources, At
      <4>2. generated.sources \in Seq(Nat)
        BY <4>1 DEF SourcesInv, AnswerListed, Listed, Answer
      <4> QED BY <4>1, <4>2, EventsMade
    <3>3. CASE Respond
      <4>1. Send([kind |-> "answer", answer |-> stored]) /\ phase = "sources"
        BY <3>3 DEF Respond, At
      <4>2. stored \in Answer
        BY <4>1 DEF SourcesInv, AnswerListed, Listed
      <4> QED BY <4>1, <4>2, EventsMade
    <3>4. CASE SendDone \/ SendError
      BY <3>4, EventsMade DEF SendDone, SendError
    <3> QED BY <1>2, <3>1, <3>2, <3>3, <3>4
  <2>3. wire' \in Seq(Event) /\ Len(wire') <= 1
    BY <2>2, SentTyped DEF SourcesInv, EventsTyped
  <2> QED BY <2>1, <2>3 DEF SourcesInv, EventsTyped
<1>3. CASE ProcessEvent
  <2>1. wire # <<>> /\ client' = Read(wire[1]) /\ wire' = <<>> /\ linked' = linked
    BY <1>3 DEF ProcessEvent
  <2>2. wire[1] \in Event
    BY <2>1 DEF SourcesInv, EventsTyped
  <2>3. client' \in Shown
    BY <2>1, <2>2, ReadTyped DEF SourcesInv, EventsTyped
  <2> QED BY <2>1, <2>3 DEF SourcesInv, EventsTyped
<1>4. CASE LoseConnection
  <2>1. Failed \in Shown
    BY DEF Failed, Shown
  <2>2. wire' = <<>> /\ linked' = FALSE /\ client' = Failed
    BY <1>4 DEF LoseConnection
  <2>3. wire' \in Seq(Event) /\ Len(wire') <= 1
    BY <2>2, OneOrNone
  <2> QED BY <2>1, <2>2, <2>3 DEF EventsTyped
<1>5. ASSUME ~(\/ AnswerCanned \/ Extract \/ Receive \/ EndStream \/ SendRevision \/ SendSources
               \/ SendDone \/ Respond \/ SendError \/ ProcessEvent \/ LoseConnection)
      PROVE  UNCHANGED <<wire, linked, client>>
  BY <1>5 DEF Next, ServerStep, vars, BeginAnswer, ModelFails, ReduceOutput, NextAttempt,
     Complete, Persist, PersistFails, LeaveStream, RetryDegenerate, ValidateCitations,
     FinishAnswer, Corrected, At, NoEvent
<1> QED BY <1>1, <1>2, <1>3, <1>4, <1>5 DEF SourcesInv, EventsTyped

\* An answer of the server's own, the evidence's excerpts, and the corrected answer with
\* the sources its citations name.
LEMMA AnswerMade ==
  ASSUME TextsTyped, SourcesInv, AnswerCanned \/ Extract \/ FinishAnswer
  PROVE  /\ draft' \in Draft /\ Listed(generated', attempt)
         /\ revision' \in Seq(Seq(Word)) /\ Len(revision') <= 1
<1>1. PromptOf[attempt] \in Seq(Chunk)
  BY PromptTyped DEF SourcesInv, RequestTyped
<1>2. ASSUME NEW text \in Seq(Word), NEW sources \in Seq(Nat),
             \A i \in DOMAIN sources :
               \E j \in DOMAIN PromptOf[attempt] : PromptOf[attempt][j].id = sources[i]
      PROVE  Listed([text |-> text, sources |-> sources], attempt)
  BY <1>2 DEF Listed, Answer
<1>3. <<>> \in Seq(Nat) /\ DOMAIN <<>> = {}
  OBVIOUS
<1>4. CASE AnswerCanned
  <2>1. /\ generated' = [text |-> <<"canned">>, sources |-> <<>>]
        /\ draft' = draft /\ revision' = revision
    BY <1>4 DEF AnswerCanned
  <2> QED BY <1>2, <1>3, <2>1, ServerWords DEF SourcesInv, AnswerTyped
<1>5. CASE Extract
  <2> DEFINE chosen == ExtractiveSources(PromptOf[attempt], MaxExcerpts)
             answer == IF chosen = <<>> THEN <<"canned">> ELSE <<"e">>
  <2>1. /\ generated' = [text |-> answer, sources |-> Ids(chosen)]
        /\ draft' = draft /\ (revision' = <<answer>> \/ revision' = <<>>)
    BY <1>5 DEF Extract
  <2>2. answer \in Seq(Word)
    BY ServerWords
  <2>3. MaxExcerpts \in Nat
    BY AnswerAssumption
  <2>4. /\ chosen \in Seq(Chunk)
        /\ \A k \in DOMAIN chosen :
             \E j \in DOMAIN PromptOf[attempt] : chosen[k] = PromptOf[attempt][j]
    BY <1>1, <2>3, ExtractiveTyped
  <2> HIDE DEF chosen
  <2>5. Ids(chosen) \in Seq(Nat) /\ DOMAIN Ids(chosen) = DOMAIN chosen
    <3>1. \A i \in DOMAIN chosen : chosen[i] \in Chunk
      BY <2>4
    <3>2. \A chunk \in Chunk : chunk.id \in Nat
      BY DEF Chunk
    <3> QED BY <2>4, <3>1, <3>2 DEF Ids
  <2>6. \A i \in DOMAIN Ids(chosen) :
          \E j \in DOMAIN PromptOf[attempt] : PromptOf[attempt][j].id = Ids(chosen)[i]
    BY <2>4, <2>5 DEF Ids
  <2>7. Listed(generated', attempt)
    <3> HIDE DEF answer
    <3> QED BY <1>2, <2>1, <2>2, <2>5, <2>6
  <2>8. revision' \in Seq(Seq(Word)) /\ Len(revision') <= 1
    <3> HIDE DEF answer
    <3> QED BY <2>1, <2>2, OneOrNone
  <2> QED BY <2>1, <2>7, <2>8 DEF SourcesInv, AnswerTyped
<1>6. CASE FinishAnswer
  <2>1. PICK t \in LiteralRepaired(draft.text) :
          LET final == Normalize(t)
              text  == WithPrecondition(final.text)
          IN /\ draft' = [final EXCEPT !.text = <<>>]
             /\ revision' = IF Streaming /\ text # visible THEN <<text>> ELSE <<>>
             /\ generated' = [text |-> text,
                              sources |-> IF final.grounded = "yes"
                                          THEN SourcesOf(text, PromptOf[attempt]) ELSE <<>>]
    BY <1>6 DEF FinishAnswer, Corrected
  <2> DEFINE final == Normalize(t)
             text == WithPrecondition(final.text)
             sources == IF final.grounded = "yes" THEN SourcesOf(text, PromptOf[attempt]) ELSE <<>>
  <2>2. t \in Seq(Word)
    <3>1. draft.text \in Seq(Word)
      BY DEF SourcesInv, AnswerTyped, Draft
    <3> QED BY <3>1, RepairedTyped
  <2>3. final \in Draft
    BY <2>2, NormalizedDraft
  <2>4. text \in Seq(Word)
    <3>1. final.text \in Seq(Word)
      BY <2>3 DEF Draft
    <3> QED BY <3>1, RepairedTyped
  <2>5. draft' = [final EXCEPT !.text = <<>>] /\ draft' \in Draft
    <3>1. draft' = [final EXCEPT !.text = <<>>]
      BY <2>1
    <3> HIDE DEF final
    <3> QED BY <2>3, <3>1, Emptied
  <2>6. /\ generated' = [text |-> text, sources |-> sources]
        /\ revision' = <<text>> \/ revision' = <<>>
    BY <2>1
  <2>7. /\ sources \in Seq(Nat)
        /\ \A i \in DOMAIN sources :
             \E j \in DOMAIN PromptOf[attempt] : PromptOf[attempt][j].id = sources[i]
    <3> HIDE DEF text, final
    <3> QED BY <1>1, <1>3, <2>4, SourcesTyped
  <2> HIDE DEF text, sources
  <2>8. Listed(generated', attempt)
    BY <1>2, <2>4, <2>6, <2>7
  <2>9. revision' \in Seq(Seq(Word)) /\ Len(revision') <= 1
    BY <2>4, <2>6, OneOrNone
  <2> QED BY <2>5, <2>8, <2>9
<1> QED BY <1>4, <1>5, <1>6

LEMMA DraftStep ==
  ASSUME TextsTyped, SourcesInv, RetryDegenerate \/ ValidateCitations
  PROVE  draft' \in Draft
<1>1. raw \in Seq(Word) /\ norm.parts \in Seq(Word) /\ norm.grounded \in Decision
  BY TokensAreWords DEF TextsTyped, Normalizer
<1>2. draft \in Draft /\ draft.text \in Seq(Word)
  BY DEF SourcesInv, AnswerTyped, Draft
<1>3. CASE RetryDegenerate
  <2>1. PICK t \in Retried(IF Streaming THEN norm.parts ELSE raw) :
          draft' = IF Streaming THEN [text |-> t, grounded |-> norm.grounded] ELSE Normalize(t)
    BY <1>3 DEF RetryDegenerate, Corrected
  <2>2. t \in Seq(Word)
    BY <1>1, RetriedTyped
  <2> QED BY <1>1, <2>1, <2>2, NormalizedDraft DEF Draft
<1>4. CASE ValidateCitations
  <2>1. \/ \E t \in Validated(draft.text, PromptOf[attempt]) : draft' = Normalize(t)
        \/ draft' = Normalize(draft.text)
        \/ draft' = draft
    BY <1>4 DEF ValidateCitations, Corrected
  <2>2. Validated(draft.text, PromptOf[attempt]) \subseteq Seq(Word)
    BY <1>2, ValidatedTyped
  <2> QED BY <1>2, <2>1, <2>2, NormalizedDraft
<1> QED BY <1>3, <1>4

LEMMA AnswerStep ==
  ASSUME TextsTyped, SourcesInv, phase \in Phases, [Next]_vars
  PROVE  AnswerTyped' /\ AnswerListed'
<1>1. CASE AnswerCanned \/ Extract \/ FinishAnswer
  <2>1. /\ phase \in Unfinished /\ phase' = "revision" /\ UNCHANGED <<stored, attempt>>
    BY <1>1 DEF AnswerCanned, Extract, FinishAnswer, Corrected, Unfinished
  <2>2. /\ draft' \in Draft /\ Listed(generated', attempt)
        /\ revision' \in Seq(Seq(Word)) /\ Len(revision') <= 1
    BY <1>1, AnswerMade
  <2>3. AnswerTyped'
    BY <2>1, <2>2 DEF SourcesInv, AnswerTyped, Listed
  <2> QED BY <2>1, <2>2, <2>3 DEF SourcesInv, AnswerListed, Unfinished
<1>2. CASE RetryDegenerate \/ ValidateCitations
  <2>1. /\ phase \in Unfinished /\ phase' \in Unfinished
        /\ UNCHANGED <<stored, attempt, generated, revision>>
    BY <1>2 DEF RetryDegenerate, ValidateCitations, Corrected, Unfinished
  <2>2. draft' \in Draft
    BY <1>2, DraftStep
  <2> QED BY <2>1, <2>2 DEF SourcesInv, AnswerTyped, AnswerListed, Unfinished
<1>3. CASE BeginAnswer \/ Receive \/ EndStream \/ Complete \/ ReduceOutput \/ NextAttempt
  <2>1. /\ phase \in Unfinished /\ phase' \in Unfinished
        /\ UNCHANGED <<draft, stored, generated, revision>>
    BY <1>3 DEF BeginAnswer, Receive, EndStream, Complete, ReduceOutput, NextAttempt, server,
                Unfinished
  <2> QED BY <2>1 DEF SourcesInv, AnswerTyped, AnswerListed, Unfinished
<1>4. CASE Persist
  <2>1. /\ phase = "persist" /\ phase' = "sources" /\ stored' = generated
        /\ UNCHANGED <<draft, attempt, generated, revision>>
    BY <1>4 DEF Persist, At
  <2> QED BY <2>1 DEF SourcesInv, AnswerTyped, AnswerListed, Unfinished
<1>5. CASE \/ ModelFails \/ PersistFails \/ SendRevision \/ SendSources \/ SendDone \/ Respond
            \/ SendError \/ LeaveStream \/ ProcessEvent \/ LoseConnection \/ UNCHANGED vars
  <2>1. UNCHANGED <<draft, attempt, generated, stored, revision>>
    BY <1>5 DEF ModelFails, PersistFails, SendRevision, SendSources, SendDone, Respond, SendError,
                LeaveStream, ProcessEvent, LoseConnection, vars, server, At
  <2>2. \/ phase' = phase \/ phase' \in {"error", "ended", "cancelled"}
        \/ phase = "revision" /\ phase' = "persist"
        \/ phase = "sources" /\ phase' = "done"
    BY <1>5 DEF ModelFails, PersistFails, SendRevision, SendSources, SendDone, Respond, SendError,
                LeaveStream, ProcessEvent, LoseConnection, vars, At
  <2> QED BY <2>1, <2>2 DEF SourcesInv, AnswerTyped, AnswerListed, Unfinished
<1> QED BY <1>1, <1>2, <1>3, <1>4, <1>5 DEF Next, ServerStep

\* The two inductive invariants together: what a text is made of, and what becomes of it.
TypedInv == IInv /\ MarkerInv /\ SourcesInv

THEOREM TypedInvariance == Spec => []TypedInv
<1>1. Init => TypedInv
  BY InitIInv, InitMarker, InitSources DEF TypedInv
<1>2. TypedInv /\ [Next]_vars => TypedInv'
  <2> SUFFICES ASSUME TypedInv, [Next]_vars PROVE TypedInv'
    OBVIOUS
  <2>1. phase \in Phases /\ TextsTyped
    BY DEF TypedInv, IInv, MarkerInv
  <2>2. RequestTyped' /\ EventsTyped'
    BY <2>1, RequestStep, EventStep DEF TypedInv, SourcesInv
  <2>3. AnswerTyped' /\ AnswerListed'
    BY <2>1, AnswerStep DEF TypedInv
  <2> QED BY <2>2, <2>3, NextIInv, NextMarker DEF TypedInv, SourcesInv
<1> QED BY <1>1, <1>2, PTL DEF Spec

\* Every state of an answer is typed: what the normaliser, the corrections and the prompt
\* selection make of any text and any chunks.
THEOREM TypeCorrect == Spec => []TypeOK
<1>1. TypedInv => TypeOK
  <2> SUFFICES ASSUME TypedInv PROVE TypeOK
    OBVIOUS
  <2>1. attempt \in Attempts /\ speakers \subseteq 1..attempt
    BY DEF TypedInv, MarkerInv, TextsTyped, SourcesInv, RequestTyped
  <2>2. 1..attempt \subseteq Attempts
    <3>1. Attempts = 1..Len(Budgets) /\ Len(Budgets) \in Nat
      BY AnswerAssumption DEF Attempts
    <3> QED BY <2>1, <3>1
  <2>3. speakers \subseteq Attempts
    BY <2>1, <2>2
  <2> QED BY <2>1, <2>3
          DEF TypedInv, IInv, Phases, Unfinished, MarkerInv, TextsTyped, SourcesInv, RequestTyped,
              AnswerTyped, EventsTyped, TypeOK
<1> QED BY <1>1, TypedInvariance, PTL

\* A stored source is a chunk the model was shown in the attempt whose answer is stored, for
\* every budget and every text: not one dropped to make the prompt fit (generator.py:253).
THEOREM SourcesShown == Spec => []SourcesWereShown
<1>1. TypedInv => SourcesWereShown
  BY DEF TypedInv, SourcesInv, AnswerListed, Listed, SourcesWereShown
<1> QED BY <1>1, TypedInvariance, PTL

=============================================================================
