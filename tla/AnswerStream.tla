---------------------------- MODULE AnswerStream ----------------------------
(***************************************************************************)
(* One answer, from the first call of the language model to the text on    *)
(* the user's screen: the attempts with an ever smaller prompt, the        *)
(* normaliser that holds the beginning of a stream back, the corrections   *)
(* after the last token, the events sent to the browser and the browser's  *)
(* reading of them.  The same answer without streaming is the mode "sync". *)
(*                                                                         *)
(* A text is a sequence of tokens:                                         *)
(*   "[[" "NS"   the NO_SOURCE marker, which a model may also write with a *)
(*               space inside                                              *)
(*   "sp"        white space                                               *)
(*   "u" "v"     the two halves of the sentence that says nothing was found*)
(*   "w"         a claim without a citation                                *)
(*   "c1" "c2"   a claim citing Source 1, Source 2                         *)
(*   "r"         the same few characters over and over                     *)
(* and, of the server's own: "x" the reminder put before an answer about   *)
(* excluded files, "lim" the remark after the claims that were kept,       *)
(* "canned" a fixed answer, "e" an excerpt of the evidence.                *)
(***************************************************************************)
EXTENDS PromptContext, SequencesExt

CONSTANTS
  Alphabet,    \* tokens the model answers with
  MaxTokens,   \* bound: tokens the model answers with, all attempts together
  MaxDelta,    \* bound: tokens of one delta
  Replies,     \* bound: texts the model corrects an answer to
  Questions,   \* [mode, gate, excluded, literal]: what the request is about
  Retrieved,   \* the chunks retrieved, best first
  Evidence,    \* ids of the chunks the evidence matrix refers to
  Budgets,     \* context characters of attempts 1, 2, ...: GENERATION_ATTEMPTS
  MaxExcerpts, \* MAX_EXTRACTIVE_SOURCES
  None

Token == {"[[", "NS", "sp", "u", "v", "w", "c1", "c2", "r"}
Word == Token \cup {"x", "lim", "canned", "e"}
Texts == BoundedSeq(Alphabet, MaxTokens)
Deltas == {t \in BoundedSeq(Alphabet, MaxDelta) : t # <<>>}
Attempts == DOMAIN Budgets

ASSUME AnswerAssumption ==
  /\ Alphabet \subseteq Token /\ MaxTokens \in Nat /\ MaxDelta \in Nat
  /\ Replies \subseteq BoundedSeq(Token, 5)
  /\ Retrieved \in Seq(Chunk) /\ MaxExcerpts \in Nat
  /\ Budgets \in Seq(Nat) /\ Budgets # <<>>
  /\ \A q \in Questions :
       /\ q.mode \in {"stream", "sync"} /\ q.gate \in {"none", "canned"}
       /\ q.excluded \in BOOLEAN /\ q.literal \in BOOLEAN

VARIABLES
  question,  \* the request
  phase,     \* where the server is
  attempt,   \* which of the GENERATION_ATTEMPTS
  retryUsed, \* context_retry_used: the output budget has been reduced once
  suppress,  \* suppress_deltas: the attempt is silent
  left,      \* bound: tokens the model may still send
  raw,       \* what the model has sent in this attempt
  norm,      \* the attempt's _StreamingSourceNormalizer
  visible,   \* visible_parts, joined
  draft,     \* [text, grounded]: the answer being corrected
  generated, \* the GeneratedAnswer, once there is one
  revision,  \* the text that replaces the deltas: one or none
  stored,    \* the answer committed to the session
  wire,      \* the event on its way to the browser: one or none
  linked,    \* the connection is up
  client,    \* what the browser has made of the events
  speakers   \* history: attempts whose text went to the browser

server == <<question, attempt, retryUsed, suppress, left, raw, norm, draft, generated, revision, stored>>
vars == <<server, phase, visible, wire, linked, client, speakers>>

Undecided == [pending |-> <<>>, parts |-> <<>>, grounded |-> "undecided"]

-----------------------------------------------------------------------------
(* What the code reads out of a text.                                      *)

NotFound == <<"u", "v">>
Marker == <<"[[", "NS">>

Solid(t) == {i \in DOMAIN t : t[i] # "sp"}
LStrip(t) ==
  SubSeq(t, CHOOSE i \in 1..(Len(t) + 1) :
              (i \in Solid(t) \/ i > Len(t)) /\ \A j \in Solid(t) : i <= j, Len(t))
RStrip(t) ==
  SubSeq(t, 1, CHOOSE i \in 0..Len(t) : (i \in Solid(t) \/ i = 0) /\ \A j \in Solid(t) : j <= i)
Strip(t) == LStrip(RStrip(t))

\* NO_SOURCE_MARKER_PATTERN, which allows white space around its parts.
MarkerEnd(t) ==
  {j \in DOMAIN t : t[j] = "NS" /\ \E i \in 1..(j - 1) :
     t[i] = "[[" /\ \A k \in 1..(j - 1) : k = i \/ t[k] = "sp"}
HasMarker(t) == MarkerEnd(t) # {}
BehindMarker(t) == LStrip(SubSeq(t, 1 + CHOOSE j \in MarkerEnd(t) : TRUE, Len(t)))

\* _normalize_source_decision
Normalize(t) ==
  IF HasMarker(t)
  THEN [text |-> IF Solid(BehindMarker(t)) = {} THEN NotFound ELSE RStrip(BehindMarker(t)),
        grounded |-> "no"]
  ELSE [text |-> t, grounded |-> IF IsPrefix(NotFound, LStrip(t)) THEN "no" ELSE "yes"]

\* Variant: a beginning that may still become the marker is let through.
DecideAtOnce(t) ==
  IF LStrip(t) = <<>> THEN "undecided"
  ELSE IF HasMarker(t) \/ IsPrefix(NotFound, LStrip(t)) THEN "no" ELSE "yes"

\* _detect_stream_source_decision
Decide(t) ==
  LET c == LStrip(t)
  IN IF IsPrefix(c, Marker) THEN "undecided"
     ELSE IF HasMarker(c) THEN "no"
     ELSE IF IsPrefix(c, NotFound) THEN "undecided"
     ELSE IF IsPrefix(NotFound, c) THEN "no"
     ELSE "yes"

CitedSource(token) == CASE token = "c1" -> 1 [] token = "c2" -> 2 [] OTHER -> 0
Cites(t) == \E i \in DOMAIN t : CitedSource(t[i]) > 0
ValidAt(t, i, prompt) == CitedSource(t[i]) \in DOMAIN prompt
InvalidCitation(t, prompt) == \E i \in DOMAIN t : CitedSource(t[i]) > Len(prompt)
ValidCitation(t, prompt) == \E i \in DOMAIN t : ValidAt(t, i, prompt)

\* answer_needs_citation_repair
NeedsRepair(t, prompt) ==
  \/ InvalidCitation(t, prompt)
  \/ ~ValidCitation(t, prompt)
  \/ \E i \in DOMAIN t : t[i] \in {"u", "v", "w"}

\* The claims that carry a valid citation, each once.
GroundedClaims(t, prompt) == Picked(t, {i \in FirstPlaces(t) : ValidAt(t, i, prompt)})

\* What validate_answer_citations may return: the answer, where nothing is
\* to be repaired, the call fails or its reply is of no use; the reply; or,
\* when the reply rejects everything, the claims that were grounded.
Validated(t, prompt) ==
  LET answer == Strip(t)
      Checked(reply) ==
        IF Strip(reply) = <<>> THEN answer
        ELSE IF HasMarker(Strip(reply))
        THEN IF GroundedClaims(answer, prompt) = <<>> THEN Strip(reply)
             ELSE Append(GroundedClaims(answer, prompt), "lim")
        ELSE IF InvalidCitation(Strip(reply), prompt) \/ ~ValidCitation(Strip(reply), prompt)
        THEN answer ELSE Strip(reply)
  IN IF prompt = <<>> \/ HasMarker(answer) \/ ~NeedsRepair(answer, prompt) THEN {answer}
     ELSE {answer} \cup {Checked(reply) : reply \in Replies}

\* _repair_literal_fidelity: an attempt that loses every citation is refused.
\* The restorations that follow it change letters inside a claim only.
LiteralRepaired(t) ==
  IF ~question.literal THEN {t}
  ELSE {t} \cup {reply \in Replies : Cites(t) => Cites(reply)}

Repetitive(t) == Contains(t, "r")
BeforeRepetition(t) ==
  RStrip(SubSeq(t, 1, (CHOOSE i \in DOMAIN t : t[i] = "r" /\ \A j \in 1..(i - 1) : t[j] # "r") - 1))

\* _retry_degenerate_answer: one more call, and a cut if that repeats too.
Retried(t) ==
  IF ~Repetitive(t) THEN {t}
  ELSE {IF Repetitive(reply) THEN BeforeRepetition(reply) ELSE reply : reply \in Replies \cup {t}}

\* question.excluded: about excluded files, in an answer that does not speak of
\* releasing them.
WithPrecondition(t) == IF question.excluded THEN <<"x">> \o t ELSE t

\* The Source blocks of every attempt's prompt.
PromptOf == [n \in Attempts |-> SelectGenerationChunks(Retrieved, Evidence, Budgets[n])]

\* _sources_for_citations, as chunk ids: one source per location.
SourcesOf(t, prompt) ==
  LET Cited(i) == prompt[CitedSource(t[i])]
      valid == {i \in DOMAIN t : ValidAt(t, i, prompt)}
      taken == {i \in valid : \A j \in valid : j < i => Cited(j).location # Cited(i).location}
  IN [n \in DOMAIN InOrder(taken) |-> Cited(InOrder(taken)[n]).id]

Ids(chunks) == [i \in DOMAIN chunks |-> chunks[i].id]

-----------------------------------------------------------------------------
Decision == {"undecided", "yes", "no"}
Normalizer == [pending: Seq(Token), parts: Seq(Token), grounded: Decision]
Draft == [text: Seq(Word), grounded: Decision]
Answer == [text: Seq(Word), sources: Seq(Nat)]
Event ==
  [kind: {"delta", "revision"}, text: Seq(Word)] \cup [kind: {"sources"}, sources: Seq(Nat)]
  \cup [kind: {"answer"}, answer: Answer] \cup [kind: {"done", "error"}]
Shown == [text: Seq(Word), sources: Seq(Nat), status: {"open", "done", "failed"}]

TypeOK ==
  /\ question \in Questions
  /\ phase \in {"gate", "stream", "degenerate", "citations", "literal", "revision",
                "persist", "sources", "done", "error", "ended", "cancelled"}
  /\ attempt \in Attempts /\ retryUsed \in BOOLEAN /\ suppress \in BOOLEAN /\ left \in 0..MaxTokens
  /\ raw \in Seq(Token) /\ norm \in Normalizer /\ visible \in Seq(Word)
  /\ draft \in Draft /\ generated \in Answer \cup {None} /\ stored \in Answer \cup {None}
  /\ revision \in Seq(Seq(Word)) /\ Len(revision) <= 1
  /\ wire \in Seq(Event) /\ Len(wire) <= 1
  /\ linked \in BOOLEAN /\ client \in Shown /\ speakers \subseteq Attempts

Init ==
  /\ question \in Questions
  /\ phase = "gate" /\ attempt = 1 /\ retryUsed = FALSE /\ suppress = FALSE /\ left = MaxTokens
  /\ raw = <<>> /\ norm = Undecided /\ visible = <<>>
  /\ draft = [text |-> <<>>, grounded |-> "undecided"]
  /\ generated = None /\ revision = <<>> /\ stored = None
  /\ wire = <<>> /\ linked = TRUE
  /\ client = [text |-> <<>>, sources |-> <<>>, status |-> "open"]
  /\ speakers = {}

\* The answer is StreamingAnswer's, else generate_answer's: the same steps without
\* a normaliser, and nothing handed out before the end.
Streaming == question.mode = "stream"

-----------------------------------------------------------------------------
(* Events.  The next one leaves when the browser has taken the last; what  *)
(* is sent into a broken connection is gone.                               *)

Send(e) == (linked => wire = <<>>) /\ wire' = (IF linked THEN <<e>> ELSE <<>>)

NoEvent == UNCHANGED wire

Yield(text) ==
  /\ visible' = visible \o text
  /\ Send([kind |-> "delta", text |-> text])

Emit(text) ==
  IF text = <<>> \/ suppress
  THEN UNCHANGED <<visible, speakers>> /\ NoEvent
  ELSE Yield(text) /\ speakers' = speakers \cup {attempt}

-----------------------------------------------------------------------------
(* The attempts.                                                           *)

Push(n, d) ==
  LET held == n.pending \o d
      said == IF Decide(held) = "yes" THEN held ELSE Normalize(held).text
  IN IF n.grounded # "undecided"
     THEN [norm |-> [n EXCEPT !.parts = @ \o d], out |-> d]
     ELSE IF Decide(held) = "undecided"
     THEN [norm |-> [n EXCEPT !.pending = held], out |-> <<>>]
     ELSE [norm |-> [pending |-> <<>>, parts |-> said, grounded |-> Decide(held)], out |-> said]

Finish(n) ==
  LET last == Normalize(n.pending)
      f == IF n.grounded # "undecided" THEN [norm |-> n, out |-> <<>>]
           ELSE [norm |-> [pending |-> <<>>, parts |-> last.text, grounded |-> last.grounded],
                 out |-> last.text]
  IN IF f.norm.parts = <<>> /\ f.norm.grounded = "no"
     THEN [norm |-> [f.norm EXCEPT !.parts = NotFound], out |-> NotFound]
     ELSE f

\* No context, no usable visual evidence, or a question that must be put
\* more precisely: a fixed answer, and no call of the model.
AnswerCanned ==
  /\ phase = "gate" /\ question.gate = "canned"
  /\ phase' = "revision"
  /\ generated' = [text |-> <<"canned">>, sources |-> <<>>]
  /\ IF Streaming THEN Yield(<<"canned">>) ELSE UNCHANGED visible /\ NoEvent
  /\ UNCHANGED <<question, attempt, retryUsed, suppress, left, raw, norm, draft, revision, stored,
                 linked, client, speakers>>

BeginAnswer ==
  /\ phase = "gate" /\ question.gate = "none"
  /\ phase' = "stream"
  /\ UNCHANGED <<server, visible, wire, linked, client, speakers>>

Receive ==
  /\ phase = "stream" /\ Streaming
  /\ \E d \in Deltas :
       /\ Len(d) <= left /\ left' = left - Len(d)
       /\ raw' = raw \o d
       /\ norm' = Push(norm, d).norm
       /\ Emit(Push(norm, d).out)
  /\ UNCHANGED <<question, phase, attempt, retryUsed, suppress, draft, generated, revision, stored,
                 linked, client>>

EndStream ==
  /\ phase = "stream" /\ Streaming
  /\ phase' = "degenerate"
  /\ norm' = Finish(norm).norm
  /\ Emit(Finish(norm).out)
  /\ UNCHANGED <<question, attempt, retryUsed, suppress, left, raw, draft, generated, revision, stored,
                 linked, client>>

\* chat_completion returns the whole text.
Complete ==
  /\ phase = "stream" /\ ~Streaming
  /\ \E t \in Texts : Len(t) <= left /\ left' = left - Len(t) /\ raw' = t
  /\ phase' = "degenerate"
  /\ UNCHANGED <<question, attempt, retryUsed, suppress, norm, draft, generated, revision, stored,
                 visible, wire, linked, client, speakers>>

\* Variant: the output budget is reduced again and again: the
\* reduction is forgotten once it is used up.
ReduceOutputAgain ==
  /\ phase = "stream" /\ raw = <<>>
  /\ retryUsed' = ~retryUsed
  /\ UNCHANGED <<question, phase, attempt, suppress, left, raw, norm, draft, generated, revision, stored,
                 visible, wire, linked, client, speakers>>

\* The context was exceeded before the first delta: once per attempt the
\* call is repeated with a smaller output budget, if that can help.
ReduceOutput ==
  /\ phase = "stream" /\ raw = <<>> /\ ~retryUsed
  /\ retryUsed' = TRUE
  /\ UNCHANGED <<question, phase, attempt, suppress, left, raw, norm, draft, generated, revision, stored,
                 visible, wire, linked, client, speakers>>

\* Variant: suppress_deltas is computed once, before the first attempt.
NextAttemptAloud ==
  /\ phase = "stream" /\ attempt + 1 \in Attempts
  /\ attempt' = attempt + 1
  /\ raw' = <<>> /\ norm' = Undecided /\ retryUsed' = FALSE
  /\ UNCHANGED <<question, phase, suppress, left, draft, generated, revision, stored,
                 visible, wire, linked, client, speakers>>

\* ContextLengthExceededError: the next attempt has a smaller prompt, and is
\* silent if anything has been handed out already.
NextAttempt ==
  /\ phase = "stream" /\ attempt + 1 \in Attempts
  /\ attempt' = attempt + 1
  /\ suppress' = (visible # <<>>)
  /\ raw' = <<>> /\ norm' = Undecided /\ retryUsed' = FALSE
  /\ UNCHANGED <<question, phase, left, draft, generated, revision, stored,
                 visible, wire, linked, client, speakers>>

\* Variant: the excerpt is appended to what an attempt has already said.
ExtractAppending ==
  /\ phase = "stream" /\ attempt + 1 \notin Attempts
  /\ LET chosen == ExtractiveSources(PromptOf[attempt], MaxExcerpts)
         answer == IF chosen = <<>> THEN <<"canned">> ELSE <<"e">>
     IN /\ generated' = [text |-> answer, sources |-> Ids(chosen)]
        /\ UNCHANGED revision
        /\ IF ~Streaming THEN UNCHANGED visible /\ NoEvent ELSE Yield(answer)
  /\ phase' = "revision"
  /\ UNCHANGED <<question, attempt, retryUsed, suppress, left, raw, norm, draft, stored,
                 linked, client, speakers>>

\* No attempt fits: excerpts of the evidence, as a correction of whatever an
\* attempt had already said.
Extract ==
  /\ phase = "stream" /\ attempt + 1 \notin Attempts
  /\ LET chosen == ExtractiveSources(PromptOf[attempt], MaxExcerpts)
         answer == IF chosen = <<>> THEN <<"canned">> ELSE <<"e">>
     IN /\ generated' = [text |-> answer, sources |-> Ids(chosen)]
        /\ revision' = IF Streaming /\ visible # <<>> THEN <<answer>> ELSE <<>>
        /\ IF ~Streaming \/ visible # <<>> THEN UNCHANGED visible /\ NoEvent ELSE Yield(answer)
  /\ phase' = "revision"
  /\ UNCHANGED <<question, attempt, retryUsed, suppress, left, raw, norm, draft, stored,
                 linked, client, speakers>>

\* Any other error of the model ends the answer.
ModelFails ==
  /\ phase = "stream"
  /\ phase' = "error"
  /\ UNCHANGED <<server, visible, wire, linked, client, speakers>>

-----------------------------------------------------------------------------
(* The corrections.                                                        *)

\* What the stream was made of is not looked at again.
Corrected(next, d) ==
  /\ phase' = next /\ draft' = d
  /\ raw' = <<>> /\ norm' = Undecided /\ retryUsed' = FALSE /\ suppress' = FALSE /\ left' = 0
  /\ UNCHANGED <<question, attempt, stored, visible, wire, linked, client, speakers>>

\* A stream keeps the decision its normaliser took; the synchronous answer
\* is judged here.
RetryDegenerate ==
  /\ phase = "degenerate"
  /\ \E t \in Retried(IF Streaming THEN norm.parts ELSE raw) :
       Corrected("citations",
                 IF Streaming THEN [text |-> t, grounded |-> norm.grounded] ELSE Normalize(t))
  /\ UNCHANGED <<generated, revision>>

ValidateCitations ==
  /\ phase = "citations"
  /\ IF draft.grounded = "yes"
     THEN \E t \in Validated(draft.text, PromptOf[attempt]) : Corrected("literal", Normalize(t))
     ELSE Corrected("literal", IF Streaming THEN Normalize(draft.text) ELSE draft)
  /\ UNCHANGED <<generated, revision>>

\* Variant: a source is looked up among all the chunks that were retrieved.
FinishWithAllChunks ==
  /\ phase = "literal"
  /\ \E t \in LiteralRepaired(draft.text) :
       LET final == Normalize(t)
           text  == WithPrecondition(final.text)
       IN /\ Corrected("revision", [final EXCEPT !.text = <<>>])
          /\ revision' = IF Streaming /\ text # visible THEN <<text>> ELSE <<>>
          /\ generated' = [text |-> text,
                           sources |-> IF final.grounded = "yes"
                                       THEN SourcesOf(text, Retrieved) ELSE <<>>]

\* The last corrections and the sources, read out of the final text.
FinishAnswer ==
  /\ phase = "literal"
  /\ \E t \in LiteralRepaired(draft.text) :
       LET final == Normalize(t)
           text  == WithPrecondition(final.text)
       IN /\ Corrected("revision", [final EXCEPT !.text = <<>>])
          /\ revision' = IF Streaming /\ text # visible THEN <<text>> ELSE <<>>
          /\ generated' = [text |-> text,
                           sources |-> IF final.grounded = "yes"
                                       THEN SourcesOf(text, PromptOf[attempt]) ELSE <<>>]

-----------------------------------------------------------------------------
(* The end of the request.                                                 *)

At(pc, next) ==
  /\ phase = pc /\ phase' = next
  /\ UNCHANGED <<question, attempt, retryUsed, suppress, left, raw, norm, draft, generated, revision,
                 visible, linked, client, speakers>>

SendRevision ==
  /\ At("revision", "persist")
  /\ IF revision = <<>> THEN NoEvent ELSE Send([kind |-> "revision", text |-> revision[1]])
  /\ UNCHANGED stored

Persist == At("persist", "sources") /\ stored' = generated /\ NoEvent
PersistFails == At("persist", "error") /\ UNCHANGED stored /\ NoEvent

SendSources ==
  /\ Streaming /\ At("sources", "done")
  /\ Send([kind |-> "sources", sources |-> generated.sources])
  /\ UNCHANGED stored

SendDone ==
  /\ Streaming /\ At("done", "ended")
  /\ Send([kind |-> "done"])
  /\ UNCHANGED stored

\* The synchronous answer is one response.
Respond ==
  /\ ~Streaming /\ At("sources", "ended")
  /\ Send([kind |-> "answer", answer |-> stored])
  /\ UNCHANGED stored

SendError == At("error", "ended") /\ Send([kind |-> "error"]) /\ UNCHANGED stored

\* A generator can only be closed where it has handed out an event.
AtYield ==
  \/ phase \in {"stream", "degenerate", "done"}
  \/ phase = "persist" /\ revision # <<>>
  \/ phase = "revision" /\ draft.grounded = "undecided"

LeaveStream ==
  /\ ~linked /\ Streaming /\ AtYield
  /\ phase' = "cancelled"
  /\ UNCHANGED <<server, visible, wire, linked, client, speakers>>

-----------------------------------------------------------------------------
(* The browser: streamQuestion.                                            *)

\* A failed answer is thrown away; the message says what went wrong.
Failed == [text |-> <<>>, sources |-> <<>>, status |-> "failed"]

Read(e) ==
  CASE e.kind = "delta"    -> [client EXCEPT !.text = @ \o e.text]
    [] e.kind = "revision" -> [client EXCEPT !.text = e.text]
    [] e.kind = "sources"  -> [client EXCEPT !.sources = e.sources]
    [] e.kind = "done"     -> [client EXCEPT !.status = "done"]
    [] e.kind = "error"    -> Failed
    [] e.kind = "answer"   -> [text |-> e.answer.text, sources |-> e.answer.sources,
                               status |-> "done"]

ProcessEvent ==
  /\ wire # <<>>
  /\ client' = Read(wire[1]) /\ wire' = <<>>
  /\ UNCHANGED <<server, phase, visible, linked, speakers>>

\* The connection breaks; the browser reports a failure.
LoseConnection ==
  /\ linked /\ client.status = "open"
  /\ linked' = FALSE /\ wire' = <<>>
  /\ client' = Failed
  /\ UNCHANGED <<server, phase, visible, speakers>>

ServerStep ==
  \/ AnswerCanned \/ BeginAnswer
  \/ ModelFails \/ ReduceOutput \/ NextAttempt \/ Extract
  \/ EndStream
  \/ Receive
  \/ Complete
  \/ PersistFails \/ Persist
  \/ SendRevision \/ SendSources \/ SendDone \/ Respond \/ SendError
  \/ LeaveStream
  \/ RetryDegenerate \/ ValidateCitations \/ FinishAnswer

Next == ServerStep \/ ProcessEvent \/ LoseConnection

Spec == Init /\ [][Next]_vars

\* Every call of the model ends, by its token limit or the client's timeout;
\* the browser reads what arrives.
FairSpec == Spec /\ WF_vars(ServerStep) /\ WF_vars(ProcessEvent)

-----------------------------------------------------------------------------
(* Properties.                                                             *)

\* An answer the browser was told is complete is the stored one, word for
\* word and source for source: deltas, at most one correction and the
\* sources add up to it (generator.py:250, api-client.js:282).
DoneShowsStored ==
  client.status = "done" => client.text = stored.text /\ client.sources = stored.sources

\* What the browser shows before a correction comes from one attempt: the
\* beginning of an abandoned answer is never continued by another, and an
\* attempt that has begun to speak hands out all it is made into, not its
\* first delta only (generator.py:194, 200-209).
OneAttemptSpeaks ==
  /\ Cardinality(speakers) <= 1
  /\ phase \in {"stream", "degenerate"} /\ attempt \in speakers => visible = norm.parts

\* A marker written as the prompt demands it is never handed out, however it
\* is cut into deltas (generator.py:770).
MarkerIsHeld ==
  IsPrefix(Marker, raw) /\ ~Contains(Tail(raw), "[[") /\ attempt \in speakers
    => ~HasMarker(visible)

\* A source is a chunk the model was shown under that number in the attempt
\* whose answer is stored, not one dropped to make the prompt fit
\* (generator.py:253).
SourcesWereShown ==
  stored # None => \A i \in DOMAIN stored.sources :
    \E j \in DOMAIN PromptOf[attempt] : PromptOf[attempt][j].id = stored.sources[i]

\* Every answer ends, for the server and for the browser.
AnswerEnds == <>(phase \in {"ended", "cancelled"} /\ client.status # "open")

\* generator.py:769: the normaliser holds the beginning of a stream back so
\* that the marker does not leak to the user.
NoMarkerLeaks == ~HasMarker(client.text)

=============================================================================
