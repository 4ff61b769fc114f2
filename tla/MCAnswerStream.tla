--------------------------- MODULE MCAnswerStream ---------------------------
(* Instances of AnswerStream for TLC. *)
EXTENDS AnswerStream

\* Two chunks of one page and one of another; the evidence matrix refers to
\* the last.  The three budgets hold three, two and one of them.
ThreeChunks == <<[id |-> 1, location |-> "p1", size |-> 5],
                 [id |-> 2, location |-> "p1", size |-> 4],
                 [id |-> 3, location |-> "p2", size |-> 3]>>
ThreeBudgets == <<16, 9, 4>>

\* A corrected answer may be grounded, cite what is not there, repeat itself,
\* reject everything.
SomeReplies == {<<"c1">>, <<"w", "c2">>, <<"r">>, <<"[[", "NS", "u", "v">>}

Question(mode, gate, excluded, literal) ==
  [mode |-> mode, gate |-> gate, excluded |-> excluded, literal |-> literal]
SomeQuestions ==
  {Question(m, "canned", FALSE, FALSE) : m \in {"stream", "sync"}}
  \cup {Question("stream", "none", FALSE, TRUE), Question("sync", "none", TRUE, TRUE)}

=============================================================================
