----------------------------- MODULE MCRetrieval -----------------------------
(* An instance of Chunker and Retrieval for TLC: a document is cut into       *)
(* chunks when it is indexed, and a question is asked when that is done.      *)
EXTENDS Retrieval, Chunker

\* Three chunks of one document and one of another.
FourChunks ==
  [c \in 1..4 |-> [doc |-> IF c = 4 THEN "b" ELSE "a", index |-> IF c = 4 THEN 0 ELSE c - 1,
                   size |-> IF c = 3 THEN 2 ELSE 1]]

\* Some lists of three chunks in the first search; less in a retry.
FoundLists == [n \in 0..MaxActions |->
  CASE n = 0 -> {<<>>, <<1>>, <<4, 1>>, <<3, 4>>, <<1, 3, 4>>}
    [] n = 1 -> {<<>>, <<2>>, <<4, 1>>}
    [] n = 2 -> {<<>>, <<3>>}]

Goal(id, queries) == [id |-> id, queries |-> queries]
\* One goal with queries to choose from; two that share the query budget, one
\* with an id that does not fit; plans that are refused: no goal, no query,
\* the id of another goal's place.
Plans ==
  {<<Goal(7, <<"p", "q", "p", "r">>)>>,
   <<Goal(0, <<"s", "p">>), Goal(8, <<"q", "r">>)>>,
   <<Goal(7, <<"p", "q">>), Goal(8, <<"p", "r">>)>>,
   <<>>,
   <<Goal(7, <<"p">>), Goal(8, <<>>)>>,
   <<Goal(2, <<"p">>), Goal(0, <<"q">>)>>}

\* Every text of up to seven characters, with and without a caption, before
\* a page with nothing but a picture and a page without one.
SmallPages ==
  {p \in {[length |-> n, ink |-> s, captioned |-> c] :
            n \in 0..7, s \in SUBSET (0..6), c \in BOOLEAN} : IsPage(p)}
Picture == [length |-> 0, ink |-> {}, captioned |-> TRUE]
Closing == [length |-> 4, ink |-> {0, 1, 3}, captioned |-> FALSE]
SomeDocuments == {<<>>} \cup {<<p, q>> : p \in SmallPages, q \in {Picture, Closing}}

-----------------------------------------------------------------------------
\* Document "a": two windows of text and a caption.  The request is followed
\* for this one only, since the rest of it does not depend on the texts.
Asked == <<[length |-> 4, ink |-> 0..3, captioned |-> FALSE], Picture>>

DocumentInit == ChunkerInit /\ Init

Index == ChunkerNext /\ UNCHANGED vars
Ask == part = "done" /\ pages = Asked /\ Next /\ UNCHANGED chunkerVars
Unasked == part = "done" /\ pages # Asked /\ UNCHANGED <<chunkerVars, vars>>

DocumentSpec == DocumentInit /\ [][Index \/ Ask \/ Unasked]_<<chunkerVars, vars>>

=============================================================================
