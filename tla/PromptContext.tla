--------------------------- MODULE PromptContext ---------------------------
(***************************************************************************)
(* Which retrieved chunks a generation attempt shows the model: evidence   *)
(* first, then one chunk of every other page, then the rest, as far as the *)
(* attempt's character budget reaches.                                     *)
(*                                                                         *)
(* The location of a chunk stands for the document and its pages, its size *)
(* for the length of the whole Source block.                               *)
(***************************************************************************)
EXTENDS Integers, Sequences, FiniteSets

CONSTANTS
  Separator,   \* the blank line between two Source blocks
  Metadata,    \* length of a Source block with no content, and the cut marker
  MinContent   \* MIN_TRUNCATED_CHUNK_CONTENT_CHARS

ASSUME PromptContextAssumption ==
  Separator \in Nat /\ Metadata \in Nat /\ MinContent \in Nat

Chunk == [id: Nat, location: STRING, size: Nat]

\* Places of a sequence in ascending order, and what is found there.
InOrder(places) ==
  [n \in 1..Cardinality(places) |->
     CHOOSE i \in places : Cardinality({j \in places : j <= i}) = n]
Picked(seq, places) == [n \in DOMAIN InOrder(places) |-> seq[InOrder(places)[n]]]

\* The places where t has what it has at no earlier place.
FirstPlaces(t) == {i \in DOMAIN t : \A j \in 1..(i - 1) : t[j] # t[i]}

\* The order in which chunks are offered to the prompt.
Prioritized(chunks, evidence) ==
  LET backing  == {i \in DOMAIN chunks : chunks[i].id \in evidence}
      distinct == {i \in DOMAIN chunks \ backing :
                     \A j \in backing \cup 1..(i - 1) : chunks[j].location # chunks[i].location}
      repeated == DOMAIN chunks \ (backing \cup distinct)
  IN Picked(chunks, backing) \o Picked(chunks, distinct) \o Picked(chunks, repeated)

\* A block that is too long is cut behind its metadata, if enough is left.
Fits(c, room) == c.size <= room \/ room - Metadata >= MinContent
Fitted(c, room) == IF c.size <= room THEN c ELSE [c EXCEPT !.size = room]

\* Only the first block may be cut; a later one that is too long is skipped.
Offer(selected, c, budget) ==
  LET gap  == IF selected.blocks = <<>> THEN 0 ELSE Separator
      room == budget - selected.used - gap
  IN IF (selected.blocks # <<>> /\ c.size > room) \/ ~Fits(c, room) THEN selected
     ELSE [blocks |-> Append(selected.blocks, Fitted(c, room)),
           used   |-> selected.used + gap + Fitted(c, room).size]

\* What is selected of the first n chunks offered, and what it takes up in the prompt.
SelectedOf(offered, budget) ==
  LET selected[n \in 0..Len(offered)] ==
        IF n = 0 THEN [blocks |-> <<>>, used |-> 0]
        ELSE Offer(selected[n - 1], offered[n], budget)
  IN selected

SelectGenerationChunks(chunks, evidence, budget) ==
  LET offered == Prioritized(chunks, evidence)
  IN SelectedOf(offered, budget)[Len(offered)].blocks

\* _extractive_context_fallback: at most three chunks of different pages.
ExtractiveSources(candidates, limit) ==
  LET firsts == FirstPlaces([i \in DOMAIN candidates |-> candidates[i].location])
  IN Picked(candidates, {i \in firsts : Cardinality({j \in firsts : j < i}) < limit})

=============================================================================
