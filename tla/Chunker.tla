------------------------------ MODULE Chunker -------------------------------
(***************************************************************************)
(* How the pages of a document are cut into chunks: windows of ChunkSize   *)
(* characters that overlap by ChunkOverlap, and one chunk for the caption  *)
(* of a page's pictures.                                                   *)
(*                                                                         *)
(* The text of a page is its length, without the white space around it,    *)
(* and ink, the positions of the characters that are not white space;      *)
(* stripping what a window holds leaves exactly its ink.                   *)
(***************************************************************************)
EXTENDS Integers, Sequences

CONSTANTS
  ChunkSize, ChunkOverlap, \* of the preset the document is indexed with
  Documents                \* sequences of pages [length, ink, captioned]

ASSUME PresetAssumption ==
  ChunkSize \in Nat /\ ChunkOverlap \in Nat /\ ChunkOverlap < ChunkSize

IsPage(p) ==
  /\ p.length \in Nat /\ p.ink \subseteq 0..(p.length - 1)
  /\ p.length > 0 => {0, p.length - 1} \subseteq p.ink

ASSUME DocumentAssumption ==
  \A doc \in Documents :
    /\ Len(doc) \in Nat /\ DOMAIN doc = 1..Len(doc)
    /\ \A n \in DOMAIN doc : IsPage(doc[n])

ChunkRows == [index : Nat, type : {"text", "vision_caption"}, page : Nat,
              start : Nat, ink : SUBSET Nat]

VARIABLES
  pages,   \* the document
  page,    \* the page being cut
  start,   \* the window begins here
  part,    \* "text" or "caption" of the page, or "done"
  chunks   \* what has been cut: [index, type, page, start, ink]

chunkerVars == <<pages, page, start, part, chunks>>

Text(n) == pages[n].ink

End(length) == IF start + ChunkSize < length THEN start + ChunkSize ELSE length

Add(type, from, ink) ==
  chunks' = Append(chunks, [index |-> Len(chunks), type |-> type,
                            page |-> page, start |-> from, ink |-> ink])

ChunkerInit ==
  /\ pages \in Documents
  /\ page = 1 /\ start = 0 /\ chunks = <<>>
  /\ part = IF pages = <<>> THEN "done" ELSE "text"

\* Variant: the next window begins where this one ends.
NextStartWithoutOverlap(end) == end

\* Variant: the whole window is gone back.
NextStartStuck(end) == end - ChunkSize

NextStart(end) == IF end - ChunkOverlap > start + 1 THEN end - ChunkOverlap ELSE start + 1

\* One window of the text; a window of white space gives no chunk.
CutWindow ==
  /\ part = "text" /\ start < pages[page].length
  /\ LET end  == End(pages[page].length)
         held == Text(page) \cap start..(end - 1)
     IN /\ IF held = {} THEN UNCHANGED chunks ELSE Add("text", start, held)
        /\ IF end >= pages[page].length
           THEN part' = "caption" /\ UNCHANGED start
           ELSE start' = NextStart(end) /\ UNCHANGED part
  /\ UNCHANGED <<pages, page>>

SkipEmptyText ==
  /\ part = "text" /\ start >= pages[page].length
  /\ part' = "caption"
  /\ UNCHANGED <<pages, page, start, chunks>>

TurnPage ==
  /\ page' = page + 1 /\ start' = 0
  /\ part' = IF page = Len(pages) THEN "done" ELSE "text"
  /\ UNCHANGED pages

\* The caption of the page, if one was completed, is a chunk of its own.
AddCaption ==
  /\ part = "caption"
  /\ IF pages[page].captioned THEN Add("vision_caption", pages[page].length, {})
     ELSE UNCHANGED chunks
  /\ TurnPage

ChunkerNext == CutWindow \/ SkipEmptyText \/ AddCaption

ChunkerSpec == ChunkerInit /\ [][ChunkerNext]_chunkerVars

-----------------------------------------------------------------------------
(* Properties.                                                             *)

\* Chunks are numbered in the order they are made (chunker.py:64).
ChunkerTypeOK ==
  /\ pages \in Documents
  /\ page \in Nat /\ start \in Nat
  /\ part \in {"text", "caption", "done"}
  /\ part # "done" => page \in DOMAIN pages
  /\ part = "done" => page > Len(pages)
  /\ chunks \in Seq(ChunkRows)
  /\ \A i \in DOMAIN chunks : chunks[i].index = i - 1

\* The page's text has been cut.
CutBefore(n) == n < page \/ (n = page /\ part = "caption")

\* The stretch from x on, without its white space, is in one chunk.
Survives(n, x) ==
  \E i \in DOMAIN chunks :
    chunks[i].page = n /\ Text(n) \cap x..(x + ChunkOverlap) \subseteq chunks[i].ink

\* A stretch of one character more than the overlap, and so every character
\* and every phrase that is not longer, lies whole in one chunk: nothing is
\* lost at a boundary (chunker.py:34).
StretchesSurvive ==
  \A n \in DOMAIN pages : CutBefore(n) => \A x \in Text(n) : Survives(n, x)

\* Numbers follow the text, so that the chunks numbered before and behind
\* one are its neighbours (chunker.py:76, retriever.py:240).
ReadingOrder ==
  \A i, j \in DOMAIN chunks : i < j =>
    \/ chunks[i].page < chunks[j].page
    \/ chunks[i].page = chunks[j].page /\ chunks[i].start < chunks[j].start

=============================================================================
