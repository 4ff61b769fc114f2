----------------------------- MODULE ChunkProofs -----------------------------
(***************************************************************************)
(* What happens to chunks, from the cut of a document to the context of an *)
(* answer: cutting loses nothing (module Chunker), and a request over the  *)
(* chunks ends with a sound context (module Retrieval).                    *)
(***************************************************************************)
EXTENDS Retrieval, Chunker, FiniteSetTheorems, SequenceTheorems,
        NaturalsInduction, WellFoundedInduction, TLAPS

-----------------------------------------------------------------------------
(* Cutting a document.                                                     *)

\* The part of the page before the window is cut as it must be, and the
\* window has not run over the end of the text.
WindowInv ==
  part = "text" =>
    /\ start <= pages[page].length
    /\ \A x \in Text(page) : x < start => Survives(page, x)

\* Where the chunks are that have been cut so far.
PlaceInv ==
  \A i \in DOMAIN chunks :
    /\ chunks[i].page <= page
    /\ chunks[i].page = page =>
         /\ part # "done"
         /\ part = "text" => chunks[i].start < start
         /\ part = "caption" => chunks[i].start < pages[page].length

ChunkerInv == ChunkerTypeOK /\ WindowInv /\ StretchesSurvive /\ PlaceInv /\ ReadingOrder

-----------------------------------------------------------------------------

\* What a step of the cut has of the page it works on.
LEMMA CurrentPage ==
  ASSUME ChunkerTypeOK, part # "done"
  PROVE  /\ pages \in Documents /\ page \in DOMAIN pages /\ page \in Nat
         /\ IsPage(pages[page])
         /\ pages[page].length \in Nat
         /\ Text(page) \subseteq 0..(pages[page].length - 1)
BY DocumentAssumption DEF ChunkerTypeOK, IsPage, Text

\* A chunk that is added comes last, behind all that were there.
LEMMA Added ==
  ASSUME ChunkerTypeOK, part # "done", NEW type \in {"text", "vision_caption"},
         NEW from \in Nat, NEW ink \in SUBSET Nat, Add(type, from, ink)
  PROVE  /\ chunks' \in Seq(ChunkRows)
         /\ DOMAIN chunks' = 1..(Len(chunks) + 1)
         /\ DOMAIN chunks = 1..Len(chunks) /\ Len(chunks) \in Nat
         /\ \A i \in DOMAIN chunks : i \in DOMAIN chunks' /\ chunks'[i] = chunks[i]
         /\ chunks'[Len(chunks) + 1].page = page
         /\ chunks'[Len(chunks) + 1].start = from
         /\ chunks'[Len(chunks) + 1].ink = ink
         /\ chunks'[Len(chunks) + 1].index = Len(chunks)
         /\ \A i \in DOMAIN chunks' : chunks'[i].index = i - 1
<1> DEFINE new == [index |-> Len(chunks), type |-> type, page |-> page,
                   start |-> from, ink |-> ink]
<1>1. chunks \in Seq(ChunkRows) /\ page \in Nat /\ Len(chunks) \in Nat
  BY DEF ChunkerTypeOK
<1>2. new \in ChunkRows
  BY <1>1 DEF ChunkRows
<1>3. chunks' = Append(chunks, new)
  BY DEF Add
<1>4. /\ new.index = Len(chunks) /\ new.page = page /\ new.start = from /\ new.ink = ink
  OBVIOUS
<1> HIDE DEF new
<1>5. /\ chunks' \in Seq(ChunkRows) /\ DOMAIN chunks' = 1..(Len(chunks) + 1)
      /\ DOMAIN chunks = 1..Len(chunks)
      /\ \A i \in DOMAIN chunks : chunks'[i] = chunks[i]
      /\ chunks'[Len(chunks) + 1] = new
  BY <1>1, <1>2, <1>3
<1>6. \A i \in DOMAIN chunks : chunks[i].index = i - 1
  BY DEF ChunkerTypeOK
<1>7. \A i \in DOMAIN chunks' : chunks'[i].index = i - 1
  BY <1>1, <1>4, <1>5, <1>6
<1> QED BY <1>1, <1>4, <1>5, <1>7

\* Whatever survives in the chunks survives in more of them.
LEMMA StillSurvives ==
  ASSUME NEW n, NEW x, Survives(n, x), UNCHANGED pages,
         \A i \in DOMAIN chunks : i \in DOMAIN chunks' /\ chunks'[i] = chunks[i]
  PROVE  Survives(n, x)'
<1>1. PICK i \in DOMAIN chunks :
        chunks[i].page = n /\ Text(n) \cap x..(x + ChunkOverlap) \subseteq chunks[i].ink
  BY DEF Survives
<1>2. Text(n)' = Text(n)
  BY DEF Text
<1>3. i \in DOMAIN chunks' /\ chunks'[i] = chunks[i]
  BY <1>1
<1> QED BY <1>1, <1>2, <1>3 DEF Survives

-----------------------------------------------------------------------------

\* Before the first window nothing has to be cut.
LEMMA ChunkerInitInv == ChunkerInit => ChunkerInv
<1> SUFFICES ASSUME ChunkerInit PROVE ChunkerInv
  OBVIOUS
<1>1. /\ pages \in Documents /\ page = 1 /\ start = 0 /\ chunks = <<>>
      /\ part = (IF pages = <<>> THEN "done" ELSE "text")
      /\ Len(pages) \in Nat /\ DOMAIN pages = 1..Len(pages)
      /\ \A n \in DOMAIN pages : IsPage(pages[n])
  BY DocumentAssumption DEF ChunkerInit
<1>2. pages = <<>> => Len(pages) = 0
  OBVIOUS
<1>3. pages # <<>> => Len(pages) > 0
  <2>1. ASSUME Len(pages) = 0 PROVE pages = <<>>
    <3>1. DOMAIN pages = {}
      BY <1>1, <2>1
    <3> QED BY <3>1, <1>1
  <2> QED BY <2>1, <1>1
<1>4. chunks \in Seq(ChunkRows) /\ DOMAIN chunks = {}
  BY <1>1
<1>5. ChunkerTypeOK
  BY <1>1, <1>2, <1>3, <1>4 DEF ChunkerTypeOK
<1>6. WindowInv
  <2>1. ASSUME part = "text" PROVE pages[1].length \in Nat /\ Text(1) \subseteq 0..(pages[1].length - 1)
    BY <1>1, <1>3, <2>1 DEF IsPage, Text
  <2> QED BY <1>1, <2>1 DEF WindowInv
<1>7. StretchesSurvive
  BY <1>1 DEF StretchesSurvive, CutBefore
<1>8. PlaceInv /\ ReadingOrder
  BY <1>4 DEF PlaceInv, ReadingOrder
<1> QED BY <1>5, <1>6, <1>7, <1>8 DEF ChunkerInv

-----------------------------------------------------------------------------

\* Where the window ends and the next one begins.
LEMMA WindowBounds ==
  ASSUME ChunkerTypeOK, NEW length \in Nat, start < length
  PROVE  /\ End(length) \in Nat /\ start < End(length) /\ End(length) <= length
         /\ End(length) < length =>
              /\ NextStart(End(length)) = End(length) - ChunkOverlap
              /\ NextStart(End(length)) \in Nat
              /\ start < NextStart(End(length))
              /\ NextStart(End(length)) <= length
BY PresetAssumption DEF ChunkerTypeOK, End, NextStart

\* What was cut before is kept, and at most the chunk of this window added.
LEMMA Grown ==
  ASSUME ChunkerTypeOK, part # "done", NEW type \in {"text", "vision_caption"},
         NEW from \in Nat, NEW ink \in SUBSET Nat,
         UNCHANGED chunks \/ Add(type, from, ink)
  PROVE  /\ chunks' \in Seq(ChunkRows)
         /\ \A i \in DOMAIN chunks' : chunks'[i].index = i - 1
         /\ \A i \in DOMAIN chunks : i \in DOMAIN chunks' /\ chunks'[i] = chunks[i]
         /\ \A i \in DOMAIN chunks' :
              \/ i \in DOMAIN chunks
              \/ /\ i = Len(chunks) + 1 /\ Add(type, from, ink)
                 /\ chunks'[i].page = page /\ chunks'[i].start = from /\ chunks'[i].ink = ink
         /\ DOMAIN chunks = 1..Len(chunks) /\ Len(chunks) \in Nat
<1>1. chunks \in Seq(ChunkRows) /\ DOMAIN chunks = 1..Len(chunks) /\ Len(chunks) \in Nat
      /\ \A i \in DOMAIN chunks : chunks[i].index = i - 1
  BY DEF ChunkerTypeOK
<1>2. CASE UNCHANGED chunks
  BY <1>1, <1>2
<1>3. CASE Add(type, from, ink)
  BY <1>1, <1>3, Added
<1> QED BY <1>2, <1>3

\* A chunk that is added behind the others, at or behind the window, keeps
\* the order of reading.
LEMMA OrderKept ==
  ASSUME ChunkerInv, part # "done", NEW type \in {"text", "vision_caption"},
         NEW from \in Nat, NEW ink \in SUBSET Nat,
         UNCHANGED chunks \/ Add(type, from, ink),
         part = "text" => from = start,
         part = "caption" => from = pages[page].length
  PROVE  ReadingOrder'
<1>1. ChunkerTypeOK /\ PlaceInv /\ ReadingOrder
  BY DEF ChunkerInv
<1>2. /\ \A i \in DOMAIN chunks : i \in DOMAIN chunks' /\ chunks'[i] = chunks[i]
      /\ \A i \in DOMAIN chunks' :
           \/ i \in DOMAIN chunks
           \/ /\ i = Len(chunks) + 1
              /\ chunks'[i].page = page /\ chunks'[i].start = from
      /\ DOMAIN chunks = 1..Len(chunks) /\ Len(chunks) \in Nat
  BY <1>1, Grown
<1>3. SUFFICES ASSUME NEW i \in DOMAIN chunks', NEW j \in DOMAIN chunks', i < j
               PROVE  \/ chunks'[i].page < chunks'[j].page
                      \/ /\ chunks'[i].page = chunks'[j].page
                         /\ chunks'[i].start < chunks'[j].start
  BY DEF ReadingOrder
<1>4. i \in DOMAIN chunks
  BY <1>2, <1>3
<1>5. CASE j \in DOMAIN chunks
  BY <1>1, <1>2, <1>3, <1>4, <1>5 DEF ReadingOrder
<1>6. CASE j \notin DOMAIN chunks
  <2>1. chunks'[j].page = page /\ chunks'[j].start = from /\ chunks'[i] = chunks[i]
    BY <1>2, <1>4, <1>6
  <2>2. part \in {"text", "caption"}
    BY <1>1 DEF ChunkerTypeOK
  <2>3. /\ chunks[i].page <= page
        /\ chunks[i].page = page => chunks[i].start < from
    BY <1>1, <1>4, <2>2 DEF PlaceInv
  <2>4. chunks[i].page \in Nat /\ page \in Nat
    <3>1. chunks[i] \in ChunkRows
      BY <1>1, <1>4 DEF ChunkerTypeOK
    <3> QED BY <3>1, <1>1 DEF ChunkRows, ChunkerTypeOK
  <2> QED BY <2>1, <2>3, <2>4
<1> QED BY <1>5, <1>6

\* A window keeps everything that was cut and cuts up to where the next one
\* begins.
LEMMA CutWindowInv == ChunkerInv /\ CutWindow => ChunkerInv'
<1> SUFFICES ASSUME ChunkerInv, CutWindow PROVE ChunkerInv'
  OBVIOUS
<1> DEFINE length == pages[page].length
           end == End(length)
           held == Text(page) \cap start..(end - 1)
<1>1. ChunkerTypeOK /\ WindowInv /\ StretchesSurvive /\ PlaceInv /\ ReadingOrder
  BY DEF ChunkerInv
<1>2. /\ part = "text" /\ start < length /\ UNCHANGED <<pages, page>>
      /\ held = {} => UNCHANGED chunks
      /\ held # {} => Add("text", start, held)
      /\ end >= length => part' = "caption" /\ UNCHANGED start
      /\ ~(end >= length) => start' = NextStart(end) /\ UNCHANGED part
  BY DEF CutWindow
<1>3. /\ page \in DOMAIN pages /\ page \in Nat /\ length \in Nat
      /\ Text(page) \subseteq 0..(length - 1) /\ start \in Nat
  BY <1>1, <1>2, CurrentPage DEF ChunkerTypeOK
<1>4. /\ end \in Nat /\ start < end /\ end <= length
      /\ end < length => /\ NextStart(end) = end - ChunkOverlap
                        /\ NextStart(end) \in Nat /\ start < NextStart(end)
                        /\ NextStart(end) <= length
  BY <1>1, <1>2, <1>3, WindowBounds
<1>5. held \in SUBSET Nat
  BY <1>3
<1>6. ChunkOverlap \in Nat /\ (end >= length \/ end < length)
  BY <1>3, <1>4, PresetAssumption
<1>7. Text(page)' = Text(page) /\ pages[page].length' = length
  BY <1>2 DEF Text
<1> HIDE DEF held, end, length
<1>8. /\ chunks' \in Seq(ChunkRows)
      /\ \A i \in DOMAIN chunks' : chunks'[i].index = i - 1
      /\ \A i \in DOMAIN chunks : i \in DOMAIN chunks' /\ chunks'[i] = chunks[i]
      /\ \A i \in DOMAIN chunks' :
           \/ i \in DOMAIN chunks
           \/ /\ i = Len(chunks) + 1 /\ Add("text", start, held)
              /\ chunks'[i].page = page /\ chunks'[i].start = start /\ chunks'[i].ink = held
  BY <1>1, <1>2, <1>3, <1>5, Grown
<1>9. ChunkerTypeOK'
  BY <1>1, <1>2, <1>3, <1>4, <1>6, <1>8 DEF ChunkerTypeOK
<1>10. ASSUME NEW x \in Text(page), x < start PROVE Survives(page, x)'
  BY <1>1, <1>2, <1>8, <1>10, StillSurvives DEF WindowInv
<1>11. ASSUME NEW x \in Text(page), start <= x, Text(page) \cap x..(x + ChunkOverlap) \subseteq 0..(end - 1)
       PROVE  Survives(page, x)'
  <2>1. x \in 0..(length - 1) /\ x \in x..(x + ChunkOverlap)
    BY <1>3, <1>6
  <2>2. x \in held
    BY <1>3, <1>4, <1>6, <1>11, <2>1 DEF held
  <2>3. Add("text", start, held)
    BY <1>2, <2>2
  <2>4. PICK i \in DOMAIN chunks' : chunks'[i].page = page /\ chunks'[i].ink = held
    <3>1. part # "done" /\ "text" \in {"text", "vision_caption"}
      BY <1>2
    <3>2. /\ DOMAIN chunks' = 1..(Len(chunks) + 1) /\ Len(chunks) \in Nat
          /\ chunks'[Len(chunks) + 1].page = page /\ chunks'[Len(chunks) + 1].ink = held
      BY <1>1, <1>3, <1>5, <2>3, <3>1, Added
    <3>3. Len(chunks) + 1 \in DOMAIN chunks'
      BY <3>2
    <3> QED BY <3>2, <3>3
  <2>5. Text(page) \cap x..(x + ChunkOverlap) \subseteq held
    BY <1>3, <1>4, <1>6, <1>11, <2>1 DEF held
  <2> QED BY <1>2, <1>7, <2>4, <2>5 DEF Survives
<1>12. WindowInv'
  <2>1. SUFFICES ASSUME part' = "text"
                 PROVE  /\ start' <= length
                        /\ \A x \in Text(page) : x < start' => Survives(page, x)'
    BY <1>2, <1>7 DEF WindowInv, length
  <2>2. end < length /\ start' = end - ChunkOverlap /\ start' <= length
    BY <1>2, <1>4, <1>6, <2>1
  <2>3. ASSUME NEW x \in Text(page), x < start' PROVE Survives(page, x)'
    <3>1. x \in Int
      BY <1>3
    <3>2. CASE x < start
      BY <3>2, <1>10
    <3>3. CASE start <= x
      <4>1. \A y \in Text(page) \cap x..(x + ChunkOverlap) : y \in 0..(end - 1)
        BY <1>3, <1>4, <1>6, <2>2, <2>3, <3>1
      <4> QED BY <4>1, <3>3, <1>11
    <3> QED BY <3>1, <3>2, <3>3, <1>3
  <2> QED BY <2>2, <2>3
<1>13. StretchesSurvive'
  <2>1. SUFFICES ASSUME NEW n \in DOMAIN pages, CutBefore(n)', NEW x \in Text(n)
                 PROVE  Survives(n, x)'
    BY <1>2 DEF StretchesSurvive, Text
  <2>2. CASE n < page
    <3>1. Survives(n, x)
      BY <1>1, <2>1, <2>2 DEF StretchesSurvive, CutBefore
    <3> QED BY <3>1, <1>2, <1>8, StillSurvives
  <2>3. CASE n = page
    <3>1. end >= length
      BY <1>2, <2>1, <2>3, <1>3 DEF CutBefore
    <3>2. x \in 0..(length - 1)
      BY <1>3, <2>1, <2>3
    <3>3. CASE x < start
      BY <1>2, <1>10, <2>1, <2>3, <3>3
    <3>4. CASE start <= x
      <4>1. Text(page) \cap x..(x + ChunkOverlap) \subseteq 0..(end - 1)
        BY <1>3, <1>4, <3>1
      <4> QED BY <4>1, <1>2, <1>11, <2>1, <2>3, <3>4
    <3> QED BY <1>3, <3>2, <3>3, <3>4
  <2> QED BY <1>2, <2>1, <2>2, <2>3 DEF CutBefore
<1>14. PlaceInv'
  <2>1. SUFFICES ASSUME NEW i \in DOMAIN chunks'
                 PROVE  /\ chunks'[i].page <= page
                        /\ chunks'[i].page = page =>
                             /\ part' # "done"
                             /\ part' = "text" => chunks'[i].start < start'
                             /\ part' = "caption" => chunks'[i].start < length
    BY <1>2, <1>7 DEF PlaceInv, length
  <2>2. part' # "done" /\ (part' = "text" => start < start')
    BY <1>2, <1>4, <1>6
  <2>3. CASE i \in DOMAIN chunks
    <3>1. chunks'[i] = chunks[i] /\ chunks[i].page <= page
          /\ (chunks[i].page = page => chunks[i].start < start)
      BY <1>1, <1>2, <1>8, <2>3 DEF PlaceInv
    <3>2. chunks[i].start \in Nat
      <4>1. chunks[i] \in ChunkRows
        BY <1>1, <2>3 DEF ChunkerTypeOK
      <4> QED BY <4>1 DEF ChunkRows
    <3>3. start' \in Nat
      BY <1>9 DEF ChunkerTypeOK
    <3> QED BY <3>1, <3>2, <3>3, <2>2, <1>2, <1>3
  <2>4. CASE i \notin DOMAIN chunks
    <3>1. chunks'[i].page = page /\ chunks'[i].start = start
      BY <1>8, <2>1, <2>4
    <3> QED BY <3>1, <2>2, <1>2, <1>3
  <2> QED BY <2>3, <2>4
<1>15. ReadingOrder'
  BY <1>2, <1>3, <1>5, OrderKept
<1> QED BY <1>9, <1>12, <1>13, <1>14, <1>15 DEF ChunkerInv

\* A page without text has nothing to lose.
LEMMA SkipEmptyTextInv == ChunkerInv /\ SkipEmptyText => ChunkerInv'
<1> SUFFICES ASSUME ChunkerInv, SkipEmptyText PROVE ChunkerInv'
  OBVIOUS
<1>1. ChunkerTypeOK /\ WindowInv /\ StretchesSurvive /\ PlaceInv /\ ReadingOrder
  BY DEF ChunkerInv
<1>2. /\ part = "text" /\ start >= pages[page].length /\ part' = "caption"
      /\ UNCHANGED <<pages, page, start, chunks>>
  BY DEF SkipEmptyText
<1>3. /\ page \in DOMAIN pages /\ page \in Nat /\ pages[page].length \in Nat
      /\ Text(page) \subseteq 0..(pages[page].length - 1) /\ start \in Nat
  BY <1>1, <1>2, CurrentPage DEF ChunkerTypeOK
<1>4. ChunkerTypeOK'
  BY <1>1, <1>2 DEF ChunkerTypeOK
<1>5. WindowInv'
  BY <1>2 DEF WindowInv
<1>6. start = pages[page].length
  BY <1>1, <1>2, <1>3 DEF WindowInv
<1>7. StretchesSurvive'
  <2>1. SUFFICES ASSUME NEW n \in DOMAIN pages, CutBefore(n)', NEW x \in Text(n)
                 PROVE  Survives(n, x)'
    BY <1>2 DEF StretchesSurvive, Text
  <2>2. CASE n < page
    <3>1. Survives(n, x)
      BY <1>1, <2>1, <2>2 DEF StretchesSurvive, CutBefore
    <3> QED BY <3>1, <1>2, StillSurvives
  <2>3. CASE n = page
    <3>1. Survives(n, x)
      BY <1>1, <1>2, <1>3, <2>1, <2>3 DEF WindowInv
    <3> QED BY <3>1, <1>2, StillSurvives
  <2> QED BY <1>2, <2>1, <2>2, <2>3 DEF CutBefore
<1>8. PlaceInv'
  BY <1>1, <1>2, <1>6 DEF PlaceInv
<1>9. ReadingOrder'
  BY <1>1, <1>2 DEF ReadingOrder
<1> QED BY <1>4, <1>5, <1>7, <1>8, <1>9 DEF ChunkerInv

\* The caption comes behind the text of its page, and the next page begins.
LEMMA AddCaptionInv == ChunkerInv /\ AddCaption => ChunkerInv'
<1> SUFFICES ASSUME ChunkerInv, AddCaption PROVE ChunkerInv'
  OBVIOUS
<1> DEFINE length == pages[page].length
<1>1. ChunkerTypeOK /\ WindowInv /\ StretchesSurvive /\ PlaceInv /\ ReadingOrder
  BY DEF ChunkerInv
<1>2. /\ part = "caption" /\ page' = page + 1 /\ start' = 0 /\ UNCHANGED pages
      /\ part' = (IF page = Len(pages) THEN "done" ELSE "text")
      /\ UNCHANGED chunks \/ Add("vision_caption", length, {})
  BY DEF AddCaption, TurnPage
<1>3. /\ page \in DOMAIN pages /\ page \in Nat /\ length \in Nat /\ pages \in Documents
      /\ Len(pages) \in Nat /\ DOMAIN pages = 1..Len(pages)
  BY <1>1, <1>2, CurrentPage, DocumentAssumption
<1> HIDE DEF length
<1>4. /\ chunks' \in Seq(ChunkRows)
      /\ \A i \in DOMAIN chunks' : chunks'[i].index = i - 1
      /\ \A i \in DOMAIN chunks : i \in DOMAIN chunks' /\ chunks'[i] = chunks[i]
      /\ \A i \in DOMAIN chunks' : i \in DOMAIN chunks \/ chunks'[i].page = page
  <2>1. part # "done" /\ "vision_caption" \in {"text", "vision_caption"} /\ {} \in SUBSET Nat
    BY <1>2
  <2> QED BY <1>1, <1>2, <1>3, <2>1, Grown
<1>5. ChunkerTypeOK'
  <2>1. pages' \in Documents /\ page' \in Nat /\ start' \in Nat
    BY <1>2, <1>3
  <2>2. /\ part' \in {"text", "caption", "done"}
        /\ part' # "done" => page' \in DOMAIN pages'
        /\ part' = "done" => page' > Len(pages')
    BY <1>2, <1>3
  <2> QED BY <1>4, <2>1, <2>2 DEF ChunkerTypeOK
<1>6. WindowInv'
  <2>1. ASSUME part' = "text"
        PROVE  pages[page + 1].length \in Nat /\ Text(page + 1) \subseteq 0..(pages[page + 1].length - 1)
    <3>1. page + 1 \in DOMAIN pages
      BY <1>2, <1>3, <2>1
    <3>2. IsPage(pages[page + 1])
      BY <1>3, <3>1, DocumentAssumption
    <3> QED BY <3>2 DEF IsPage, Text
  <2>2. Text(page)' = Text(page + 1)
    BY <1>2 DEF Text
  <2> QED BY <1>2, <2>1, <2>2 DEF WindowInv
<1>7. StretchesSurvive'
  <2>1. SUFFICES ASSUME NEW n \in DOMAIN pages, CutBefore(n)', NEW x \in Text(n)
                 PROVE  Survives(n, x)'
    BY <1>2 DEF StretchesSurvive, Text
  <2>2. CutBefore(n)
    BY <1>2, <1>3, <2>1 DEF CutBefore
  <2>3. Survives(n, x)
    BY <1>1, <2>1, <2>2 DEF StretchesSurvive
  <2> QED BY <2>3, <1>2, <1>4, StillSurvives
<1>8. PlaceInv'
  <2>1. \A i \in DOMAIN chunks' : chunks'[i].page <= page /\ chunks'[i].page \in Nat
    <3> SUFFICES ASSUME NEW i \in DOMAIN chunks'
                 PROVE  chunks'[i].page <= page /\ chunks'[i].page \in Nat
      OBVIOUS
    <3>1. chunks'[i] \in ChunkRows
      BY <1>4
    <3>2. chunks'[i].page \in Nat
      BY <3>1 DEF ChunkRows
    <3>3. i \in DOMAIN chunks => chunks'[i].page <= page
      BY <1>1, <1>4 DEF PlaceInv
    <3> QED BY <1>3, <1>4, <3>2, <3>3
  <2> QED BY <1>2, <1>3, <2>1 DEF PlaceInv
<1>9. ReadingOrder'
  <2>1. /\ part # "done" /\ part # "text" /\ length = pages[page].length
        /\ "vision_caption" \in {"text", "vision_caption"} /\ {} \in SUBSET Nat
    BY <1>2 DEF length
  <2> QED BY <1>2, <1>3, <2>1, OrderKept
<1> QED BY <1>5, <1>6, <1>7, <1>8, <1>9 DEF ChunkerInv

\* A step that changes nothing.
LEMMA ChunkerStutterInv == ChunkerInv /\ UNCHANGED chunkerVars => ChunkerInv'
BY DEF ChunkerInv, chunkerVars, ChunkerTypeOK, WindowInv, StretchesSurvive, PlaceInv, ReadingOrder, CutBefore,
       Survives, Text

\* The strengthened invariant of the cut.
THEOREM ChunkerInvariance == ChunkerSpec => []ChunkerInv
<1>1. ChunkerInv /\ [ChunkerNext]_chunkerVars => ChunkerInv'
  BY CutWindowInv, SkipEmptyTextInv, AddCaptionInv, ChunkerStutterInv DEF ChunkerNext
<1> QED BY <1>1, ChunkerInitInv, PTL DEF ChunkerSpec

\* Every chunk has its type, and its number in the document.
THEOREM ChunkerTypeCorrect == ChunkerSpec => []ChunkerTypeOK
<1>1. ChunkerInv => ChunkerTypeOK
  BY DEF ChunkerInv
<1> QED BY <1>1, ChunkerInvariance, PTL

\* No stretch of a text that is at most one character longer than the
\* overlap is torn apart or lost, for every size and overlap.
THEOREM NothingIsLost == ChunkerSpec => []StretchesSurvive
<1>1. ChunkerInv => StretchesSurvive
  BY DEF ChunkerInv
<1> QED BY <1>1, ChunkerInvariance, PTL

\* The numbers of the chunks follow the text.
THEOREM InReadingOrder == ChunkerSpec => []ReadingOrder
<1>1. ChunkerInv => ReadingOrder
  BY DEF ChunkerInv
<1> QED BY <1>1, ChunkerInvariance, PTL

-----------------------------------------------------------------------------
(* Numbers and finite sets.                                                *)

\* Every non-empty set of numbers has a least one.
LEMMA LeastOf ==
  ASSUME NEW T, T \subseteq Nat, T # {}
  PROVE  \E n \in T : \A m \in T : n <= m
<1> DEFINE R == OpToRel(<, Nat)
<1>1. IsWellFoundedOn(R, Nat)
  BY NatLessThanWellFounded
<1> HIDE DEF R
<1>2. \E x \in T : \A y \in T : ~(<<y, x>> \in R)
  BY <1>1, WFMin
<1>3. PICK x \in T : \A y \in T : ~(<<y, x>> \in R)
  BY <1>2
<1>4. ASSUME NEW y \in T PROVE x <= y
  <2>1. y < x => <<y, x>> \in R
    BY DEF R, OpToRel
  <2> QED BY <1>3, <2>1
<1> QED BY <1>4

\* Induction over a set: what holds at 0 and at n + 1 if at n, holds at all.
LEMMA EveryNatural ==
  ASSUME NEW G, G \subseteq Nat, 0 \in G, \A n \in G : n + 1 \in G
  PROVE  G = Nat
<1> SUFFICES ASSUME G # Nat PROVE FALSE
  OBVIOUS
<1>1. PICK n \in Nat \ G : \A m \in Nat \ G : n <= m
  BY LeastOf
<1>2. n # 0
  OBVIOUS
<1>3. n - 1 \in Nat /\ n - 1 \in G
  BY <1>1, <1>2
<1> QED BY <1>3

\* A set of places of a list can be counted.
LEMMA PlacesFinite ==
  ASSUME NEW n \in Nat, NEW S \in SUBSET (1..n)
  PROVE  IsFiniteSet(S) /\ Cardinality(S) \in Nat
<1>1. IsFiniteSet(1..n)
  BY FS_Interval
<1>2. IsFiniteSet(S)
  BY <1>1, FS_Subset
<1> QED BY <1>2, FS_CardinalityType

\* A set of numbers with a bound has a greatest one.
LEMMA GreatestOf ==
  ASSUME NEW S, S \subseteq Nat, S # {}, IsFiniteSet(S)
  PROVE  \E m \in S : \A x \in S : x <= m
<1> DEFINE Bounded(n) == \A T \in SUBSET Nat : IsFiniteSet(T) /\ Cardinality(T) = n =>
                             \E b \in Nat : \A x \in T : x <= b
           G == {n \in Nat : Bounded(n)}
<1>1. 0 \in G
  <2>1. \A T : IsFiniteSet(T) /\ Cardinality(T) = 0 => T = {}
    BY FS_EmptySet
  <2> QED BY <2>1
<1>2. ASSUME NEW n \in G PROVE n + 1 \in G
  <2> SUFFICES ASSUME NEW T \in SUBSET Nat, IsFiniteSet(T), Cardinality(T) = n + 1
               PROVE  \E b \in Nat : \A x \in T : x <= b
    OBVIOUS
  <2>1. PICK t \in T : TRUE
    <3>1. T # {}
      BY FS_EmptySet
    <3> QED BY <3>1
  <2>2. IsFiniteSet(T \ {t}) /\ Cardinality(T \ {t}) = n
    <3>1. n \in Nat /\ IsFiniteSet(T \ {t}) /\ Cardinality(T \ {t}) = Cardinality(T) - 1
      BY <1>2, <2>1, FS_RemoveElement
    <3> QED BY <3>1
  <2>3. PICK b \in Nat : \A x \in T \ {t} : x <= b
    BY <1>2, <2>2
  <2>4. CASE t <= b
    BY <2>3, <2>4
  <2>5. CASE ~(t <= b)
    <3>1. \A x \in T : x <= t
      BY <2>3, <2>5
    <3> QED BY <3>1
  <2> QED BY <2>4, <2>5
<1>3. Cardinality(S) \in Nat
  BY FS_CardinalityType
<1>4. G = Nat
  <2> HIDE DEF G
  <2>1. G \subseteq Nat
    BY DEF G
  <2> QED BY <1>1, <1>2, <2>1, EveryNatural
<1>5. PICK b \in Nat : \A x \in S : x <= b
  BY <1>3, <1>4
<1> DEFINE T == {d \in Nat : \A x \in S : x <= d}
<1>6. PICK m \in T : \A d \in T : m <= d
  <2>1. T # {} /\ T \subseteq Nat
    BY <1>5
  <2> HIDE DEF T
  <2> QED BY <2>1, LeastOf
<1>7. ASSUME m \notin S PROVE FALSE
  <2>1. PICK x \in S : x <= m /\ x # m
    BY <1>6, <1>7
  <2>2. m - 1 \in Nat /\ \A y \in S : y <= m - 1
    BY <1>6, <1>7, <2>1
  <2> QED BY <1>6, <2>2
<1> QED BY <1>6, <1>7

-----------------------------------------------------------------------------
(* Orders.                                                                 *)

Orders(before, S) ==
  /\ before \in [S -> SUBSET S]
  /\ \A x \in S : x \notin before[x]
  /\ \A x, y \in S : y \in before[x] => before[y] \subseteq before[x]
  /\ \A x, y \in S : x = y \/ x \in before[y] \/ y \in before[x]

\* A finite set in order has every element once, and none before its time:
\* the number of elements before each is one to one.
LEMMA RankedFacts ==
  ASSUME NEW S, IsFiniteSet(S), NEW before, Orders(before, S)
  PROVE  /\ Cardinality(S) \in Nat
         /\ Ranked(S, before) \in [1..Cardinality(S) -> S]
         /\ \A x \in S : \E n \in 1..Cardinality(S) : Ranked(S, before)[n] = x
         /\ \A m, n \in 1..Cardinality(S) :
              m < n => Ranked(S, before)[m] \in before[Ranked(S, before)[n]]
<1> DEFINE c == Cardinality(S)
           pos == [x \in S |-> Cardinality(before[x]) + 1]
<1>1. c \in Nat
  BY FS_CardinalityType
<1>2. ASSUME NEW x \in S PROVE IsFiniteSet(before[x]) /\ Cardinality(before[x]) \in 0..(c - 1)
  <2>1. before[x] \in SUBSET S /\ before[x] # S
    BY DEF Orders
  <2>2. IsFiniteSet(before[x]) /\ Cardinality(before[x]) <= c /\ Cardinality(before[x]) # c
    BY <2>1, FS_Subset
  <2>3. Cardinality(before[x]) \in Nat
    BY <2>2, FS_CardinalityType
  <2> HIDE DEF c
  <2> QED BY <1>1, <2>2, <2>3
<1>3. ASSUME NEW x \in S, NEW y \in S, y \in before[x]
      PROVE  Cardinality(before[y]) < Cardinality(before[x])
  <2>1. before[y] \in SUBSET before[x] /\ before[y] # before[x]
    BY <1>3 DEF Orders
  <2>2. Cardinality(before[y]) <= Cardinality(before[x]) /\ Cardinality(before[y]) # Cardinality(before[x])
    BY <1>2, <2>1, FS_Subset
  <2>3. Cardinality(before[y]) \in Int /\ Cardinality(before[x]) \in Int
    BY <1>2
  <2> QED BY <2>2, <2>3
<1>4. \A x \in S : pos[x] = Cardinality(before[x]) + 1 /\ pos[x] \in 1..c
  <2> HIDE DEF c
  <2> QED BY <1>1, <1>2
<1>5. pos \in Injection(S, 1..c)
  <2>1. pos \in [S -> 1..c]
    BY <1>4
  <2>2. ASSUME NEW x \in S, NEW y \in S, x # y PROVE pos[x] # pos[y]
    <3>1. CASE x \in before[y]
      <4>1. Cardinality(before[x]) < Cardinality(before[y])
        BY <1>3, <3>1
      <4> HIDE DEF pos, c
      <4> QED BY <1>2, <1>4, <4>1
    <3>2. CASE y \in before[x]
      <4>1. Cardinality(before[y]) < Cardinality(before[x])
        BY <1>3, <3>2
      <4> HIDE DEF pos, c
      <4> QED BY <1>2, <1>4, <4>1
    <3> QED BY <2>2, <3>1, <3>2 DEF Orders
  <2> HIDE DEF pos
  <2> QED BY <2>1, <2>2 DEF Injection, IsInjective
<1>6. pos \in Surjection(S, 1..c)
  <2>1. IsFiniteSet(1..c) /\ Cardinality(1..c) = c
    BY <1>1, FS_Interval
  <2> HIDE DEF pos
  <2> QED BY <1>5, <2>1, FS_Injection
<1>7. ASSUME NEW n \in 1..c
      PROVE  /\ Ranked(S, before)[n] \in S
             /\ Cardinality(before[Ranked(S, before)[n]]) = n - 1
  <2>1. PICK x \in S : pos[x] = n
    BY <1>6 DEF Surjection
  <2>2. Cardinality(before[x]) = n - 1
    <3> HIDE DEF pos, c
    <3> QED BY <1>1, <1>2, <1>4, <2>1
  <2>3. Ranked(S, before)[n] = CHOOSE y \in S : Cardinality(before[y]) = n - 1
    BY DEF Ranked
  <2> QED BY <2>2, <2>3
<1>8. Ranked(S, before) \in [1..c -> S]
  <2>1. DOMAIN Ranked(S, before) = 1..c /\ Ranked(S, before) = [n \in 1..c |-> Ranked(S, before)[n]]
    BY DEF Ranked
  <2> QED BY <1>7, <2>1
<1>9. ASSUME NEW x \in S PROVE \E n \in 1..c : Ranked(S, before)[n] = x
  <2>1. pos[x] \in 1..c
    BY <1>4
  <2>2. Cardinality(before[Ranked(S, before)[pos[x]]]) = pos[x] - 1
    BY <1>7, <2>1
  <2>3. pos[Ranked(S, before)[pos[x]]] = pos[x]
    <3> HIDE DEF pos, c
    <3> QED BY <1>1, <1>4, <1>7, <2>1, <2>2
  <2>4. Ranked(S, before)[pos[x]] = x
    <3> HIDE DEF pos
    <3> QED BY <1>5, <1>7, <2>1, <2>3 DEF Injection, IsInjective
  <2> QED BY <2>1, <2>4
<1>10. ASSUME NEW m \in 1..c, NEW n \in 1..c, m < n
       PROVE  Ranked(S, before)[m] \in before[Ranked(S, before)[n]]
  <2> DEFINE x == Ranked(S, before)[m]
             y == Ranked(S, before)[n]
  <2>1. x \in S /\ y \in S /\ Cardinality(before[x]) = m - 1 /\ Cardinality(before[y]) = n - 1
    BY <1>7
  <2> HIDE DEF x, y, c
  <2>2. x # y
    BY <1>1, <1>10, <2>1
  <2>3. y \notin before[x]
    <3>1. y \in before[x] => Cardinality(before[y]) < Cardinality(before[x])
      BY <1>3, <2>1
    <3> QED BY <1>1, <1>10, <2>1, <3>1
  <2>4. x \in before[y]
    BY <2>1, <2>2, <2>3 DEF Orders
  <2> QED BY <2>4 DEF x, y
<1> QED BY <1>1, <1>8, <1>9, <1>10

Increasing(q) == \A m, n \in DOMAIN q : m < n => q[m] < q[n]

\* Places in order: every one is there, the n-th is not before n.
LEMMA InOrderFacts ==
  ASSUME NEW n \in Nat, NEW S \in SUBSET (1..n)
  PROVE  /\ Cardinality(S) \in Nat /\ InOrder(S) \in [1..Cardinality(S) -> S]
         /\ \A i \in S : \E k \in 1..Cardinality(S) : InOrder(S)[k] = i
         /\ Increasing(InOrder(S))
         /\ \A k \in 1..Cardinality(S) : k <= InOrder(S)[k]
<1> DEFINE before == [i \in S |-> {j \in S : j < i}]
           c == Cardinality(S)
           q == InOrder(S)
<1>1. Orders(before, S)
  <2>1. \A i \in S : i \in Int
    OBVIOUS
  <2>2. before \in [S -> SUBSET S] /\ \A i, j \in S : j \in before[i] <=> j < i
    OBVIOUS
  <2> HIDE DEF before
  <2>3. \A x \in S : x \notin before[x]
    BY <2>1, <2>2
  <2>4. \A x, y \in S : y \in before[x] => before[y] \subseteq before[x]
    <3> SUFFICES ASSUME NEW x \in S, NEW y \in S, y \in before[x], NEW z \in before[y] PROVE z \in before[x]
      OBVIOUS
    <3>1. z \in S
      BY <2>2
    <3> QED BY <2>1, <2>2, <3>1
  <2>5. \A x, y \in S : x = y \/ x \in before[y] \/ y \in before[x]
    BY <2>1, <2>2
  <2> QED BY <2>2, <2>3, <2>4, <2>5 DEF Orders
<1>2. IsFiniteSet(S) /\ c \in Nat
  BY PlacesFinite
<1>3. q = Ranked(S, before)
  BY DEF InOrder
<1>4. /\ q \in [1..c -> S] /\ \A i \in S : \E k \in 1..c : q[k] = i
      /\ \A k, m \in 1..c : k < m => q[k] \in before[q[m]]
  <2> HIDE DEF before, q
  <2> QED BY <1>1, <1>2, <1>3, RankedFacts
<1>5. \A k, m \in 1..c : k < m => q[k] < q[m]
  <2>1. \A i \in S : before[i] = {j \in S : j < i}
    OBVIOUS
  <2> HIDE DEF before, q
  <2> QED BY <1>4, <2>1
<1> HIDE DEF q, before
<1>6. \A k \in 1..c : q[k] \in 1..n
  BY <1>4
<1> DEFINE G == {k \in Nat : k \in 1..c => k <= q[k]}
<1>7. \A k \in G : k + 1 \in G
  <2> SUFFICES ASSUME NEW k \in G, k + 1 \in 1..c PROVE k + 1 <= q[k + 1]
    OBVIOUS
  <2>0. k \in Nat
    OBVIOUS
  <2>1. CASE k = 0
    BY <1>6, <2>1
  <2>2. CASE k # 0
    <3>1. k \in 1..c
      BY <1>2, <2>0, <2>2
    <3>2. k <= q[k] /\ q[k] < q[k + 1]
      BY <1>5, <2>0, <3>1
    <3> QED BY <1>6, <2>0, <3>1, <3>2
  <2> QED BY <2>1, <2>2
<1>8. G = Nat
  <2>1. 0 \in G /\ G \subseteq Nat
    OBVIOUS
  <2> HIDE DEF G
  <2> QED BY <1>7, <2>1, EveryNatural
<1>9. \A k \in 1..c : k <= q[k]
  BY <1>8, <1>2
<1>10. Increasing(q)
  BY <1>4, <1>5 DEF Increasing
<1> QED BY <1>2, <1>4, <1>9, <1>10 DEF q

-----------------------------------------------------------------------------
(* Lists.                                                                  *)

\* The rows of picked are those of list at the places, in their order.
PickedAt(picked, list, places, order) ==
  /\ order \in [1..Len(picked) -> places] /\ Increasing(order)
  /\ \A i \in places : \E k \in 1..Len(picked) : order[k] = i
  /\ \A k \in 1..Len(picked) : picked[k] = list[order[k]] /\ k <= order[k]

\* What is picked are the elements at the chosen places, in their order.
LEMMA PickedFacts ==
  ASSUME NEW X, NEW list \in Seq(X), NEW S \in SUBSET (DOMAIN list)
  PROVE  /\ Picked(list, S) \in Seq(X)
         /\ \E order : PickedAt(Picked(list, S), list, S, order)
<1> DEFINE c == Cardinality(S)
           q == InOrder(S)
           p == Picked(list, S)
<1>1. /\ c \in Nat /\ q \in [1..c -> S] /\ \A i \in S : \E k \in 1..c : q[k] = i
      /\ Increasing(q) /\ \A k \in 1..c : k <= q[k]
  <2>1. Len(list) \in Nat /\ S \in SUBSET (1..Len(list))
    OBVIOUS
  <2> HIDE DEF c, q
  <2> QED BY <2>1, InOrderFacts DEF c, q
<1>2. p = [k \in 1..c |-> list[q[k]]]
  <2>1. DOMAIN q = 1..c
    BY <1>1
  <2> HIDE DEF c, q
  <2> QED BY <2>1 DEF Picked, q
<1> HIDE DEF c, q, p
<1>3. \A k \in 1..c : list[q[k]] \in X
  BY <1>1
<1>4. p \in Seq(X) /\ Len(p) = c
  BY <1>1, <1>2, <1>3
<1>5. PickedAt(p, list, S, q)
  BY <1>1, <1>2, <1>4 DEF PickedAt
<1> QED BY <1>4, <1>5 DEF p

\* Nothing else is picked, and nothing chosen is left out.
LEMMA PickedRange ==
  ASSUME NEW X, NEW list \in Seq(X), NEW S \in SUBSET (DOMAIN list)
  PROVE  Range(Picked(list, S)) = {list[i] : i \in S}
<1> DEFINE p == Picked(list, S)
<1>1. p \in Seq(X)
  BY PickedFacts
<1>2. PICK order : PickedAt(p, list, S, order)
  BY PickedFacts
<1> HIDE DEF p
<1>3. DOMAIN p = 1..Len(p)
  BY <1>1
<1>4. \A k \in 1..Len(p) : p[k] = list[order[k]] /\ order[k] \in S
  BY <1>2 DEF PickedAt
<1>5. \A i \in S : \E k \in 1..Len(p) : p[k] = list[i]
  BY <1>2, <1>4 DEF PickedAt
<1>6. \A x : x \in Range(p) <=> \E k \in 1..Len(p) : p[k] = x
  BY <1>3 DEF Range
<1>7. Range(p) \subseteq {list[i] : i \in S}
  BY <1>4, <1>6
<1>8. {list[i] : i \in S} \subseteq Range(p)
  BY <1>5, <1>6
<1> QED BY <1>7, <1>8 DEF p

\* Different places of equal elements are the only way to pick one twice.
LEMMA PickedInjective ==
  ASSUME NEW X, NEW list \in Seq(X), NEW S \in SUBSET (DOMAIN list),
         \A i, j \in S : list[i] = list[j] => i = j
  PROVE  IsInjective(Picked(list, S))
<1> DEFINE p == Picked(list, S)
<1>1. p \in Seq(X)
  BY PickedFacts
<1>2. PICK order : PickedAt(p, list, S, order)
  BY PickedFacts
<1> HIDE DEF p
<1>3. DOMAIN p = 1..Len(p)
  BY <1>1
<1>4. ASSUME NEW k \in DOMAIN p, NEW m \in DOMAIN p, p[k] = p[m], k # m PROVE FALSE
  <2>1. order[k] = order[m]
    BY <1>2, <1>3, <1>4 DEF PickedAt
  <2>2. order[k] \in DOMAIN list /\ order[k] \in Int
    BY <1>2, <1>3 DEF PickedAt
  <2>3. k < m => order[k] < order[m]
    BY <1>2, <1>3 DEF PickedAt, Increasing
  <2>4. m < k => order[m] < order[k]
    BY <1>2, <1>3 DEF PickedAt, Increasing
  <2>5. k < m \/ m < k
    BY <1>3, <1>4
  <2> QED BY <2>1, <2>2, <2>3, <2>4, <2>5
<1> QED BY <1>4 DEF IsInjective, p

\* A filter keeps what is wanted, and no element twice that was there once.
LEMMA OnlyFacts ==
  ASSUME NEW X, NEW list \in Seq(X), NEW s
  PROVE  /\ Only(list, s) \in Seq(X)
         /\ Range(Only(list, s)) = Range(list) \cap s
         /\ IsInjective(list) => IsInjective(Only(list, s))
<1> DEFINE S == {i \in DOMAIN list : list[i] \in s}
<1>1. S \in SUBSET DOMAIN list /\ Only(list, s) = Picked(list, S)
  BY DEF Only
<1>2. {list[i] : i \in S} = Range(list) \cap s
  BY DEF Range
<1>3. IsInjective(list) => \A i, j \in S : list[i] = list[j] => i = j
  BY DEF IsInjective
<1> HIDE DEF S
<1> QED BY <1>1, <1>2, <1>3, PickedFacts, PickedRange, PickedInjective

\* The place of the first row that is x.
LEMMA FirstPlace ==
  ASSUME NEW X, NEW list \in Seq(X), NEW i \in DOMAIN list
  PROVE  \E f \in DOMAIN list : f <= i /\ list[f] = list[i] /\ \A j \in 1..(f - 1) : list[j] # list[f]
<1> DEFINE T == {f \in DOMAIN list : list[f] = list[i]}
<1>1. PICK f \in T : \A j \in T : f <= j
  <2>1. T \subseteq Nat /\ T # {}
    OBVIOUS
  <2> HIDE DEF T
  <2> QED BY <2>1, LeastOf
<1>2. f <= i /\ f \in 1..Len(list) /\ list[f] = list[i]
  BY <1>1
<1>3. ASSUME NEW j \in 1..(f - 1) PROVE list[j] # list[f]
  <2>1. j \in DOMAIN list /\ ~(f <= j)
    BY <1>2
  <2> QED BY <1>1, <1>2, <2>1
<1> QED BY <1>2, <1>3

\* Each row is there once, not behind where it was, and in the order in which
\* the rows came first.
LEMMA DistinctFacts ==
  ASSUME NEW X, NEW list \in Seq(X)
  PROVE  /\ Distinct(list) \in Seq(X) /\ IsInjective(Distinct(list))
         /\ Range(Distinct(list)) = Range(list)
         /\ \A i \in DOMAIN list : \E k \in DOMAIN Distinct(list) : k <= i /\ Distinct(list)[k] = list[i]
         /\ \A k, m \in DOMAIN Distinct(list) : \A i \in DOMAIN list :
              Distinct(list)[k] = list[i] /\ (\A j \in 1..i : list[j] # Distinct(list)[m]) => k < m
<1> DEFINE S == {i \in DOMAIN list : \A j \in 1..(i - 1) : list[j] # list[i]}
           d == Distinct(list)
<1>1. S \in SUBSET DOMAIN list /\ d = Picked(list, S)
  BY DEF Distinct
<1>2. \A i, j \in S : list[i] = list[j] => i = j
  <2> SUFFICES ASSUME NEW i \in S, NEW j \in S, list[i] = list[j], i # j PROVE FALSE
    OBVIOUS
  <2>1. i \in 1..(j - 1) \/ j \in 1..(i - 1)
    OBVIOUS
  <2> QED BY <2>1
<1>3. ASSUME NEW i \in DOMAIN list PROVE \E f \in S : f <= i /\ list[f] = list[i]
  BY FirstPlace
<1>4. {list[i] : i \in S} = Range(list)
  <2> HIDE DEF S
  <2> QED BY <1>1, <1>3 DEF Range
<1>4a. \A i \in S : \A j \in DOMAIN list : list[j] = list[i] => i <= j
  <2> SUFFICES ASSUME NEW i \in S, NEW j \in DOMAIN list, list[j] = list[i], ~(i <= j) PROVE FALSE
    OBVIOUS
  <2>1. j \in 1..(i - 1)
    OBVIOUS
  <2> QED BY <2>1
<1> HIDE DEF S, d
<1>5. d \in Seq(X) /\ IsInjective(d) /\ Range(d) = Range(list)
  BY <1>1, <1>2, <1>4, PickedFacts, PickedRange, PickedInjective
<1>6. DOMAIN d = 1..Len(d) /\ Len(d) \in Nat
  BY <1>5
<1>7. PICK order : PickedAt(d, list, S, order)
  BY <1>1, PickedFacts
<1>8. ASSUME NEW i \in DOMAIN list PROVE \E k \in DOMAIN d : k <= i /\ d[k] = list[i]
  <2>1. PICK f \in S : f <= i /\ list[f] = list[i]
    BY <1>3
  <2>2. PICK k \in 1..Len(d) : order[k] = f
    BY <1>7 DEF PickedAt
  <2>3. k <= f /\ d[k] = list[f]
    BY <1>7, <2>2 DEF PickedAt
  <2>4. k <= i
    <3>1. f \in Int /\ i \in Int
      BY <1>1
    <3> QED BY <2>1, <2>3, <3>1
  <2> QED BY <1>6, <2>1, <2>2, <2>3, <2>4
<1>9. ASSUME NEW k \in DOMAIN d, NEW m \in DOMAIN d, NEW i \in DOMAIN list,
             d[k] = list[i], \A j \in 1..i : list[j] # d[m]
      PROVE  k < m
  <2>1. order[k] \in S /\ order[m] \in S /\ d[k] = list[order[k]] /\ d[m] = list[order[m]]
    BY <1>6, <1>7 DEF PickedAt
  <2>2. order[k] \in 1..Len(list) /\ order[m] \in 1..Len(list) /\ i \in 1..Len(list) /\ Len(list) \in Nat
    BY <1>1, <2>1
  <2>3. order[k] <= i
    BY <1>4a, <1>9, <2>1
  <2>4. ~(order[m] <= i)
    BY <1>9, <2>1, <2>2
  <2>5. m < k => order[m] < order[k]
    BY <1>6, <1>7 DEF PickedAt, Increasing
  <2>6. m # k
    BY <2>2, <2>3, <2>4
  <2> QED BY <1>6, <2>2, <2>3, <2>4, <2>5, <2>6
<1> QED BY <1>5, <1>8, <1>9 DEF d

LEMMA RangeOfList ==
  ASSUME NEW X, NEW list \in Seq(X)
  PROVE  /\ Len(list) \in Nat /\ DOMAIN list = 1..Len(list)
         /\ Range(list) \subseteq X /\ \A i \in 1..Len(list) : list[i] \in Range(list)
         /\ \A x \in Range(list) : \E i \in 1..Len(list) : list[i] = x
  BY DEF Range

\* A list has no more elements than places.
LEMMA RangeIsFinite ==
  ASSUME NEW X, NEW list \in Seq(X)
  PROVE  /\ IsFiniteSet(Range(list)) /\ Cardinality(Range(list)) \in Nat
         /\ Cardinality(Range(list)) <= Len(list)
<1>1. DOMAIN list = 1..Len(list) /\ Len(list) \in Nat
  OBVIOUS
<1>2. IsFiniteSet(1..Len(list)) /\ Cardinality(1..Len(list)) = Len(list)
  BY <1>1, FS_Interval
<1>3. list \in Surjection(1..Len(list), Range(list))
  BY <1>1 DEF Surjection, Range
<1>4. IsFiniteSet(Range(list)) /\ Cardinality(Range(list)) <= Len(list)
  BY <1>2, <1>3, FS_Surjection
<1> QED BY <1>4, FS_CardinalityType

\* A list without a row twice is not longer than the set its rows are from.
LEMMA ShortList ==
  ASSUME NEW X, IsFiniteSet(X), NEW list \in Seq(X), IsInjective(list)
  PROVE  Len(list) <= Cardinality(X) /\ Cardinality(X) \in Nat
<1>1. list \in Injection(1..Len(list), X)
  BY DEF Injection
<1>2. IsFiniteSet(1..Len(list)) /\ Cardinality(1..Len(list)) = Len(list) /\ Len(list) \in Nat
  <2>1. Len(list) \in Nat
    OBVIOUS
  <2> QED BY <2>1, FS_Interval
<1>3. Cardinality(1..Len(list)) <= Cardinality(X)
  BY <1>1, FS_Injection
<1> QED BY <1>2, <1>3, FS_CardinalityType

\* Where a row is there once, its rank is its place.
LEMMA RankOfFacts ==
  ASSUME NEW X, NEW list \in Seq(X), IsInjective(list)
  PROVE  /\ \A c \in Range(list) : RankOf(c, list) \in 1..Len(list) /\ list[RankOf(c, list)] = c
         /\ \A i \in 1..Len(list) : RankOf(list[i], list) = i
<1>1. ASSUME NEW c \in Range(list) PROVE RankOf(c, list) \in 1..Len(list) /\ list[RankOf(c, list)] = c
  <2>1. \E i \in DOMAIN list : list[i] = c
    BY DEF Range
  <2>2. RankOf(c, list) \in DOMAIN list /\ list[RankOf(c, list)] = c
    BY <2>1 DEF RankOf
  <2> QED BY <2>2
<1>2. ASSUME NEW i \in 1..Len(list) PROVE RankOf(list[i], list) = i
  <2>1. list[i] \in Range(list)
    BY DEF Range
  <2>2. RankOf(list[i], list) \in 1..Len(list) /\ list[RankOf(list[i], list)] = list[i]
    BY <1>1, <2>1
  <2> QED BY <2>2 DEF IsInjective
<1> QED BY <1>1, <1>2

\* A slice is the beginning of the list, or all of it.
LEMMA FirstRowsFacts ==
  ASSUME NEW X, NEW list \in Seq(X), NEW n \in Nat
  PROVE  /\ FirstRows(list, n) \in Seq(X)
         /\ Len(FirstRows(list, n)) = IF n < Len(list) THEN n ELSE Len(list)
         /\ \A i \in 1..Len(FirstRows(list, n)) : i \in 1..Len(list) /\ FirstRows(list, n)[i] = list[i]
         /\ Range(FirstRows(list, n)) \subseteq Range(list)
         /\ IsInjective(list) => IsInjective(FirstRows(list, n))
<1> DEFINE c == IF n < Len(list) THEN n ELSE Len(list)
           f == FirstRows(list, n)
<1>1. c \in Nat /\ c <= Len(list) /\ Len(list) \in Nat /\ f = SubSeq(list, 1, c)
  BY DEF FirstRows
<1>2. \A i \in 1..c : list[i] \in X /\ i \in 1..Len(list)
  OBVIOUS
<1>3. f \in Seq(X) /\ Len(f) = c /\ \A i \in 1..c : f[i] = list[i]
  <2> HIDE DEF c, f
  <2>1. /\ SubSeq(list, 1, c) \in Seq(X) /\ Len(SubSeq(list, 1, c)) = IF 1 <= c THEN c - 1 + 1 ELSE 0
        /\ \A i \in 1..(c - 1 + 1) : SubSeq(list, 1, c)[i] = list[1 + i - 1]
    BY <1>1, <1>2, SubSeqProperties
  <2> QED BY <1>1, <2>1
<1> HIDE DEF f, c
<1>4. \A i \in DOMAIN f : i \in 1..c /\ i \in DOMAIN list /\ f[i] = list[i]
  BY <1>2, <1>3
<1>5. Range(f) \subseteq Range(list)
  BY <1>4 DEF Range
<1>6. IsInjective(list) => IsInjective(f)
  BY <1>4 DEF IsInjective
<1> QED BY <1>2, <1>3, <1>5, <1>6 DEF f, c

-----------------------------------------------------------------------------
(* Sorting.                                                                *)

\* Tuples with keys of their own, in order: each once, by the keys.
LEMMA InTurnFacts ==
  ASSUME NEW S, IsFiniteSet(S), \A x \in S : x[1] \in Int /\ x[2] \in Int,
         \A x, y \in S : x[1] = y[1] /\ x[2] = y[2] => x = y
  PROVE  /\ InTurn(S) \in Seq(S) /\ Len(InTurn(S)) = Cardinality(S)
         /\ Range(InTurn(S)) = S /\ IsInjective(InTurn(S))
         /\ \A m, n \in 1..Len(InTurn(S)) : m < n =>
              LET x == InTurn(S)[m]  y == InTurn(S)[n]
              IN x[1] < y[1] \/ (x[1] = y[1] /\ x[2] < y[2])
<1> DEFINE before == [x \in S |-> {y \in S : y[1] < x[1] \/ (y[1] = x[1] /\ y[2] < x[2])}]
           c == Cardinality(S)
           q == InTurn(S)
<1>1. /\ before \in [S -> SUBSET S]
      /\ \A x, y \in S : y \in before[x] <=> y[1] < x[1] \/ (y[1] = x[1] /\ y[2] < x[2])
  OBVIOUS
<1>2. q = Ranked(S, before)
  BY DEF InTurn
<1> HIDE DEF before, q
<1>3. Orders(before, S)
  <2>1. \A x \in S : x \notin before[x]
    BY <1>1
  <2>2. ASSUME NEW x \in S, NEW y \in S, y \in before[x], NEW z \in before[y] PROVE z \in before[x]
    <3>1. z \in S
      BY <1>1
    <3> QED BY <1>1, <2>2, <3>1
  <2>3. ASSUME NEW x \in S, NEW y \in S PROVE x = y \/ x \in before[y] \/ y \in before[x]
    <3>1. x[1] \in Int /\ x[2] \in Int /\ y[1] \in Int /\ y[2] \in Int
      OBVIOUS
    <3>2. x[1] = y[1] /\ x[2] = y[2] => x = y
      OBVIOUS
    <3>3. \/ x[1] = y[1] /\ x[2] = y[2]
          \/ x[1] < y[1] \/ (x[1] = y[1] /\ x[2] < y[2])
          \/ y[1] < x[1] \/ (y[1] = x[1] /\ y[2] < x[2])
      BY <3>1
    <3> QED BY <1>1, <3>2, <3>3
  <2>4. \A x, y \in S : y \in before[x] => before[y] \subseteq before[x]
    BY <2>2
  <2> QED BY <1>1, <2>1, <2>3, <2>4 DEF Orders
<1>4. /\ c \in Nat /\ q \in [1..c -> S] /\ \A x \in S : \E n \in 1..c : q[n] = x
      /\ \A m, n \in 1..c : m < n => q[m] \in before[q[n]]
  <2> HIDE DEF c
  <2>1. Cardinality(S) = c
    BY DEF c
  <2> QED BY <1>2, <1>3, <2>1, RankedFacts
<1> HIDE DEF c
<1>5. q \in Seq(S) /\ Len(q) = c /\ DOMAIN q = 1..c
  BY <1>4
<1>6. Range(q) = S
  <2>1. Range(q) \subseteq S
    BY <1>5 DEF Range
  <2>2. S \subseteq Range(q)
    BY <1>4, <1>5 DEF Range
  <2> QED BY <2>1, <2>2
<1>7. \A m, n \in 1..c : m < n =>
        q[m][1] < q[n][1] \/ (q[m][1] = q[n][1] /\ q[m][2] < q[n][2])
  BY <1>1, <1>4
<1>8. \A m, n \in 1..c : m < n => q[m] # q[n]
  <2> SUFFICES ASSUME NEW m \in 1..c, NEW n \in 1..c, m < n PROVE q[m] # q[n]
    OBVIOUS
  <2>1. q[m] \in S /\ q[n] \in S
    BY <1>4
  <2>2. q[m] \in before[q[n]]
    BY <1>4
  <2> QED BY <1>3, <2>1, <2>2 DEF Orders
<1>9. IsInjective(q)
  <2> SUFFICES ASSUME NEW m \in 1..c, NEW n \in 1..c, q[m] = q[n], m # n PROVE FALSE
    BY <1>5 DEF IsInjective
  <2>1. m < n \/ n < m
    OBVIOUS
  <2> QED BY <1>8, <2>1
<1> QED BY <1>5, <1>6, <1>7, <1>9 DEF q, c

\* The elements of S with their keys in front.
Keyed(S, f, g) == {<<f[c], g[c], c>> : c \in S}

\* What is sorted by f, and by g, which tells everything apart, is there once,
\* the lower first.
LEMMA SortedFacts ==
  ASSUME NEW S, IsFiniteSet(S), NEW f \in [S -> Int], NEW g \in [S -> Int], IsInjective(g)
  PROVE  LET sorted == Sorted(Keyed(S, f, g))
         IN /\ sorted \in Seq(S) /\ Len(sorted) = Cardinality(S)
            /\ Range(sorted) = S /\ IsInjective(sorted)
            /\ \A m, n \in 1..Len(sorted) : f[sorted[m]] < f[sorted[n]] => m < n
<1> DEFINE keyed == Keyed(S, f, g)
           key == [c \in S |-> <<f[c], g[c], c>>]
           order == InTurn(keyed)
           sorted == Sorted(keyed)
<1>0. DOMAIN g = S
  OBVIOUS
<1>1. IsFiniteSet(keyed) /\ Cardinality(keyed) = Cardinality(S)
  <2>1. key \in Surjection(S, keyed)
    BY DEF Keyed, Surjection
  <2>2. key \in Injection(S, keyed)
    BY DEF Keyed, Injection, IsInjective
  <2> HIDE DEF key, keyed
  <2> QED BY <2>1, <2>2, FS_Surjection
<1>2. \A x \in keyed : x[1] \in Int /\ x[2] \in Int /\ x[3] \in S /\ x = <<f[x[3]], g[x[3]], x[3]>>
  BY DEF Keyed
<1>3. \A x, y \in keyed : x[2] = y[2] => x = y
  <2> SUFFICES ASSUME NEW c \in S, NEW d \in S, g[c] = g[d] PROVE c = d
    BY DEF Keyed
  <2> QED BY <1>0 DEF IsInjective
<1>4. \A c \in S : <<f[c], g[c], c>> \in keyed
  BY DEF Keyed
<1> HIDE DEF keyed, order
<1>5. /\ order \in Seq(keyed) /\ Len(order) = Cardinality(keyed) /\ Range(order) = keyed /\ IsInjective(order)
      /\ \A m, n \in 1..Len(order) : m < n =>
           order[m][1] < order[n][1] \/ (order[m][1] = order[n][1] /\ order[m][2] < order[n][2])
  <2>1. \A x \in keyed : x[1] \in Int /\ x[2] \in Int
    BY <1>2
  <2>2. \A x, y \in keyed : x[1] = y[1] /\ x[2] = y[2] => x = y
    BY <1>3
  <2> QED BY <1>1, <2>1, <2>2, InTurnFacts DEF order
<1> DEFINE k == Len(order)
<1>6. k \in Nat /\ DOMAIN order = 1..k /\ \A n \in 1..k : order[n] \in keyed
  BY <1>5
<1>7. sorted = [n \in 1..k |-> order[n][3]]
  BY <1>6 DEF Sorted, order
<1> HIDE DEF k, sorted
<1>8. \A n \in 1..k : order[n][3] \in S
  BY <1>2, <1>6
<1>9. sorted \in Seq(S) /\ Len(sorted) = k /\ DOMAIN sorted = 1..k /\ \A n \in 1..k : sorted[n] = order[n][3]
  BY <1>6, <1>7, <1>8
<1>10. \A n \in 1..k : order[n] = <<f[sorted[n]], g[sorted[n]], sorted[n]>>
  BY <1>2, <1>6, <1>9
<1>11. Range(sorted) = S
  <2>1. Range(sorted) \subseteq S
    BY <1>8, <1>9 DEF Range
  <2>2. ASSUME NEW c \in S PROVE c \in Range(sorted)
    <3>1. PICK n \in 1..k : order[n] = <<f[c], g[c], c>>
      BY <1>4, <1>5, <1>6 DEF Range
    <3>2. sorted[n] = c
      BY <1>9, <3>1
    <3> QED BY <1>9, <3>2 DEF Range
  <2> QED BY <2>1, <2>2
<1>12. IsInjective(sorted)
  <2> SUFFICES ASSUME NEW m \in 1..k, NEW n \in 1..k, sorted[m] = sorted[n] PROVE m = n
    BY <1>9 DEF IsInjective
  <2>1. order[m] = order[n]
    BY <1>10
  <2> QED BY <1>5, <1>6, <2>1 DEF IsInjective
<1>13. ASSUME NEW m \in 1..k, NEW n \in 1..k, f[sorted[m]] < f[sorted[n]] PROVE m < n
  <2>1. order[m][1] = f[sorted[m]] /\ order[n][1] = f[sorted[n]]
    BY <1>10
  <2>2. f[sorted[m]] \in Int /\ f[sorted[n]] \in Int
    BY <1>8, <1>9
  <2>3. m # n
    BY <1>13, <2>2
  <2>4. ~(n < m)
    <3>1. n < m => order[n][1] < order[m][1] \/ order[n][1] = order[m][1]
      BY <1>5 DEF k
    <3> QED BY <1>13, <2>1, <2>2, <3>1
  <2> QED BY <2>3, <2>4
<1> QED BY <1>1, <1>5, <1>9, <1>11, <1>12, <1>13 DEF k, sorted, keyed

\* What holds at 0, and at n + 1 if at n, holds at all numbers to L.
LEMMA UpTo ==
  ASSUME NEW L \in Nat, NEW G, 0 \in G, \A n \in 0..(L - 1) : n \in G => n + 1 \in G
  PROVE  0..L \subseteq G
<1> DEFINE H == {n \in Nat : n <= L => n \in G}
<1>1. 0 \in H /\ H \subseteq Nat
  OBVIOUS
<1>2. ASSUME NEW n \in H PROVE n + 1 \in H
  <2>1. n + 1 <= L => n \in 0..(L - 1) /\ n \in G
    OBVIOUS
  <2> QED BY <2>1
<1>3. H = Nat
  <2> HIDE DEF H
  <2> QED BY <1>1, <1>2, EveryNatural
<1> QED BY <1>3

\* f[n] is what n steps make of a.
Unfolds(f, L, A, a, step) ==
  f \in [0..L -> A] /\ f[0] = a /\ \A n \in 1..L : f[n] = step[n][f[n - 1]]

\* A first value and a step to each next one give a function.
LEMMA Recursion ==
  ASSUME NEW L \in Nat, NEW A, NEW a \in A, NEW step \in [1..L -> [A -> A]]
  PROVE  \E f : Unfolds(f, L, A, a, step)
<1> DEFINE Made(f, m) == f \in [0..m -> A] /\ f[0] = a /\ \A n \in 1..m : f[n] = step[n][f[n - 1]]
           G == {m \in 0..L : \E f : Made(f, m)}
<1>1. 0 \in G
  <2> DEFINE f == [n \in 0..0 |-> a]
  <2>1. f \in [0..0 -> A] /\ f[0] = a
    OBVIOUS
  <2>2. 1..0 = {}
    OBVIOUS
  <2> HIDE DEF f
  <2>3. Made(f, 0)
    BY <2>1, <2>2
  <2>4. 0 \in 0..L
    OBVIOUS
  <2> QED BY <2>3, <2>4
<1>2. ASSUME NEW m \in 0..(L - 1), m \in G PROVE m + 1 \in G
  <2>1. PICK g : Made(g, m)
    BY <1>2
  <2> DEFINE f == [n \in 0..(m + 1) |-> IF n = m + 1 THEN step[m + 1][g[m]] ELSE g[n]]
  <2>2. m + 1 \in 1..L /\ m \in 0..m /\ g[m] \in A
    BY <2>1
  <2>3. step[m + 1][g[m]] \in A
    BY <2>2
  <2>4. \A n \in 0..m : g[n] \in A /\ n # m + 1 /\ n \in 0..(m + 1)
    BY <2>1
  <2>5. \A n \in 0..(m + 1) : n = m + 1 \/ n \in 0..m
    OBVIOUS
  <2>6. f \in [0..(m + 1) -> A]
    BY <2>3, <2>4, <2>5
  <2>7. \A n \in 0..m : f[n] = g[n]
    BY <2>4
  <2>8. f[m + 1] = step[m + 1][g[m]]
    OBVIOUS
  <2> HIDE DEF f
  <2>9. f[0] = a
    BY <2>1, <2>7
  <2>10. ASSUME NEW n \in 1..(m + 1) PROVE f[n] = step[n][f[n - 1]]
    <3>1. CASE n = m + 1
      BY <2>2, <2>7, <2>8, <3>1
    <3>2. CASE n # m + 1
      <4>1. n \in 1..m /\ n \in 0..m /\ n - 1 \in 0..m
        BY <3>2
      <4> QED BY <2>1, <2>7, <4>1
    <3> QED BY <3>1, <3>2
  <2>11. Made(f, m + 1)
    BY <2>6, <2>9, <2>10
  <2>12. m + 1 \in 0..L
    OBVIOUS
  <2> QED BY <2>11, <2>12
<1>3. L \in G
  <2> HIDE DEF G
  <2>1. 0..L \subseteq G
    BY <1>1, <1>2, UpTo
  <2> QED BY <2>1
<1> QED BY <1>3 DEF Unfolds

-----------------------------------------------------------------------------
(* One row for every set.                                                  *)

LEMMA MaxOverFacts ==
  ASSUME NEW S, S \subseteq Int, S # {}, \E m \in S : \A x \in S : x <= m
  PROVE  MaxOver(S) \in S /\ \A x \in S : x <= MaxOver(S)
BY DEF MaxOver

\* A row for every set that has any, none twice.
LEMMA NamedFacts ==
  ASSUME NEW X, X \subseteq Nat, IsFiniteSet(X), NEW n \in Nat, NEW sets \in [1..n -> SUBSET X]
  PROVE  /\ Named(sets) \in Seq(X) /\ IsInjective(Named(sets))
         /\ \A x \in Range(Named(sets)) : \E i \in 1..n : x \in sets[i]
<1> DEFINE S == {i \in DOMAIN sets : sets[i] # {}}
           some == InOrder(S)
           list == [k \in DOMAIN some |-> MaxOver(sets[some[k]])]
<1>1. S \in SUBSET (1..n) /\ \A i \in S : sets[i] # {}
  OBVIOUS
<1>2. Named(sets) = Distinct(list)
  BY DEF Named
<1> HIDE DEF S
<1>3. Cardinality(S) \in Nat /\ some \in [1..Cardinality(S) -> S]
  BY <1>1, InOrderFacts
<1>4. \A i \in S : MaxOver(sets[i]) \in sets[i] /\ sets[i] \subseteq X /\ i \in 1..n
  <2> SUFFICES ASSUME NEW i \in S PROVE MaxOver(sets[i]) \in sets[i] /\ sets[i] \subseteq X
    BY <1>1
  <2>1. sets[i] \in SUBSET X /\ sets[i] # {} /\ sets[i] \subseteq Nat
    BY <1>1
  <2>2. IsFiniteSet(sets[i])
    BY <2>1, FS_Subset
  <2>3. \E m \in sets[i] : \A x \in sets[i] : x <= m
    BY <2>1, <2>2, GreatestOf
  <2> QED BY <2>1, <2>3, MaxOverFacts
<1> HIDE DEF some
<1>5. DOMAIN list = 1..Cardinality(S) /\ list \in Seq(X)
  BY <1>3, <1>4
<1>6. \A k \in DOMAIN list : list[k] \in sets[some[k]] /\ some[k] \in 1..n
  BY <1>3, <1>4
<1> HIDE DEF list
<1>7. \A x \in Range(list) : \E i \in 1..n : x \in sets[i]
  BY <1>6 DEF Range
<1> QED BY <1>2, <1>5, <1>7, DistinctFacts

-----------------------------------------------------------------------------
(* Totals.                                                                 *)

\* A total adds its terms one by one.
LEMMA TotalSteps ==
  ASSUME NEW sizes \in Seq(Int)
  PROVE  \E t \in [0..Len(sizes) -> Int] :
           /\ t[0] = 0 /\ \A n \in 1..Len(sizes) : t[n] = t[n - 1] + sizes[n]
           /\ Total(sizes) = t[Len(sizes)]
<1> DEFINE L == Len(sizes)
           Defines(t) == t = [n \in 0..L |-> IF n = 0 THEN 0 ELSE t[n - 1] + sizes[n]]
           t == CHOOSE t : Defines(t)
<1>0. L \in Nat /\ \A n \in 1..L : sizes[n] \in Int
  OBVIOUS
<1>1. Total(sizes) = t[L]
  BY DEF Total
<1> HIDE DEF L
<1>2. \E f : Defines(f)
  <2> DEFINE step == [n \in 1..L |-> [x \in Int |-> x + sizes[n]]]
  <2>1. step \in [1..L -> [Int -> Int]]
    BY <1>0
  <2>2. \A n \in 1..L : \A x \in Int : step[n][x] = x + sizes[n]
    OBVIOUS
  <2> HIDE DEF step
  <2>3. PICK f \in [0..L -> Int] : f[0] = 0 /\ \A n \in 1..L : f[n] = step[n][f[n - 1]]
    <3>1. L \in Nat /\ 0 \in Int
      BY <1>0
    <3>2. \E f : Unfolds(f, L, Int, 0, step)
      BY <2>1, <3>1, Recursion
    <3> QED BY <3>2 DEF Unfolds
  <2>4. ASSUME NEW n \in 0..L PROVE f[n] = IF n = 0 THEN 0 ELSE f[n - 1] + sizes[n]
    <3>1. CASE n = 0
      BY <2>3, <3>1
    <3>2. CASE n # 0
      <4>1. n \in 1..L /\ n - 1 \in 0..L
        BY <1>0, <3>2
      <4> QED BY <2>2, <2>3, <3>2, <4>1
    <3> QED BY <3>1, <3>2
  <2>5. Defines(f)
    BY <2>4
  <2> QED BY <2>5
<1>3. Defines(t)
  <2> HIDE DEF Defines
  <2> QED BY <1>2
<1> HIDE DEF t
<1>4. DOMAIN t = 0..L /\ t[0] = 0 /\ \A n \in 1..L : t[n] = t[n - 1] + sizes[n]
  <2>1. 0 \in 0..L /\ \A n \in 1..L : n \in 0..L /\ n # 0
    BY <1>0
  <2> QED BY <1>3, <2>1
<1>5. 0..L \subseteq {n \in 0..L : t[n] \in Int}
  <2> DEFINE G == {n \in 0..L : t[n] \in Int}
  <2>1. 0 \in G
    BY <1>0, <1>4
  <2>2. ASSUME NEW n \in 0..(L - 1), n \in G PROVE n + 1 \in G
    <3>1. n + 1 \in 1..L /\ n + 1 \in 0..L /\ (n + 1) - 1 = n
      BY <1>0
    <3>2. t[n + 1] = t[n] + sizes[n + 1]
      BY <1>4, <3>1
    <3> QED BY <1>0, <2>2, <3>1, <3>2
  <2> HIDE DEF G
  <2>3. 0..L \subseteq G
    BY <1>0, <2>1, <2>2, UpTo
  <2> QED BY <2>3 DEF G
<1>6. t \in [0..L -> Int]
  <2>1. t = [n \in 0..L |-> t[n]]
    BY <1>3
  <2> QED BY <1>5, <2>1
<1> QED BY <1>1, <1>4, <1>6 DEF L

\* What is less somewhere and more nowhere has the smaller total.
LEMMA TotalGrows ==
  ASSUME NEW x \in Seq(Int), NEW y \in Seq(Int), Len(x) = Len(y),
         \A i \in 1..Len(x) : x[i] <= y[i], NEW s \in 1..Len(x), x[s] < y[s]
  PROVE  Total(x) < Total(y)
<1> DEFINE L == Len(x)
<1>1. L \in Nat /\ s \in 1..L /\ \A i \in 1..L : x[i] \in Int /\ y[i] \in Int /\ x[i] <= y[i]
  OBVIOUS
<1>2. PICK t \in [0..L -> Int] : /\ t[0] = 0 /\ \A n \in 1..L : t[n] = t[n - 1] + x[n]
                                 /\ Total(x) = t[L]
  BY TotalSteps
<1>3. PICK u \in [0..L -> Int] : /\ u[0] = 0 /\ \A n \in 1..L : u[n] = u[n - 1] + y[n]
                                 /\ Total(y) = u[L]
  BY TotalSteps
<1> HIDE DEF L
<1> DEFINE G == {n \in 0..L : t[n] <= u[n] /\ (s <= n => t[n] < u[n])}
<1>4. 0 \in G
  BY <1>1, <1>2, <1>3
<1>5. ASSUME NEW n \in 0..(L - 1), n \in G PROVE n + 1 \in G
  <2>1. n + 1 \in 1..L /\ n + 1 \in 0..L /\ (n + 1) - 1 = n /\ n \in 0..L
    BY <1>1
  <2>2. t[n + 1] = t[n] + x[n + 1] /\ u[n + 1] = u[n] + y[n + 1]
    BY <1>2, <1>3, <2>1
  <2>3. t[n] \in Int /\ u[n] \in Int /\ x[n + 1] \in Int /\ y[n + 1] \in Int /\ x[n + 1] <= y[n + 1]
    BY <1>1, <2>1
  <2>4. t[n + 1] <= u[n + 1]
    <3>1. t[n] <= u[n]
      BY <1>5
    <3>2. \A a, b, c, d \in Int : a <= b /\ c <= d => a + c <= b + d
      OBVIOUS
    <3>3. t[n] + x[n + 1] <= u[n] + y[n + 1]
      BY <2>3, <3>1, <3>2
    <3> QED BY <2>2, <3>3
  <2>5. CASE s <= n
    <3>1. t[n] < u[n]
      BY <1>5, <2>5
    <3>2. t[n + 1] < u[n + 1]
      <4>1. \A a, b, c, d \in Int : a < b /\ c <= d => a + c < b + d
        OBVIOUS
      <4>2. t[n] + x[n + 1] < u[n] + y[n + 1]
        BY <2>3, <3>1, <4>1
      <4> QED BY <2>2, <4>2
    <3> QED BY <2>1, <2>4, <3>2
  <2>6. CASE s = n + 1
    BY <1>5, <2>1, <2>2, <2>3, <2>6
  <2>7. CASE s > n + 1
    BY <1>1, <2>1, <2>4, <2>7
  <2> QED BY <1>1, <2>1, <2>5, <2>6, <2>7
<1>6. 0..L \subseteq G
  <2> HIDE DEF G
  <2> QED BY <1>1, <1>4, <1>5, UpTo
<1>7. t[L] < u[L]
  BY <1>1, <1>6
<1> QED BY <1>2, <1>3, <1>7

\* A total of numbers is a number.
LEMMA TotalNumber ==
  ASSUME NEW sizes \in Seq(Int)
  PROVE  Total(sizes) \in Int
<1>1. PICK t \in [0..Len(sizes) -> Int] : Total(sizes) = t[Len(sizes)]
  BY TotalSteps
<1> QED BY <1>1

-----------------------------------------------------------------------------
(* Fusion.                                                                 *)

LEMMA ChunkFacts == IsFiniteSet(Chunk) /\ Chunk \subseteq Nat /\ Cardinality(Chunk) \in Nat
  BY RankFusionAssumption, FS_CardinalityType

\* A ranking is no longer than there are chunks.
LEMMA RankingFacts ==
  ASSUME NEW list \in Ranking
  PROVE  /\ list \in Seq(Chunk) /\ IsInjective(list) /\ Len(list) \in Nat
         /\ Len(list) <= Cardinality(Chunk) /\ Range(list) \subseteq Chunk
<1>1. list \in Seq(Chunk) /\ IsInjective(list)
  BY DEF Ranking
<1> QED BY <1>1, ChunkFacts, ShortList, RangeOfList

\* A division that leaves no rest.
LEMMA Quotient ==
  ASSUME NEW n \in Nat \ {0}, NEW d \in Nat \ {0}, n % d = 0
  PROVE  n \div d \in Nat \ {0} /\ n = d * (n \div d)
<1>1. n \div d \in Int /\ n = d * (n \div d) + (n % d) /\ n \div d >= 0
  OBVIOUS
<1>2. n = d * (n \div d)
  BY <1>1
<1>3. n \div d # 0
  BY <1>2
<1> QED BY <1>1, <1>2, <1>3

\* A better rank counts for more: the scale has no remainder to lose.
LEMMA ReciprocalFacts ==
  ASSUME NEW m \in 1..Cardinality(Chunk), NEW n \in 1..Cardinality(Chunk)
  PROVE  /\ Reciprocal(m) \in Nat
         /\ m < n => Reciprocal(n) < Reciprocal(m)
<1>1. m \in Nat /\ n \in Nat /\ 60 + m \in Nat \ {0} /\ 60 + n \in Nat \ {0} /\ Scale \in Nat \ {0}
  BY ChunkFacts, RankFusionAssumption
<1>2. Scale % (60 + m) = 0 /\ Scale % (60 + n) = 0
  BY RankFusionAssumption
<1> DEFINE x == Reciprocal(m)
           y == Reciprocal(n)
<1>3. x = Scale \div (60 + m) /\ y = Scale \div (60 + n)
  BY DEF Reciprocal
<1> HIDE DEF x, y
<1>4. x \in Nat \ {0} /\ Scale = (60 + m) * x
  BY <1>1, <1>2, <1>3, Quotient
<1>5. y \in Nat \ {0} /\ Scale = (60 + n) * y
  BY <1>1, <1>2, <1>3, Quotient
<1>6. ASSUME m < n, x <= y PROVE FALSE
  <2>1. (60 + m) * x <= (60 + m) * y
    BY <1>1, <1>4, <1>5, <1>6
  <2>2. (60 + n) * y = (60 + m) * y + (n - m) * y
    BY <1>1, <1>5
  <2>3. (n - m) * y > 0
    BY <1>1, <1>5, <1>6
  <2>4. (60 + m) * x \in Int /\ (60 + m) * y \in Int /\ (n - m) * y \in Int
    BY <1>1, <1>4, <1>5
  <2> HIDE DEF x, y
  <2>5. (60 + m) * x = (60 + m) * y + (n - m) * y
    BY <1>4, <1>5, <2>2
  <2> QED BY <2>1, <2>3, <2>4, <2>5
<1>7. m < n => y < x
  BY <1>4, <1>5, <1>6
<1> QED BY <1>4, <1>7 DEF x, y

\* What the lists say of a chunk.
Points(c, lists) ==
  [i \in DOMAIN lists |-> IF c \in Range(lists[i]) THEN Reciprocal(RankOf(c, lists[i])) ELSE 0]

\* A score is the total of what each list gives.
LEMMA PointsFacts ==
  ASSUME NEW lists \in Seq(Ranking), NEW c
  PROVE  /\ Points(c, lists) \in Seq(Int) /\ Len(Points(c, lists)) = Len(lists)
         /\ \A i \in 1..Len(lists) : Points(c, lists)[i] \in Nat
         /\ Score(c, lists) = Total(Points(c, lists)) /\ Score(c, lists) \in Int
<1> DEFINE p == Points(c, lists)
<1>1. \A i \in 1..Len(lists) : p[i] \in Nat
  <2> SUFFICES ASSUME NEW i \in 1..Len(lists) PROVE p[i] \in Nat
    OBVIOUS
  <2>1. lists[i] \in Ranking /\ i \in DOMAIN lists
    OBVIOUS
  <2>2. CASE c \in Range(lists[i])
    <3>1. /\ RankOf(c, lists[i]) \in 1..Len(lists[i]) /\ Len(lists[i]) \in Nat
          /\ Len(lists[i]) <= Cardinality(Chunk)
      BY <2>1, <2>2, RankingFacts, RankOfFacts
    <3>2. RankOf(c, lists[i]) \in 1..Cardinality(Chunk)
      BY <3>1, ChunkFacts
    <3>3. Reciprocal(RankOf(c, lists[i])) \in Nat
      BY <3>2, ReciprocalFacts
    <3> QED BY <2>1, <2>2, <3>3 DEF Points
  <2>3. CASE c \notin Range(lists[i])
    BY <2>1, <2>3 DEF Points
  <2> QED BY <2>2, <2>3
<1>2. DOMAIN p = 1..Len(lists) /\ Len(lists) \in Nat /\ p = [i \in 1..Len(lists) |-> p[i]]
  BY DEF Points
<1>3. Score(c, lists) = Total(p)
  BY DEF Score, Points
<1> HIDE DEF p
<1>4. p \in Seq(Int) /\ Len(p) = Len(lists)
  BY <1>1, <1>2
<1>5. Total(p) \in Int
  BY <1>4, TotalNumber
<1> QED BY <1>1, <1>3, <1>4, <1>5 DEF p

\* What is scored are the rows of the lists, finitely many.
LEMMA ScoredFacts ==
  ASSUME NEW lists \in Seq(Ranking)
  PROVE  /\ Scored(lists) \subseteq Chunk /\ IsFiniteSet(Scored(lists))
         /\ \A x \in Scored(lists) : \E i \in 1..Len(lists) : x \in Range(lists[i])
<1>1. \A x \in Scored(lists) : \E i \in 1..Len(lists) : x \in Range(lists[i])
  BY DEF Scored
<1>2. \A i \in 1..Len(lists) : lists[i] \in Ranking
  OBVIOUS
<1>3. Scored(lists) \subseteq Chunk
  BY <1>1, <1>2, RankingFacts
<1> QED BY <1>1, <1>3, ChunkFacts, FS_Subset

\* Whom every list ranks better has the higher score.
LEMMA BetterRanksScoreMore ==
  ASSUME NEW lists \in Seq(Ranking), NEW a, NEW b \in Scored(lists), Dominates(a, b, lists)
  PROVE  Score(b, lists) < Score(a, lists) /\ a \in Scored(lists)
<1> DEFINE x == Points(b, lists)
           y == Points(a, lists)
<1>1. /\ x \in Seq(Int) /\ Len(x) = Len(lists) /\ \A i \in 1..Len(lists) : x[i] \in Nat
      /\ Score(b, lists) = Total(x)
  BY PointsFacts
<1>2. /\ y \in Seq(Int) /\ Len(y) = Len(lists) /\ \A i \in 1..Len(lists) : y[i] \in Nat
      /\ Score(a, lists) = Total(y)
  BY PointsFacts
<1>3. ASSUME NEW i \in 1..Len(lists), b \in Range(lists[i])
      PROVE  a \in Range(lists[i]) /\ x[i] < y[i]
  <2>1. lists[i] \in Ranking /\ i \in DOMAIN lists
    OBVIOUS
  <2>2. a \in Range(lists[i]) /\ RankOf(a, lists[i]) < RankOf(b, lists[i])
    BY <1>3, <2>1 DEF Dominates
  <2>3. /\ RankOf(a, lists[i]) \in 1..Len(lists[i]) /\ RankOf(b, lists[i]) \in 1..Len(lists[i])
        /\ Len(lists[i]) \in Nat /\ Len(lists[i]) <= Cardinality(Chunk)
    BY <1>3, <2>1, <2>2, RankingFacts, RankOfFacts
  <2>4. RankOf(a, lists[i]) \in 1..Cardinality(Chunk) /\ RankOf(b, lists[i]) \in 1..Cardinality(Chunk)
    BY <2>3, ChunkFacts
  <2>5. Reciprocal(RankOf(b, lists[i])) < Reciprocal(RankOf(a, lists[i]))
    BY <2>2, <2>4, ReciprocalFacts
  <2>6. x[i] = Reciprocal(RankOf(b, lists[i])) /\ y[i] = Reciprocal(RankOf(a, lists[i]))
    BY <1>3, <2>1, <2>2 DEF Points
  <2> QED BY <2>2, <2>5, <2>6
<1>4. \A i \in 1..Len(lists) : b \notin Range(lists[i]) => x[i] = 0
  BY DEF Points
<1> HIDE DEF x, y
<1>5. \A i \in 1..Len(x) : x[i] <= y[i]
  <2> SUFFICES ASSUME NEW i \in 1..Len(lists) PROVE x[i] <= y[i]
    BY <1>1
  <2>1. x[i] \in Nat /\ y[i] \in Nat
    BY <1>1, <1>2
  <2>2. CASE b \in Range(lists[i])
    BY <1>3, <2>1, <2>2
  <2>3. CASE b \notin Range(lists[i])
    BY <1>4, <2>1, <2>3
  <2> QED BY <2>2, <2>3
<1>6. PICK s \in 1..Len(lists) : b \in Range(lists[s])
  BY ScoredFacts
<1>7. x[s] < y[s] /\ a \in Range(lists[s])
  BY <1>3, <1>6
<1>8. Total(x) < Total(y)
  BY <1>1, <1>2, <1>5, <1>6, <1>7, TotalGrows
<1>9. a \in Scored(lists)
  BY <1>6, <1>7 DEF Scored
<1> QED BY <1>1, <1>2, <1>8, <1>9

\* The fused list has a row once, and whom scores more comes before.
LEMMA FuseFacts ==
  ASSUME NEW lists \in Seq(Ranking), NEW limit \in Nat
  PROVE  /\ Fuse(lists, limit) \in Ranking /\ Len(Fuse(lists, limit)) <= limit
         /\ Range(Fuse(lists, limit)) \subseteq Scored(lists)
         /\ \A a, b \in Scored(lists) : \A n \in 1..Len(Fuse(lists, limit)) :
              Score(b, lists) < Score(a, lists) /\ Fuse(lists, limit)[n] = b =>
                \E m \in 1..(n - 1) : Fuse(lists, limit)[m] = a
<1> DEFINE S == Scored(lists)
           f == [c \in S |-> -Score(c, lists)]
           g == [c \in S |-> c]
           sorted == Sorted(Keyed(S, f, g))
           fused == Fuse(lists, limit)
<1>1. S \subseteq Chunk /\ IsFiniteSet(S)
  BY ScoredFacts
<1>2. \A c \in S : Score(c, lists) \in Int
  BY PointsFacts
<1>3. f \in [S -> Int] /\ g \in [S -> Int] /\ IsInjective(g)
  <2>1. \A c \in S : -Score(c, lists) \in Int
    BY <1>2
  <2> HIDE DEF S
  <2>2. \A c \in S : c \in Int
    <3>1. S \subseteq Nat
      BY <1>1, ChunkFacts
    <3> QED BY <3>1
  <2>3. IsInjective(g)
    BY DEF IsInjective
  <2> QED BY <2>1, <2>2, <2>3
<1>4. fused = FirstRows(sorted, limit)
  <2>1. {<<-Score(c, lists), c, c>> : c \in S} = Keyed(S, f, g)
    BY DEF Keyed
  <2> QED BY <2>1 DEF Fuse
<1>5. \A c \in S : f[c] = -Score(c, lists)
  OBVIOUS
<1> HIDE DEF S, f, g
<1>6. /\ sorted \in Seq(S) /\ Range(sorted) = S /\ IsInjective(sorted)
      /\ \A m, n \in 1..Len(sorted) : f[sorted[m]] < f[sorted[n]] => m < n
  BY <1>1, <1>3, SortedFacts
<1> HIDE DEF sorted
<1>7. sorted \in Seq(Chunk)
  BY <1>1, <1>6, SeqMonotonic
<1> HIDE DEF fused
<1>8. /\ fused \in Seq(Chunk) /\ Len(fused) = (IF limit < Len(sorted) THEN limit ELSE Len(sorted))
      /\ \A i \in 1..Len(fused) : i \in 1..Len(sorted) /\ fused[i] = sorted[i]
      /\ Range(fused) \subseteq Range(sorted) /\ IsInjective(fused)
  BY <1>4, <1>6, <1>7, FirstRowsFacts
<1>9. ASSUME NEW a \in S, NEW b \in S, NEW n \in 1..Len(fused),
             Score(b, lists) < Score(a, lists), fused[n] = b
      PROVE  \E m \in 1..(n - 1) : fused[m] = a
  <2>1. PICK m \in 1..Len(sorted) : sorted[m] = a
    BY <1>6 DEF Range
  <2>2. n \in 1..Len(sorted) /\ sorted[n] = b
    BY <1>8, <1>9
  <2>3. f[a] < f[b]
    BY <1>2, <1>5, <1>9
  <2>4. m < n
    BY <1>6, <2>1, <2>2, <2>3
  <2>5. m \in 1..Len(fused) /\ m \in 1..(n - 1)
    BY <1>8, <2>1, <2>4
  <2> QED BY <1>8, <2>1, <2>5
<1>10. Len(fused) <= limit
  <2>1. Len(sorted) \in Nat
    BY <1>6
  <2> QED BY <1>8, <2>1
<1>11. fused \in Ranking
  BY <1>8 DEF Ranking
<1> QED BY <1>6, <1>8, <1>9, <1>10, <1>11 DEF S, fused

\* An anchor is the first hit of a list.
LEMMA AnchorsFacts ==
  ASSUME NEW lists \in Seq(Ranking)
  PROVE  /\ Anchors(lists) \in Ranking
         /\ \A x \in Range(Anchors(lists)) : \E i \in 1..Len(lists) : 1 \in DOMAIN lists[i] /\ lists[i][1] = x
<1> DEFINE n == Len(lists)
           sets == [i \in 1..n |-> {lists[i][j] : j \in DOMAIN lists[i] \cap {1}}]
<1>1. n \in Nat /\ DOMAIN lists = 1..n /\ \A i \in 1..n : lists[i] \in Seq(Chunk)
  BY DEF Ranking
<1>2. sets \in [1..n -> SUBSET Chunk]
  BY <1>1
<1>3. Anchors(lists) = Named(sets)
  BY <1>1 DEF Anchors
<1>4. \A i \in 1..n : \A x \in sets[i] : 1 \in DOMAIN lists[i] /\ lists[i][1] = x
  OBVIOUS
<1> HIDE DEF n, sets
<1>5. /\ Named(sets) \in Seq(Chunk) /\ IsInjective(Named(sets))
      /\ \A x \in Range(Named(sets)) : \E i \in 1..n : x \in sets[i]
  BY <1>1, <1>2, ChunkFacts, NamedFacts
<1> QED BY <1>3, <1>4, <1>5 DEF Ranking, n

\* Rows merged without doubles, up to a limit.
LEMMA MergedFacts ==
  ASSUME NEW X, NEW list \in Seq(X), NEW limit \in Nat
  PROVE  LET merged == FirstRows(Distinct(list), limit)
         IN merged \in Seq(X) /\ IsInjective(merged) /\ Len(merged) <= limit
<1> DEFINE d == Distinct(list)
<1>1. d \in Seq(X) /\ IsInjective(d)
  BY DistinctFacts
<1> HIDE DEF d
<1>2. /\ FirstRows(d, limit) \in Seq(X) /\ IsInjective(FirstRows(d, limit))
      /\ Len(FirstRows(d, limit)) = (IF limit < Len(d) THEN limit ELSE Len(d))
  BY <1>1, FirstRowsFacts
<1>3. Len(d) \in Nat
  BY <1>1
<1> QED BY <1>2, <1>3 DEF d

\* Fused rows are a ranking: each chunk once.
LEMMA FusedRowsFacts ==
  ASSUME NEW lists \in Seq(Ranking), NEW limit \in Nat
  PROVE  FusedRows(lists, limit) \in Ranking
<1>1. Anchors(lists) \in Seq(Chunk) /\ Fuse(lists, limit) \in Seq(Chunk)
  BY AnchorsFacts, FuseFacts DEF Ranking
<1>2. Anchors(lists) \o Fuse(lists, limit) \in Seq(Chunk)
  BY <1>1
<1> QED BY <1>2, MergedFacts DEF FusedRows, MergeAnchors, Ranking

\* The better chunk of all lists also comes before the other one when the
\* first hits are kept.
LEMMA FusedInOrder ==
  ASSUME NEW lists \in Seq(Ranking), NEW limit \in Nat, NEW a, NEW b, Dominates(a, b, lists),
         b \in Range(FusedRows(lists, limit))
  PROVE  /\ a \in Range(FusedRows(lists, limit))
         /\ RankOf(a, FusedRows(lists, limit)) < RankOf(b, FusedRows(lists, limit))
<1> DEFINE anchors == Anchors(lists)
           fused == Fuse(lists, limit)
           all == anchors \o fused
           d == Distinct(all)
           r == FusedRows(lists, limit)
<1>1. anchors \in Seq(Chunk) /\ fused \in Seq(Chunk) /\ IsInjective(fused)
  BY AnchorsFacts, FuseFacts DEF Ranking
<1>2. r = FirstRows(d, limit)
  BY DEF FusedRows, MergeAnchors
<1>3. b \notin Range(anchors)
  <2> SUFFICES ASSUME b \in Range(anchors) PROVE FALSE
    OBVIOUS
  <2>1. PICK i \in 1..Len(lists) : 1 \in DOMAIN lists[i] /\ lists[i][1] = b
    BY AnchorsFacts
  <2>2. lists[i] \in Ranking /\ i \in DOMAIN lists
    OBVIOUS
  <2>3. b \in Range(lists[i])
    BY <2>1 DEF Range
  <2>4. a \in Range(lists[i]) /\ RankOf(a, lists[i]) < RankOf(b, lists[i])
    BY <2>2, <2>3 DEF Dominates
  <2>5. lists[i] \in Seq(Chunk) /\ IsInjective(lists[i]) /\ 1 \in 1..Len(lists[i])
    BY <2>1, <2>2 DEF Ranking
  <2>6. RankOf(a, lists[i]) \in 1..Len(lists[i]) /\ RankOf(b, lists[i]) = 1
    BY <2>1, <2>4, <2>5, RankOfFacts
  <2> QED BY <2>4, <2>6
<1> HIDE DEF anchors
<1>4. /\ all \in Seq(Chunk) /\ Len(all) = Len(anchors) + Len(fused)
      /\ \A i \in 1..(Len(anchors) + Len(fused)) :
           all[i] = IF i <= Len(anchors) THEN anchors[i] ELSE fused[i - Len(anchors)]
  <2> HIDE DEF fused
  <2> QED BY <1>1, ConcatProperties
<1> HIDE DEF all
<1>5. /\ d \in Seq(Chunk) /\ IsInjective(d) /\ Range(d) = Range(all)
      /\ \A i \in DOMAIN all : \E k \in DOMAIN d : k <= i /\ d[k] = all[i]
      /\ \A k, m \in DOMAIN d : \A i \in DOMAIN all :
           d[k] = all[i] /\ (\A j \in 1..i : all[j] # d[m]) => k < m
  BY <1>4, DistinctFacts
<1> HIDE DEF d
<1>6. /\ r \in Seq(Chunk) /\ IsInjective(r) /\ Len(r) = (IF limit < Len(d) THEN limit ELSE Len(d))
      /\ \A i \in 1..Len(r) : i \in 1..Len(d) /\ r[i] = d[i]
  BY <1>2, <1>5, FirstRowsFacts
<1>7. PICK m \in 1..Len(r) : r[m] = b
  BY <1>6, RangeOfList
<1>8. m \in 1..Len(d) /\ d[m] = b /\ b \in Range(all)
  BY <1>5, <1>6, <1>7, RangeOfList
<1>9. PICK n \in 1..Len(fused) : fused[n] = b
  <2>1. PICK i \in 1..Len(all) : all[i] = b
    BY <1>4, <1>8, RangeOfList
  <2>2. Len(anchors) \in Nat /\ Len(fused) \in Nat
    BY <1>1
  <2>3. ~(i <= Len(anchors))
    <3>1. i <= Len(anchors) => i \in 1..Len(anchors) /\ anchors[i] = b
      BY <1>4, <2>1, <2>2
    <3> QED BY <1>1, <1>3, <3>1, RangeOfList
  <2>4. i - Len(anchors) \in 1..Len(fused) /\ fused[i - Len(anchors)] = b
    <3> HIDE DEF fused
    <3> QED BY <1>4, <2>1, <2>2, <2>3
  <2> QED BY <2>4
<1>10. PICK p \in 1..(n - 1) : fused[p] = a
  <2>1. b \in Scored(lists)
    BY <1>1, <1>9, FuseFacts, RangeOfList
  <2>2. Score(b, lists) < Score(a, lists) /\ a \in Scored(lists)
    BY <2>1, BetterRanksScoreMore
  <2> QED BY <1>9, <2>1, <2>2, FuseFacts
<1> HIDE DEF fused
<1> DEFINE i == Len(anchors) + p
<1>11. Len(anchors) \in Nat /\ Len(fused) \in Nat /\ p \in 1..Len(fused) /\ p < n /\ i \in 1..Len(all)
  BY <1>1, <1>4, <1>9, <1>10
<1>12. all[i] = a
  <2>1. ~(i <= Len(anchors)) /\ i - Len(anchors) = p /\ i \in 1..(Len(anchors) + Len(fused))
    BY <1>4, <1>11
  <2> QED BY <1>4, <1>10, <2>1
<1>13. \A j \in 1..i : all[j] # b
  <2> SUFFICES ASSUME NEW j \in 1..i, all[j] = b PROVE FALSE
    OBVIOUS
  <2>1. j \in 1..Len(all)
    BY <1>11
  <2>2. CASE j <= Len(anchors)
    <3>1. j \in 1..Len(anchors) /\ anchors[j] = b
      BY <1>4, <1>11, <2>1, <2>2
    <3> QED BY <1>1, <1>3, <3>1, RangeOfList
  <2>3. CASE ~(j <= Len(anchors))
    <3>1. j - Len(anchors) \in 1..Len(fused) /\ j - Len(anchors) < n /\ fused[j - Len(anchors)] = b
      BY <1>4, <1>11, <2>1, <2>3
    <3>2. j - Len(anchors) = n
      BY <1>1, <1>9, <3>1 DEF IsInjective
    <3> QED BY <3>1, <3>2
  <2> QED BY <2>2, <2>3
<1> HIDE DEF i
<1>14. DOMAIN all = 1..Len(all) /\ DOMAIN d = 1..Len(d) /\ Len(d) \in Nat
  BY <1>4, <1>5
<1>15. PICK k \in 1..Len(d) : d[k] = a
  BY <1>5, <1>11, <1>12, <1>14
<1>16. k < m
  BY <1>5, <1>8, <1>11, <1>12, <1>13, <1>14, <1>15
<1>17. k \in 1..Len(r) /\ r[k] = a
  BY <1>6, <1>7, <1>14, <1>15, <1>16
<1> HIDE DEF r
<1>18. a \in Range(r) /\ RankOf(a, r) = k /\ RankOf(b, r) = m
  BY <1>6, <1>7, <1>17, RankOfFacts, RangeOfList
<1> QED BY <1>16, <1>18 DEF r

-----------------------------------------------------------------------------
(* Reranking.                                                              *)

LEMMA MaxOverBits ==
  ASSUME NEW S, S \subseteq 0..1, S # {}
  PROVE  MaxOver(S) \in 0..1 /\ \A x \in S : x <= MaxOver(S)
<1>0. \A x \in S : x = 0 \/ x = 1
  OBVIOUS
<1>1. \E m \in S : \A x \in S : x <= m
  <2>1. CASE 1 \in S
    BY <1>0, <2>1
  <2>2. CASE 1 \notin S
    <3>1. 0 \in S /\ \A x \in S : x = 0
      BY <1>0, <2>2
    <3> QED BY <3>1
  <2> QED BY <2>1, <2>2
<1>2. S \subseteq Int
  OBVIOUS
<1> QED BY <1>1, <1>2, MaxOverFacts

\* How similar each query is to each row.
Similar(similarity, n, list) == similarity \in [1..n -> [Range(list) -> 0..1]]

\* The combined score of a candidate is a number.
LEMMA CombinedNumber ==
  ASSUME NEW list \in Ranking, NEW n \in Nat \ {0}, NEW similarity, Similar(similarity, n, list),
         NEW c \in Range(list)
  PROVE  Combined(c, list, similarity) \in Int
<1> DEFINE others == {similarity[q][c] : q \in DOMAIN similarity \ {1}}
           semantic == IF others = {} THEN 10 * similarity[1][c]
                       ELSE 7 * similarity[1][c] + 3 * MaxOver(others)
           spread == IF Len(list) = 1 THEN 1 ELSE Len(list) - 1
           rank == IF Len(list) = 1 THEN 1 ELSE Len(list) - RankOf(c, list)
<1>1. \A q \in DOMAIN similarity : similarity[q][c] \in 0..1
  BY DEF Similar
<1>2. similarity[1][c] \in 0..1
  BY DEF Similar
<1>3. others # {} => MaxOver(others) \in 0..1
  <2>1. others \subseteq 0..1
    BY <1>1
  <2> HIDE DEF others
  <2> QED BY <2>1, MaxOverBits
<1> HIDE DEF others
<1>4. semantic \in Int
  BY <1>2, <1>3
<1>5. spread \in Int /\ rank \in Int
  <2>1. Len(list) \in Nat /\ RankOf(c, list) \in 1..Len(list)
    BY RankingFacts, RankOfFacts
  <2> QED BY <2>1
<1>6. Combined(c, list, similarity) = 8 * semantic * spread + 20 * rank
  BY DEF Combined, others
<1> HIDE DEF semantic, spread, rank
<1>7. 8 * semantic \in Int /\ 20 * rank \in Int
  BY <1>4, <1>5
<1>8. 8 * semantic * spread \in Int
  BY <1>5, <1>7
<1> QED BY <1>6, <1>7, <1>8

\* Reordering keeps the rows, each once.
LEMMA ReorderedFacts ==
  ASSUME NEW list \in Ranking, NEW n \in Nat \ {0}, NEW similarity, Similar(similarity, n, list)
  PROVE  LET ordered == Reordered(list, similarity)
         IN ordered \in Seq(Range(list)) /\ Range(ordered) = Range(list) /\ IsInjective(ordered)
<1> DEFINE S == Range(list)
           f == [c \in S |-> -Combined(c, list, similarity)]
           g == [c \in S |-> RankOf(c, list)]
<1>1. IsFiniteSet(S)
  BY RankingFacts, RangeIsFinite
<1>2. \A c \in S : -Combined(c, list, similarity) \in Int
  <2> SUFFICES ASSUME NEW c \in S PROVE -Combined(c, list, similarity) \in Int
    OBVIOUS
  <2>1. Combined(c, list, similarity) \in Int
    BY CombinedNumber
  <2> QED BY <2>1
<1>3. \A c \in S : RankOf(c, list) \in 1..Len(list) /\ list[RankOf(c, list)] = c
  BY RankingFacts, RankOfFacts
<1>4. Reordered(list, similarity) = Sorted(Keyed(S, f, g))
  <2>1. {<<-Combined(c, list, similarity), RankOf(c, list), c>> : c \in S} = Keyed(S, f, g)
    BY DEF Keyed
  <2> QED BY <2>1 DEF Reordered
<1> HIDE DEF S
<1>5. f \in [S -> Int] /\ g \in [S -> Int]
  BY <1>2, <1>3
<1>6. IsInjective(g)
  BY <1>3 DEF IsInjective
<1> HIDE DEF f, g
<1> QED BY <1>1, <1>4, <1>5, <1>6, SortedFacts DEF S

LEMMA BestIsThere ==
  ASSUME NEW list \in Ranking, list # <<>>, NEW n \in Nat \ {0}, NEW similarity,
         Similar(similarity, n, list), NEW goal \in SUBSET (1..n), goal # {}
  PROVE  BestForGoal(goal, list, similarity) \in Range(list)
<1> DEFINE S == Range(list)
           fit == [c \in S |-> MaxOver({similarity[q][c] : q \in goal})]
           Best(c) == \A d \in S : fit[c] > fit[d] \/ (fit[c] = fit[d] /\ RankOf(c, list) <= RankOf(d, list))
           L == Len(list)
<1>1. /\ L \in Nat /\ L # 0 /\ \A i \in 1..L : list[i] \in S /\ RankOf(list[i], list) = i
      /\ \A c \in S : RankOf(c, list) \in 1..L /\ list[RankOf(c, list)] = c
  <2>1. list \in Seq(Chunk) /\ IsInjective(list) /\ L \in Nat
    BY RankingFacts
  <2>2. L # 0
    BY <2>1
  <2> QED BY <2>1, <2>2, RankOfFacts, RangeOfList
<1>2. \A c \in S : fit[c] \in 0..1
  <2> SUFFICES ASSUME NEW c \in S PROVE MaxOver({similarity[q][c] : q \in goal}) \in 0..1
    OBVIOUS
  <2> DEFINE T == {similarity[q][c] : q \in goal}
  <2>1. similarity \in [1..n -> [S -> 0..1]]
    BY DEF Similar
  <2>2. \A q \in goal : q \in 1..n
    OBVIOUS
  <2>3. \A q \in goal : similarity[q][c] \in 0..1
    BY <2>1, <2>2
  <2>4. T \subseteq 0..1 /\ T # {}
    BY <2>3
  <2> HIDE DEF T
  <2> QED BY <2>4, MaxOverBits DEF T
<1>3. BestForGoal(goal, list, similarity) = CHOOSE c \in S : Best(c)
  BY DEF BestForGoal
<1> HIDE DEF S, L, fit
<1>4. \E v \in 0..1 : (\E i \in 1..L : fit[list[i]] = v) /\ \A c \in S : fit[c] <= v
  <2>1. CASE \E i \in 1..L : fit[list[i]] = 1
    BY <1>2, <2>1
  <2>2. CASE ~ \E i \in 1..L : fit[list[i]] = 1
    <3>1. \A i \in 1..L : fit[list[i]] = 0
      BY <1>1, <1>2, <2>2
    <3>2. \A c \in S : fit[c] = 0
      BY <1>1, <3>1
    <3>3. 1 \in 1..L
      BY <1>1
    <3> QED BY <3>1, <3>2, <3>3
  <2> QED BY <2>1, <2>2
<1>5. PICK v \in 0..1 : (\E i \in 1..L : fit[list[i]] = v) /\ \A c \in S : fit[c] <= v
  BY <1>4
<1> DEFINE T == {i \in 1..L : fit[list[i]] = v}
<1>6. PICK i \in T : \A j \in T : i <= j
  <2>1. T \subseteq Nat /\ T # {}
    BY <1>1, <1>5
  <2> HIDE DEF T
  <2> QED BY <2>1, LeastOf
<1>7. i \in 1..L /\ fit[list[i]] = v
  BY <1>6
<1>8. ASSUME NEW d \in S, fit[d] = v PROVE i <= RankOf(d, list)
  <2>1. RankOf(d, list) \in T
    BY <1>1, <1>8
  <2> QED BY <1>6, <2>1
<1>9. Best(list[i])
  <2> SUFFICES ASSUME NEW d \in S
               PROVE  \/ fit[list[i]] > fit[d]
                      \/ fit[list[i]] = fit[d] /\ RankOf(list[i], list) <= RankOf(d, list)
    OBVIOUS
  <2>1. fit[d] \in 0..1 /\ fit[d] <= v
    BY <1>2, <1>5
  <2>2. CASE fit[d] = v
    BY <1>1, <1>7, <1>8, <2>2
  <2>3. CASE fit[d] # v
    BY <1>7, <2>1, <2>3
  <2> QED BY <2>2, <2>3
<1>10. list[i] \in S
  BY <1>1, <1>7
<1> HIDE DEF Best
<1>11. (CHOOSE c \in S : Best(c)) \in S
  BY <1>9, <1>10
<1> QED BY <1>3, <1>11 DEF S

\* The rows kept are candidates, and the best one of every goal is among them.
LEMMA SelectedFacts ==
  ASSUME NEW list \in Ranking, list # <<>>, NEW n \in Nat \ {0}, NEW similarity,
         Similar(similarity, n, list),
         NEW groups \in Seq(SUBSET (1..n)), \A g \in DOMAIN groups : groups[g] # {},
         NEW limit \in Nat, Len(groups) <= limit
  PROVE  /\ SelectRows(list, groups, similarity, limit) \in Ranking
         /\ \A g \in DOMAIN groups : BestForGoal(groups[g], list, similarity)
                                       \in Range(SelectRows(list, groups, similarity, limit))
<1> DEFINE S == Range(list)
           ordered == Reordered(list, similarity)
           reserved == [g \in DOMAIN groups |-> BestForGoal(groups[g], list, similarity)]
           all == reserved \o ordered
           d == Distinct(all)
           first == FirstRows(d, limit)
           r == SelectRows(list, groups, similarity, limit)
<1>1. ordered \in Seq(S) /\ Range(ordered) = S /\ IsInjective(ordered) /\ S \subseteq Chunk
  BY ReorderedFacts, RankingFacts
<1>2. \A g \in DOMAIN groups : BestForGoal(groups[g], list, similarity) \in S
  <2> SUFFICES ASSUME NEW g \in DOMAIN groups PROVE BestForGoal(groups[g], list, similarity) \in S
    OBVIOUS
  <2>1. groups[g] \in SUBSET (1..n) /\ groups[g] # {}
    OBVIOUS
  <2> QED BY <2>1, BestIsThere
<1>3. r = Only(ordered, Range(first))
  BY DEF SelectRows
<1> HIDE DEF S, ordered, r
<1>4. reserved \in Seq(S) /\ Len(reserved) = Len(groups) /\ Len(groups) \in Nat /\ DOMAIN groups = 1..Len(groups)
  BY <1>2
<1>5. \A g \in DOMAIN groups : reserved[g] = BestForGoal(groups[g], list, similarity)
  OBVIOUS
<1> HIDE DEF reserved
<1>6. /\ all \in Seq(S) /\ Len(all) = Len(reserved) + Len(ordered)
      /\ \A i \in 1..(Len(reserved) + Len(ordered)) :
           all[i] = IF i <= Len(reserved) THEN reserved[i] ELSE ordered[i - Len(reserved)]
  BY <1>1, <1>4, ConcatProperties
<1>7. \A g \in DOMAIN groups : g \in 1..Len(all) /\ all[g] = reserved[g] /\ g <= limit
  <2>1. Len(ordered) \in Nat
    BY <1>1
  <2> SUFFICES ASSUME NEW g \in DOMAIN groups PROVE g \in 1..Len(all) /\ all[g] = reserved[g] /\ g <= limit
    OBVIOUS
  <2>2. g \in 1..Len(reserved) /\ g \in 1..(Len(reserved) + Len(ordered)) /\ g <= limit
    BY <1>4, <2>1
  <2> QED BY <1>6, <2>2
<1> HIDE DEF all
<1>8. /\ d \in Seq(S)
      /\ \A i \in DOMAIN all : \E k \in DOMAIN d : k <= i /\ d[k] = all[i]
  BY <1>6, DistinctFacts
<1> HIDE DEF d
<1>9. /\ first \in Seq(S) /\ Len(first) = (IF limit < Len(d) THEN limit ELSE Len(d))
      /\ \A i \in 1..Len(first) : first[i] = d[i]
  BY <1>8, FirstRowsFacts
<1> HIDE DEF first
<1>10. ASSUME NEW g \in DOMAIN groups PROVE reserved[g] \in Range(first)
  <2>1. g \in DOMAIN all /\ all[g] = reserved[g] /\ g <= limit /\ g \in Nat
    BY <1>4, <1>6, <1>7
  <2>2. PICK k \in DOMAIN d : k <= g /\ d[k] = all[g]
    BY <1>8, <2>1
  <2>3. k \in 1..Len(d) /\ Len(d) \in Nat
    BY <1>8
  <2>4. k \in 1..Len(first)
    BY <1>9, <2>1, <2>2, <2>3
  <2> QED BY <1>9, <2>1, <2>2, <2>4, RangeOfList
<1>11. r \in Seq(S) /\ Range(r) = S \cap Range(first) /\ IsInjective(r)
  BY <1>1, <1>3, OnlyFacts
<1>12. r \in Seq(Chunk)
  BY <1>1, <1>11, SeqMonotonic
<1>13. \A g \in DOMAIN groups : reserved[g] \in S
  BY <1>4
<1> QED BY <1>5, <1>10, <1>11, <1>12, <1>13 DEF Ranking, r

-----------------------------------------------------------------------------
(* Neighbours and retries.                                                 *)

\* No neighbour is named twice.
LEMMA NeighboursFacts ==
  ASSUME NEW list \in Seq(Chunk)
  PROVE  Neighbours(list) \in Ranking
<1> DEFINE n == 2 * Len(list)
           sets == [k \in 1..n |->
                      LET seed == Place[list[(k + 1) \div 2]]
                      IN At(seed.doc, IF k % 2 = 1 THEN seed.index - 1 ELSE seed.index + 1)]
<1>1. n \in Nat
  OBVIOUS
<1>2. Neighbours(list) = Named(sets)
  BY DEF Neighbours
<1>3. sets \in [1..n -> SUBSET Chunk]
  <2>1. \A doc, index : At(doc, index) \in SUBSET Chunk
    BY DEF At
  <2> HIDE DEF n
  <2> QED BY <2>1
<1> HIDE DEF n, sets
<1>4. Named(sets) \in Seq(Chunk) /\ IsInjective(Named(sets))
  BY <1>1, <1>3, ChunkFacts, NamedFacts
<1> QED BY <1>2, <1>4 DEF Ranking

\* What fits of a list are rows of it.
LEMMA FittingFacts ==
  ASSUME NEW list \in Ranking, NEW room
  PROVE  Fitting(list, room) \in Ranking /\ Range(Fitting(list, room)) \subseteq Range(list)
<1> DEFINE L == Len(list)
           E == [places |-> {}, chars |-> 0]
           A == [places : SUBSET (1..L), chars : Int]
           Defines(t) == t = [n \in 0..L |-> IF n = 0 THEN E ELSE Take(t[n - 1], list[n], n, room)]
           taken == CHOOSE t : Defines(t)
<1>0. L \in Nat /\ \A n \in 1..L : list[n] \in Chunk
  BY RankingFacts
<1>1. Fitting(list, room) = Picked(list, taken[L].places)
  BY DEF Fitting
<1> HIDE DEF L
<1>2. \A n \in 1..L : \A x \in A : Take(x, list[n], n, room) \in A
  <2> SUFFICES ASSUME NEW n \in 1..L, NEW x \in A PROVE Take(x, list[n], n, room) \in A
    OBVIOUS
  <2>1. Place[list[n]].size \in Nat
    BY <1>0, RankFusionAssumption
  <2>2. x.places \cup {n} \in SUBSET (1..L) /\ x.chars + Place[list[n]].size \in Int
    BY <2>1
  <2>3. [places |-> x.places \cup {n}, chars |-> x.chars + Place[list[n]].size] \in A
    BY <2>2
  <2>4. Take(x, list[n], n, room) \in
          {[places |-> x.places \cup {n}, chars |-> x.chars + Place[list[n]].size], x}
    BY DEF Take
  <2> QED BY <2>3, <2>4
<1>3. E \in A
  OBVIOUS
<1> HIDE DEF A, E
<1>4. \E t : Defines(t)
  <2> DEFINE step == [n \in 1..L |-> [x \in A |-> Take(x, list[n], n, room)]]
  <2>1. step \in [1..L -> [A -> A]]
    BY <1>2
  <2>2. \A n \in 1..L : \A x \in A : step[n][x] = Take(x, list[n], n, room)
    OBVIOUS
  <2> HIDE DEF step
  <2>3. PICK f : Unfolds(f, L, A, E, step)
    BY <1>0, <1>3, <2>1, Recursion
  <2>4. f \in [0..L -> A] /\ f[0] = E /\ \A n \in 1..L : f[n] = step[n][f[n - 1]]
    BY <2>3 DEF Unfolds
  <2>5. ASSUME NEW n \in 0..L PROVE f[n] = IF n = 0 THEN E ELSE Take(f[n - 1], list[n], n, room)
    <3>1. CASE n = 0
      BY <2>4, <3>1
    <3>2. CASE n # 0
      <4>1. n \in 1..L /\ n - 1 \in 0..L
        BY <1>0, <3>2
      <4> QED BY <2>2, <2>4, <3>2, <4>1
    <3> QED BY <3>1, <3>2
  <2>6. Defines(f)
    BY <2>4, <2>5
  <2> QED BY <2>6
<1>5. Defines(taken)
  <2> HIDE DEF Defines
  <2> QED BY <1>4
<1> HIDE DEF taken
<1>6. taken[0] = E /\ \A n \in 1..L : taken[n] = Take(taken[n - 1], list[n], n, room)
  <2>1. 0 \in 0..L /\ \A n \in 1..L : n \in 0..L /\ n # 0
    BY <1>0
  <2> QED BY <1>5, <2>1
<1> DEFINE G == {n \in 0..L : taken[n] \in A}
<1>7. 0 \in G
  BY <1>0, <1>3, <1>6
<1>8. ASSUME NEW n \in 0..(L - 1), n \in G PROVE n + 1 \in G
  <2>1. n + 1 \in 1..L /\ n + 1 \in 0..L /\ (n + 1) - 1 = n
    BY <1>0
  <2>2. taken[n + 1] = Take(taken[n], list[n + 1], n + 1, room)
    BY <1>6, <2>1
  <2> QED BY <1>2, <1>8, <2>1, <2>2
<1>9. taken[L] \in A
  <2>1. L \in 0..L
    BY <1>0
  <2> HIDE DEF G
  <2>2. 0..L \subseteq G
    BY <1>0, <1>7, <1>8, UpTo
  <2> QED BY <2>1, <2>2 DEF G
<1> DEFINE places == taken[L].places
<1>10. places \in SUBSET DOMAIN list
  <2>1. DOMAIN list = 1..L
    BY RankingFacts DEF L
  <2> QED BY <1>9, <2>1 DEF A
<1> HIDE DEF places
<1>11. list \in Seq(Chunk) /\ \A i, j \in places : list[i] = list[j] => i = j
  BY <1>10, RankingFacts DEF IsInjective
<1>12. Picked(list, places) \in Seq(Chunk) /\ IsInjective(Picked(list, places))
  BY <1>10, <1>11, PickedFacts, PickedInjective
<1>13. Range(Picked(list, places)) = {list[i] : i \in places}
  BY <1>10, <1>11, PickedRange
<1>14. {list[i] : i \in places} \subseteq Range(list)
  BY <1>10 DEF Range
<1> QED BY <1>1, <1>12, <1>13, <1>14 DEF Ranking, places

\* Neighbours are added behind the rows, and none twice.
LEMMA ExpandFacts ==
  ASSUME NEW list \in Ranking
  PROVE  Expand(list) \in Ranking /\ Range(list) \subseteq Range(Expand(list))
<1> DEFINE only == Only(Neighbours(list), Chunk \ Range(list))
           fitting == Fitting(only, [count |-> MaxAdjacent, chars |-> MaxAdjacentChars, opening |-> FALSE])
           r == Expand(list)
<1>1. list \in Seq(Chunk) /\ IsInjective(list)
  BY RankingFacts
<1>2. Neighbours(list) \in Seq(Chunk) /\ IsInjective(Neighbours(list))
  BY <1>1, NeighboursFacts, RankingFacts
<1>3. only \in Ranking /\ Range(only) \cap Range(list) = {}
  <2>1. /\ only \in Seq(Chunk) /\ IsInjective(only)
        /\ Range(only) = Range(Neighbours(list)) \cap (Chunk \ Range(list))
    BY <1>2, OnlyFacts
  <2> QED BY <2>1 DEF Ranking
<1>4. r = list \o fitting
  BY DEF Expand
<1> HIDE DEF only
<1>5. fitting \in Ranking /\ Range(fitting) \cap Range(list) = {}
  <2>1. fitting \in Ranking /\ Range(fitting) \subseteq Range(only)
    BY <1>3, FittingFacts
  <2> QED BY <1>3, <2>1
<1>6. fitting \in Seq(Chunk) /\ IsInjective(fitting)
  BY <1>5 DEF Ranking
<1> HIDE DEF fitting, r
<1>7. /\ r \in Seq(Chunk) /\ Len(r) = Len(list) + Len(fitting)
      /\ \A i \in 1..(Len(list) + Len(fitting)) :
           r[i] = IF i <= Len(list) THEN list[i] ELSE fitting[i - Len(list)]
  BY <1>1, <1>4, <1>6, ConcatProperties
<1>8. Len(list) \in Nat /\ Len(fitting) \in Nat
  BY <1>1, <1>6
<1>9. \A i \in 1..Len(list) : r[i] = list[i] /\ i \in 1..Len(r)
  BY <1>7, <1>8
<1>10. \A i \in 1..Len(r) : i > Len(list) =>
         i - Len(list) \in 1..Len(fitting) /\ r[i] = fitting[i - Len(list)]
  BY <1>7, <1>8
<1>11. ASSUME NEW i \in 1..Len(r), NEW j \in 1..Len(r), r[i] = r[j], i <= j PROVE i = j
  <2>1. CASE j <= Len(list)
    <3>1. i \in 1..Len(list) /\ j \in 1..Len(list)
      BY <1>7, <1>8, <1>11, <2>1
    <3> QED BY <1>1, <1>9, <1>11, <3>1 DEF IsInjective
  <2>2. CASE i > Len(list)
    <3>1. j > Len(list)
      BY <1>7, <1>8, <1>11, <2>2
    <3>2. /\ i - Len(list) \in 1..Len(fitting) /\ j - Len(list) \in 1..Len(fitting)
          /\ fitting[i - Len(list)] = fitting[j - Len(list)]
      BY <1>10, <1>11, <2>2, <3>1
    <3>3. i - Len(list) = j - Len(list)
      BY <1>6, <3>2 DEF IsInjective
    <3> QED BY <1>7, <1>8, <3>3
  <2>3. CASE i <= Len(list) /\ j > Len(list)
    <3>1. r[i] \in Range(list)
      <4>1. i \in 1..Len(list)
        BY <2>3
      <4> QED BY <1>1, <1>9, <4>1, RangeOfList
    <3>2. r[j] \in Range(fitting)
      BY <1>6, <1>10, <2>3, RangeOfList
    <3> QED BY <1>5, <1>11, <3>1, <3>2
  <2> QED BY <1>7, <1>8, <2>1, <2>2, <2>3
<1>12. IsInjective(r)
  <2> SUFFICES ASSUME NEW i \in 1..Len(r), NEW j \in 1..Len(r), r[i] = r[j] PROVE i = j
    BY <1>7 DEF IsInjective
  <2>1. i <= j \/ j <= i
    OBVIOUS
  <2> QED BY <1>11, <2>1
<1>13. Range(list) \subseteq Range(r)
  <2> SUFFICES ASSUME NEW x \in Range(list) PROVE x \in Range(r)
    OBVIOUS
  <2>1. PICK i \in 1..Len(list) : list[i] = x
    BY <1>1, RangeOfList
  <2> QED BY <1>7, <1>9, <2>1, RangeOfList
<1> QED BY <1>7, <1>12, <1>13 DEF Ranking, r

\* A retry merged into the context leaves no chunk there twice.
LEMMA MergeRetryFacts ==
  ASSUME NEW original \in Ranking, NEW supplemental \in Ranking
  PROVE  MergeRetry(original, supplemental) \in Ranking
<1>1. original \o supplemental \in Seq(Chunk)
  BY RankingFacts
<1>2. Distinct(original \o supplemental) \in Ranking
  BY <1>1, DistinctFacts DEF Ranking
<1> QED BY <1>2, FittingFacts DEF MergeRetry

-----------------------------------------------------------------------------
(* The plan.                                                               *)

RawGoals == [id : Nat, queries : Seq(Texts)]

LEMMA ParsedFacts ==
  ASSUME NEW raw \in RawPlans, ValidPlan(raw)
  PROVE  ParsedGoals(raw) \in Seq(Goals) /\ Len(ParsedGoals(raw)) <= MaxGoals
<1> DEFINE kept == FirstRows(raw, MaxGoals)
           parsed == ParsedGoals(raw)
<1>1. raw \in Seq(RawGoals) /\ MaxGoals \in Nat /\ MaxPerGoal \in Nat
  BY RetrievalAssumption DEF RawGoals
<1>2. kept \in Seq(RawGoals) /\ Len(kept) \in Nat /\ Len(kept) <= MaxGoals
  <2>1. /\ kept \in Seq(RawGoals)
        /\ Len(kept) = (IF MaxGoals < Len(raw) THEN MaxGoals ELSE Len(raw))
    BY <1>1, FirstRowsFacts
  <2>2. Len(raw) \in Nat
    BY <1>1
  <2> QED BY <1>1, <2>1, <2>2
<1>3. parsed = [i \in DOMAIN kept |->
                  [id |-> IF kept[i].id = 0 THEN i ELSE kept[i].id,
                   queries |-> FirstRows(Distinct(kept[i].queries), MaxPerGoal)]]
  BY DEF ParsedGoals
<1> HIDE DEF kept, parsed
<1>4. DOMAIN parsed = 1..Len(kept) /\ DOMAIN kept = 1..Len(kept)
  BY <1>2, <1>3
<1>5. \A i \in 1..Len(kept) : parsed[i].queries # <<>>
  BY <1>4 DEF ValidPlan, parsed
<1>6. ASSUME NEW i \in 1..Len(kept) PROVE parsed[i] \in Goals
  <2>1. kept[i].id \in Nat /\ kept[i].queries \in Seq(Queries)
    <3>1. kept[i] \in RawGoals
      BY <1>2
    <3>2. kept[i].id \in Nat /\ kept[i].queries \in Seq(Texts) /\ Texts \subseteq Queries
      BY <3>1 DEF RawGoals, Queries
    <3> QED BY <3>2, SeqMonotonic
  <2>2. Distinct(kept[i].queries) \in Seq(Queries)
    BY <2>1, DistinctFacts
  <2>3. FirstRows(Distinct(kept[i].queries), MaxPerGoal) \in Seq(Queries)
    BY <1>1, <2>2, FirstRowsFacts
  <2>4. parsed[i] = [id |-> IF kept[i].id = 0 THEN i ELSE kept[i].id,
                     queries |-> FirstRows(Distinct(kept[i].queries), MaxPerGoal)]
    BY <1>3, <1>4
  <2>5. FirstRows(Distinct(kept[i].queries), MaxPerGoal) # <<>>
    BY <1>5, <2>4
  <2>6. (IF kept[i].id = 0 THEN i ELSE kept[i].id) \in Nat
    BY <2>1
  <2> QED BY <2>3, <2>4, <2>5, <2>6 DEF Goals
<1>7. parsed \in Seq(Goals) /\ Len(parsed) = Len(kept)
  <2>1. parsed = [i \in 1..Len(kept) |-> parsed[i]]
    BY <1>3, <1>4
  <2> QED BY <1>2, <1>6, <2>1
<1> QED BY <1>2, <1>7 DEF parsed

\* A goal has a first query.
LEMMA GoalFacts ==
  ASSUME NEW goal \in Goals
  PROVE  /\ goal.queries \in Seq(Queries) /\ Len(goal.queries) \in Nat
         /\ DOMAIN goal.queries = 1..Len(goal.queries) /\ 1 \in DOMAIN goal.queries
         /\ goal.queries[1] \in Range(goal.queries)
<1>1. goal.queries \in Seq(Queries) /\ goal.queries # <<>>
  BY DEF Goals
<1>2. 1 \in 1..Len(goal.queries)
  BY <1>1
<1> QED BY <1>1, <1>2, RangeOfList

\* A list with the question in front of it.
LEMMA QuestionFirst ==
  ASSUME NEW list \in Seq(Queries)
  PROVE  /\ <<Question>> \o list \in Seq(Queries) /\ Len(<<Question>> \o list) = 1 + Len(list)
         /\ Range(<<Question>> \o list) = {Question} \cup Range(list)
<1> DEFINE one == <<Question>>
<1>0. Question \in Queries
  BY DEF Queries
<1>1. one \in Seq(Queries) /\ Len(one) = 1 /\ one[1] = Question
  BY <1>0
<1> HIDE DEF one
<1>2. Range(one) = {Question}
  <2>1. DOMAIN one = {1}
    BY <1>1
  <2> QED BY <1>1, <2>1 DEF Range
<1>3. one \o list \in Seq(Queries) /\ Len(one \o list) = Len(one) + Len(list)
  BY <1>1, ConcatProperties
<1>4. Range(one \o list) = Range(one) \cup Range(list)
  BY <1>1, RangeConcatenation
<1> QED BY <1>1, <1>2, <1>3, <1>4 DEF one

\* The question as the only query of a goal.
LEMMA QuestionAlone ==
  /\ <<Question>> \in Seq(Queries) /\ Len(<<Question>>) = 1 /\ <<Question>> # <<>>
  /\ Range(<<Question>>) = {Question}
<1> DEFINE one == <<Question>>
<1>0. Question \in Queries
  BY DEF Queries
<1>1. one \in Seq(Queries) /\ Len(one) = 1 /\ one[1] = Question /\ one # <<>>
  BY <1>0
<1> HIDE DEF one
<1>2. DOMAIN one = {1}
  BY <1>1
<1>3. Range(one) = {Question}
  BY <1>1, <1>2 DEF Range
<1> QED BY <1>1, <1>3 DEF one

\* The queries of a search are the question and those of the goals.
LEMMA SearchQueriesFacts ==
  ASSUME NEW gs \in Seq(Goals)
  PROVE  /\ SearchQueries(gs) \in Seq(Queries) /\ IsInjective(SearchQueries(gs))
         /\ Len(SearchQueries(gs)) \in Nat \ {0}
         /\ \A q \in Range(SearchQueries(gs)) :
              q = Question \/ \E i \in 1..Len(gs) : q \in Range(gs[i].queries)
         /\ \A i \in 1..Len(gs) : Range(gs[i].queries) \subseteq Range(SearchQueries(gs))
<1> DEFINE n == Len(gs)
           h == [i \in 1..n |-> {i} \X DOMAIN gs[i].queries]
           P == UNION {{i} \X DOMAIN gs[i].queries : i \in DOMAIN gs}
           turns == InTurn(P)
           asked == [m \in DOMAIN turns |-> gs[turns[m][1]].queries[turns[m][2]]]
           all == <<Question>> \o asked
           sq == SearchQueries(gs)
<1>1. /\ n \in Nat /\ DOMAIN gs = 1..n
      /\ \A i \in 1..n : /\ gs[i].queries \in Seq(Queries) /\ Len(gs[i].queries) \in Nat
                         /\ DOMAIN gs[i].queries = 1..Len(gs[i].queries)
  BY GoalFacts
<1>2. IsFiniteSet(P)
  <2> DEFINE H == {h[i] : i \in 1..n}
  <2>1. h \in Surjection(1..n, H)
    BY DEF Surjection
  <2>2. \A T \in H : IsFiniteSet(T)
    <3> SUFFICES ASSUME NEW i \in 1..n PROVE IsFiniteSet(h[i])
      OBVIOUS
    <3>1. IsFiniteSet({i}) /\ IsFiniteSet(1..Len(gs[i].queries))
      <4>1. Len(gs[i].queries) \in Int /\ 1 \in Int
        BY <1>1
      <4> QED BY <4>1, FS_Singleton, FS_Interval
    <3>2. h[i] = {i} \X (1..Len(gs[i].queries))
      BY <1>1
    <3> HIDE DEF h
    <3> QED BY <3>1, <3>2, FS_Product
  <2>3. IsFiniteSet(1..n)
    BY <1>1, FS_Interval
  <2>4. P = UNION H
    BY <1>1
  <2> HIDE DEF H, P, h
  <2>5. IsFiniteSet(H)
    BY <2>1, <2>3, FS_Surjection
  <2> QED BY <2>2, <2>4, <2>5, FS_UNION
<1>3. \A t \in P : /\ t = <<t[1], t[2]>> /\ t[1] \in 1..n /\ t[2] \in 1..Len(gs[t[1]].queries)
                   /\ t[1] \in Int /\ t[2] \in Int
  BY <1>1
<1>4. \A i \in 1..n : \A k \in 1..Len(gs[i].queries) : <<i, k>> \in P
  BY <1>1
<1>5. sq = Distinct(all)
  BY DEF SearchQueries
<1> HIDE DEF n, P, turns, sq
<1>6. turns \in Seq(P) /\ Range(turns) = P
  <2>1. \A x, y \in P : x[1] = y[1] /\ x[2] = y[2] => x = y
    BY <1>3
  <2>2. \A x \in P : x[1] \in Int /\ x[2] \in Int
    BY <1>3
  <2> QED BY <1>2, <2>1, <2>2, InTurnFacts DEF turns
<1>7. Len(turns) \in Nat /\ DOMAIN turns = 1..Len(turns) /\ \A m \in 1..Len(turns) : turns[m] \in P
  BY <1>6
<1>8. \A m \in 1..Len(turns) :
        /\ turns[m][1] \in 1..n /\ turns[m][2] \in 1..Len(gs[turns[m][1]].queries)
        /\ asked[m] = gs[turns[m][1]].queries[turns[m][2]]
  BY <1>3, <1>7
<1>9. \A m \in 1..Len(turns) : asked[m] \in Queries /\ asked[m] \in Range(gs[turns[m][1]].queries)
  <2> SUFFICES ASSUME NEW m \in 1..Len(turns)
               PROVE  asked[m] \in Queries /\ asked[m] \in Range(gs[turns[m][1]].queries)
    OBVIOUS
  <2> DEFINE list == gs[turns[m][1]].queries
  <2>1. list \in Seq(Queries) /\ turns[m][2] \in 1..Len(list) /\ asked[m] = list[turns[m][2]]
    BY <1>1, <1>8
  <2> HIDE DEF list, asked
  <2>2. list[turns[m][2]] \in Range(list) /\ list[turns[m][2]] \in Queries
    BY <2>1, RangeOfList
  <2> QED BY <2>1, <2>2 DEF list
<1>10. asked = [m \in 1..Len(turns) |-> asked[m]]
  BY <1>7
<1> HIDE DEF asked
<1>11. asked \in Seq(Queries) /\ Len(asked) = Len(turns) /\ DOMAIN asked = 1..Len(turns)
  BY <1>7, <1>9, <1>10
<1>13. all \in Seq(Queries) /\ Range(all) = {Question} \cup Range(asked)
  BY <1>11, QuestionFirst
<1> HIDE DEF all
<1>14. sq \in Seq(Queries) /\ IsInjective(sq) /\ Range(sq) = {Question} \cup Range(asked)
  BY <1>5, <1>13, DistinctFacts
<1>15. Len(sq) \in Nat \ {0}
  <2>1. PICK m \in 1..Len(sq) : sq[m] = Question
    BY <1>14, RangeOfList
  <2> QED BY <1>14, <2>1
<1>16. ASSUME NEW q \in Range(sq)
       PROVE  q = Question \/ \E i \in 1..n : q \in Range(gs[i].queries)
  <2>1. CASE q \in Range(asked)
    <3>1. PICK m \in 1..Len(turns) : asked[m] = q
      BY <1>11, <2>1, RangeOfList
    <3> QED BY <1>8, <1>9, <3>1
  <2> QED BY <1>14, <2>1
<1>17. ASSUME NEW i \in 1..n, NEW q \in Range(gs[i].queries) PROVE q \in Range(sq)
  <2>1. PICK k \in 1..Len(gs[i].queries) : gs[i].queries[k] = q
    BY <1>1, <1>17, RangeOfList
  <2>2. PICK m \in 1..Len(turns) : turns[m] = <<i, k>>
    BY <1>4, <1>6, RangeOfList
  <2>3. asked[m] = q
    BY <1>8, <2>1, <2>2
  <2>4. asked[m] \in Range(asked)
    BY <1>11, RangeOfList
  <2> QED BY <1>14, <2>3, <2>4
<1> QED BY <1>14, <1>15, <1>16, <1>17 DEF sq, n

\* Every goal's queries have places in the search.
LEMMA GoalIndexesFacts ==
  ASSUME NEW gs \in Seq(Goals), NEW i \in 1..Len(gs)
  PROVE  /\ GoalIndexes(gs[i], SearchQueries(gs)) \in SUBSET (1..Len(SearchQueries(gs)))
         /\ GoalIndexes(gs[i], SearchQueries(gs)) # {}
<1> DEFINE sq == SearchQueries(gs)
           list == gs[i].queries
<1>1. gs[i] \in Goals
  OBVIOUS
<1>2. sq \in Seq(Queries) /\ list[1] \in Range(list) /\ Range(list) \subseteq Range(sq)
  BY <1>1, SearchQueriesFacts, GoalFacts
<1>3. GoalIndexes(gs[i], sq) = {k \in DOMAIN sq : sq[k] \in Range(list)}
  BY DEF GoalIndexes
<1> HIDE DEF sq, list
<1>4. DOMAIN sq = 1..Len(sq)
  BY <1>2
<1>5. PICK k \in 1..Len(sq) : sq[k] = list[1]
  BY <1>2, RangeOfList
<1> QED BY <1>2, <1>3, <1>4, <1>5 DEF sq

\* A search for queries that are all in a list has no more than the list.
LEMMA FewQueries ==
  ASSUME NEW gs \in Seq(Goals), NEW list \in Seq(Queries), Range(SearchQueries(gs)) \subseteq Range(list)
  PROVE  Len(SearchQueries(gs)) <= Len(list)
<1> DEFINE sq == SearchQueries(gs)
<1>1. sq \in Seq(Queries) /\ IsInjective(sq)
  BY SearchQueriesFacts
<1>2. sq \in Seq(Range(list))
  <2> HIDE DEF sq
  <2>1. \A k \in 1..Len(sq) : sq[k] \in Range(list)
    BY <1>1, RangeOfList DEF sq
  <2>2. sq = [k \in 1..Len(sq) |-> sq[k]] /\ Len(sq) \in Nat
    BY <1>1
  <2> QED BY <2>1, <2>2
<1> HIDE DEF sq
<1>3. /\ IsFiniteSet(Range(list)) /\ Cardinality(Range(list)) \in Nat
      /\ Cardinality(Range(list)) <= Len(list)
  BY RangeIsFinite
<1>4. Len(sq) <= Cardinality(Range(list))
  BY <1>1, <1>2, <1>3, ShortList
<1>5. Len(sq) \in Nat /\ Len(list) \in Nat
  BY <1>1
<1> QED BY <1>3, <1>4, <1>5 DEF sq

LEMMA FallbackFacts ==
  /\ FallbackPlan \in Seq(Goals)
  /\ Len(SearchQueries(FallbackPlan)) <= MaxQueries
<1>1. <<Question>> \in Seq(Queries) /\ <<Question>> # <<>> /\ Range(<<Question>>) = {Question}
  BY QuestionAlone
<1>2. FallbackPlan \in Seq(Goals) /\ Len(FallbackPlan) = 1 /\ FallbackPlan[1].queries = <<Question>>
  BY <1>1 DEF FallbackPlan, Goals
<1>3. \A q \in Range(SearchQueries(FallbackPlan)) : q = Question
  <2>1. 1..Len(FallbackPlan) = {1}
    BY <1>2
  <2>2. \A q \in Range(SearchQueries(FallbackPlan)) :
          q = Question \/ \E i \in 1..Len(FallbackPlan) : q \in Range(FallbackPlan[i].queries)
    BY <1>2, SearchQueriesFacts
  <2> QED BY <1>1, <1>2, <2>1, <2>2
<1>4. Len(SearchQueries(FallbackPlan)) <= Len(<<Question>>)
  BY <1>1, <1>2, <1>3, FewQueries
<1>5. MaxQueries \in Nat /\ MaxQueries >= 1 /\ Len(<<Question>>) = 1
  BY RetrievalAssumption
<1>6. Len(SearchQueries(FallbackPlan)) \in Nat
  BY <1>2, SearchQueriesFacts
<1> QED BY <1>2, <1>4, <1>5, <1>6

\* The question, the goals' first queries and the further ones that are granted
\* are never too many.
LEMMA AllocatedFacts ==
  ASSUME NEW parsed \in Seq(Goals), Len(parsed) <= MaxGoals
  PROVE  /\ Allocated(parsed) \in Seq(Goals)
         /\ Len(SearchQueries(Allocated(parsed))) <= MaxQueries
<1> DEFINE n == Len(parsed)
           further == {t \in (2..MaxPerGoal) \X DOMAIN parsed : t[1] <= Len(parsed[t[2]].queries)}
           first == FirstRows(InTurn(further), Slots(parsed))
           granted == Range(first)
           K(g) == {k \in DOMAIN parsed[g].queries : k = 1 \/ <<k, g>> \in granted}
           a == Allocated(parsed)
<1>1. /\ n \in Nat /\ DOMAIN parsed = 1..n
      /\ \A g \in 1..n : /\ parsed[g] \in Goals
                         /\ parsed[g].queries \in Seq(Queries) /\ Len(parsed[g].queries) \in Nat
                         /\ DOMAIN parsed[g].queries = 1..Len(parsed[g].queries)
                         /\ 1 \in DOMAIN parsed[g].queries
  BY GoalFacts
<1>2. MaxQueries \in Nat /\ MaxGoals \in Nat /\ MaxGoals < MaxQueries /\ MaxPerGoal \in Nat
  BY RetrievalAssumption
<1>3. Slots(parsed) = MaxQueries - 1 - n /\ Slots(parsed) \in Nat
  BY <1>1, <1>2 DEF Slots
<1>4. IsFiniteSet(further)
  <2>1. IsFiniteSet(2..MaxPerGoal) /\ IsFiniteSet(1..n)
    BY <1>1, <1>2, FS_Interval
  <2>2. IsFiniteSet((2..MaxPerGoal) \X (1..n))
    BY <2>1, FS_Product
  <2>3. further \in SUBSET ((2..MaxPerGoal) \X (1..n))
    BY <1>1
  <2> HIDE DEF further
  <2> QED BY <2>2, <2>3, FS_Subset
<1>5. \A t \in further : /\ t = <<t[1], t[2]>> /\ t[2] \in 1..n /\ t[1] \in 1..Len(parsed[t[2]].queries)
                         /\ t[1] \in Int /\ t[2] \in Int
  BY <1>1, <1>2
<1>6. a = [g \in 1..n |-> [id |-> parsed[g].id, queries |-> Picked(parsed[g].queries, K(g))]]
  BY <1>1 DEF Allocated
<1> HIDE DEF further, n
<1>7. first \in Seq(further) /\ Len(first) \in Nat /\ Len(first) <= Slots(parsed)
  <2>1. InTurn(further) \in Seq(further)
    <3>1. \A x, y \in further : x[1] = y[1] /\ x[2] = y[2] => x = y
      BY <1>5
    <3>2. \A x \in further : x[1] \in Int /\ x[2] \in Int
      BY <1>5
    <3> QED BY <1>4, <3>1, <3>2, InTurnFacts
  <2>2. /\ first \in Seq(further)
        /\ Len(first) = (IF Slots(parsed) < Len(InTurn(further)) THEN Slots(parsed) ELSE Len(InTurn(further)))
    BY <1>3, <2>1, FirstRowsFacts
  <2>3. Len(InTurn(further)) \in Nat
    BY <2>1
  <2> QED BY <1>3, <2>2, <2>3
<1> HIDE DEF first
<1>8. ASSUME NEW g \in 1..n
      PROVE  /\ K(g) \in SUBSET DOMAIN parsed[g].queries /\ 1 \in K(g)
             /\ Picked(parsed[g].queries, K(g)) \in Seq(Queries) \ {<<>>}
             /\ Range(Picked(parsed[g].queries, K(g))) = {parsed[g].queries[k] : k \in K(g)}
  <2>1. K(g) \in SUBSET DOMAIN parsed[g].queries /\ 1 \in K(g)
    BY <1>1
  <2> HIDE DEF K
  <2>2. /\ Picked(parsed[g].queries, K(g)) \in Seq(Queries)
        /\ Range(Picked(parsed[g].queries, K(g))) = {parsed[g].queries[k] : k \in K(g)}
    BY <1>1, <2>1, PickedFacts, PickedRange
  <2>3. parsed[g].queries[1] \in Range(Picked(parsed[g].queries, K(g)))
    BY <2>1, <2>2
  <2>4. Range(<<>>) = {}
    BY DEF Range
  <2>5. Picked(parsed[g].queries, K(g)) # <<>>
    BY <2>3, <2>4
  <2> QED BY <2>1, <2>2, <2>5
<1> HIDE DEF K
<1>9. \A g \in 1..n : a[g] \in Goals /\ a[g].queries = Picked(parsed[g].queries, K(g))
  <2> SUFFICES ASSUME NEW g \in 1..n
               PROVE  a[g] \in Goals /\ a[g].queries = Picked(parsed[g].queries, K(g))
    OBVIOUS
  <2>1. a[g] = [id |-> parsed[g].id, queries |-> Picked(parsed[g].queries, K(g))]
    BY <1>6
  <2>2. parsed[g].id \in Nat
    BY <1>1 DEF Goals
  <2> QED BY <1>8, <2>1, <2>2 DEF Goals
<1> HIDE DEF a
<1>10. a \in Seq(Goals) /\ Len(a) = n
  <2>1. a = [g \in 1..n |-> a[g]]
    BY <1>6
  <2> QED BY <1>1, <1>9, <2>1
<1> DEFINE s == Len(first)
           firsts == [g \in 1..n |-> parsed[g].queries[1]]
           others == [m \in 1..s |-> parsed[first[m][2]].queries[first[m][1]]]
           more == firsts \o others
           list == <<Question>> \o more
<1>11. firsts \in Seq(Queries) /\ Len(firsts) = n /\ \A g \in 1..n : firsts[g] = parsed[g].queries[1]
  <2>1. \A g \in 1..n : parsed[g].queries[1] \in Queries
    BY <1>1
  <2> QED BY <1>1, <2>1
<1>12. others \in Seq(Queries) /\ Len(others) = s
       /\ \A m \in 1..s : others[m] = parsed[first[m][2]].queries[first[m][1]]
  <2>1. \A m \in 1..s : parsed[first[m][2]].queries[first[m][1]] \in Queries
    <3> SUFFICES ASSUME NEW m \in 1..s PROVE parsed[first[m][2]].queries[first[m][1]] \in Queries
      OBVIOUS
    <3> DEFINE t == first[m]
    <3>1. t \in further
      BY <1>7
    <3> HIDE DEF t
    <3>2. t[2] \in 1..n /\ t[1] \in 1..Len(parsed[t[2]].queries)
      BY <1>5, <3>1
    <3>3. parsed[t[2]].queries \in Seq(Queries)
      BY <1>1, <3>2
    <3> QED BY <3>2, <3>3 DEF t
  <2> QED BY <1>7, <2>1
<1> HIDE DEF firsts, others, s
<1>13. more \in Seq(Queries) /\ Len(more) = n + s /\ Range(more) = Range(firsts) \cup Range(others)
  BY <1>11, <1>12, ConcatProperties, RangeConcatenation
<1> HIDE DEF more
<1>15. list \in Seq(Queries) /\ Len(list) = 1 + (n + s) /\ Range(list) = {Question} \cup Range(more)
  BY <1>13, QuestionFirst
<1> HIDE DEF list
<1>16. Range(SearchQueries(a)) \subseteq Range(list)
  <2> SUFFICES ASSUME NEW q \in Range(SearchQueries(a)), q # Question PROVE q \in Range(list)
    BY <1>15
  <2>1. PICK g \in 1..n : q \in Range(a[g].queries)
    BY <1>10, SearchQueriesFacts
  <2>2. PICK k \in K(g) : q = parsed[g].queries[k]
    BY <1>8, <1>9, <2>1
  <2>3. CASE k = 1
    <3>1. q = firsts[g]
      BY <1>11, <2>2, <2>3
    <3>2. firsts[g] \in Range(firsts)
      BY <1>11, RangeOfList
    <3> QED BY <1>13, <1>15, <3>1, <3>2
  <2>4. CASE k # 1
    <3>1. <<k, g>> \in Range(first)
      BY <2>4 DEF K
    <3>2. PICK m \in 1..s : first[m] = <<k, g>>
      BY <1>7, <3>1, RangeOfList DEF s
    <3>3. others[m] = q
      BY <1>12, <2>2, <3>2
    <3>4. others[m] \in Range(others)
      BY <1>12, RangeOfList
    <3> QED BY <1>13, <1>15, <3>3, <3>4
  <2> QED BY <2>3, <2>4
<1>17. Len(SearchQueries(a)) <= Len(list)
  BY <1>10, <1>15, <1>16, FewQueries
<1>18. Len(SearchQueries(a)) \in Nat
  BY <1>10, SearchQueriesFacts
<1>19. Len(list) <= MaxQueries
  <2>1. s \in Nat /\ s <= MaxQueries - 1 - n
    BY <1>3, <1>7 DEF s
  <2> QED BY <1>1, <1>2, <1>15, <2>1
<1>20. Len(list) \in Nat
  BY <1>15
<1> QED BY <1>2, <1>10, <1>17, <1>18, <1>19, <1>20 DEF a

-----------------------------------------------------------------------------
(* The invariant.                                                          *)

\* A list has a row once, whatever made it, and lists are there only while a
\* search is under way, no more than it has queries.
Lists ==
  /\ results \in Seq(Ranking) /\ rows \in Ranking /\ context \in Ranking
  /\ phase \notin {"query", "failed"} => results = <<>>
  /\ phase = "query" => Len(results) <= Len(SearchQueries(wanted))

\* What fits the goals best is known once the rows are ordered, and the first
\* search has no more queries than it may.
Served ==
  /\ best \subseteq Range(rows)
  /\ phase \notin {"expand", "collect"} => best = {}
  /\ actions = 0 /\ phase = "search" => Len(SearchQueries(wanted)) <= MaxQueries

\* An assessment is on record from its reply to the next search, and its
\* evidence is in the context, which does not change meanwhile.
Backed ==
  /\ phase = "retry" => actions < MaxActions
  /\ recorded # None =>
       /\ phase \in {"decide", "retry", "done"}
       /\ \A g \in DOMAIN recorded : recorded[g].evidence \subseteq Range(context)
  /\ matrix # None => phase = "done" /\ matrix.evidence \subseteq Range(context)

RetrievalInv == TypeOK /\ Lists /\ Served /\ Backed

\* No rows are a ranking.
LEMMA NoRows == <<>> \in Ranking /\ Range(<<>>) = {}
  BY DEF Ranking, IsInjective, Range

LEMMA Constants ==
  /\ MaxQueries \in Nat /\ MaxGoals \in Nat /\ MaxPerGoal \in Nat /\ TopK \in Nat
  /\ MaxActions \in Nat /\ MaxChanges \in Nat
  BY RetrievalAssumption

LEMMA RetrievalInitInv == Init => RetrievalInv
<1> SUFFICES ASSUME Init PROVE RetrievalInv
  OBVIOUS
<1> USE DEF Init
<1>1. TypeOK
  <2>1. <<>> \in Seq(Goals) /\ <<>> \in Seq(Chunk) /\ GoalIds(<<>>) = {}
    BY DEF GoalIds
  <2>2. 0 \in 0..MaxChanges /\ 0 \in 0..MaxActions
    BY Constants
  <2>3. Verdict(None)
    BY DEF Verdict
  <2> QED BY <2>1, <2>2, <2>3 DEF TypeOK
<1>2. Lists
  BY NoRows DEF Lists
<1>3. Served
  BY DEF Served
<1>4. Backed
  BY DEF Backed
<1> QED BY <1>1, <1>2, <1>3, <1>4 DEF RetrievalInv

\* A result has room for every goal.
LEMMA LimitFacts ==
  ASSUME wanted \in Seq(Goals), NEW alg
  PROVE  /\ ResultLimit \in Nat /\ Len(wanted) <= ResultLimit
         /\ CandidateLimit(alg) \in Nat /\ PerQueryLimit(alg) \in Nat
<1>1. TopK \in Nat /\ Len(wanted) \in Nat
  BY Constants
<1>2. ResultLimit \in Nat /\ Len(wanted) <= ResultLimit
  BY <1>1 DEF ResultLimit
<1>3. CandidateLimit(alg) \in Nat
  BY <1>2 DEF CandidateLimit
<1>4. PerQueryLimit(alg) \in Nat
  BY <1>2, <1>3 DEF PerQueryLimit
<1> QED BY <1>2, <1>3, <1>4

\* The beginning of a ranking is one.
LEMMA FirstOfRanking ==
  ASSUME NEW list \in Ranking, NEW n \in Nat
  PROVE  FirstRows(list, n) \in Ranking
  BY RankingFacts, FirstRowsFacts DEF Ranking

\* Whatever algorithm answers, a list has a row once.
LEMMA QueryListsFacts ==
  ASSUME wanted \in Seq(Goals), NEW alg, NEW n \in 0..MaxActions
  PROVE  QueryLists(alg, n) \subseteq Ranking
<1>1. \A k \in 0..MaxActions : Found[k] \subseteq Ranking
  BY RetrievalAssumption
<1>2. CASE alg = "hybrid"
  <2> SUFFICES ASSUME NEW r \in QueryLists(alg, n) PROVE r \in Ranking
    OBVIOUS
  <2> DEFINE Heads(k, limit) == {FirstRows(hits, 3 * limit) : hits \in Found[k]}
             Fused(k, limit) == {FusedRows(three, limit) : three \in Heads(k, limit) \X Heads(k, limit) \X Heads(k, limit)}
  <2>0. HybridLists = {[search |-> k, limit |-> limit, fused |-> Fused(k, limit)] :
                         k \in 0..MaxActions, limit \in 1..(3 * (TopK + MaxGoals))}
    BY DEF HybridLists
  <2> HIDE DEF Heads, Fused
  <2>1. PICK h \in HybridLists : r \in h.fused
    BY <1>2 DEF QueryLists
  <2>2. PICK k \in 0..MaxActions, limit \in 1..(3 * (TopK + MaxGoals)) : h.fused = Fused(k, limit)
    BY <2>0, <2>1
  <2>3. PICK three \in Heads(k, limit) \X Heads(k, limit) \X Heads(k, limit) : r = FusedRows(three, limit)
    BY <2>1, <2>2 DEF Fused
  <2>4. limit \in Nat /\ 3 * limit \in Nat
    BY Constants
  <2>5. \A x \in Heads(k, limit) : x \in Ranking
    BY <1>1, <2>4, FirstOfRanking DEF Heads
  <2>6. three \in Seq(Ranking)
    <3>1. PICK d \in Heads(k, limit), w \in Heads(k, limit), s \in Heads(k, limit) : three = <<d, w, s>>
      OBVIOUS
    <3>2. d \in Ranking /\ w \in Ranking /\ s \in Ranking
      BY <2>5
    <3> QED BY <3>1, <3>2
  <2> QED BY <2>3, <2>4, <2>6, FusedRowsFacts
<1>3. CASE alg # "hybrid"
  <2>1. PerQueryLimit(alg) \in Nat
    BY LimitFacts
  <2>2. QueryLists(alg, n) = {FirstRows(hits, PerQueryLimit(alg)) : hits \in Found[n]}
    BY <1>3 DEF QueryLists
  <2> QED BY <1>1, <2>1, <2>2, FirstOfRanking
<1> QED BY <1>2, <1>3

\* The candidates of a search are a ranking.
LEMMA CandidatesFacts ==
  ASSUME RetrievalInv, Answered
  PROVE  Candidates \in Ranking
<1>1. wanted \in Seq(Goals) /\ results \in Seq(Ranking)
  BY DEF RetrievalInv, TypeOK, Lists
<1>2. CandidateLimit(algorithm) \in Nat
  BY <1>1, LimitFacts
<1>3. CASE Len(results) = 1
  <2>1. results[1] \in Ranking
    BY <1>1, <1>3
  <2> QED BY <1>2, <1>3, <2>1, FirstOfRanking DEF Candidates
<1>4. CASE Len(results) # 1
  BY <1>1, <1>2, <1>4, FusedRowsFacts DEF Candidates
<1> QED BY <1>3, <1>4

-----------------------------------------------------------------------------
(* The steps.                                                              *)

LEMMA ActivateInv == RetrievalInv /\ ActivateSearchAlgorithm => RetrievalInv'
<1> SUFFICES ASSUME RetrievalInv, ActivateSearchAlgorithm PROVE RetrievalInv'
  OBVIOUS
<1> USE DEF ActivateSearchAlgorithm, search
<1>1. TypeOK'
  <2>1. changes' \in 0..MaxChanges
    BY Constants DEF RetrievalInv, TypeOK
  <2>2. active' \in Algorithms
    OBVIOUS
  <2>3. UNCHANGED <<phase, goals, wanted, algorithm, rows, best, context, actions, recorded, outage>>
    OBVIOUS
  <2> QED BY <2>1, <2>2, <2>3 DEF RetrievalInv, TypeOK, GoalIds, Verdict
<1>2. Lists'
  BY DEF RetrievalInv, Lists
<1>3. Served'
  BY DEF RetrievalInv, Served
<1>4. Backed'
  BY DEF RetrievalInv, Backed
<1> QED BY <1>1, <1>2, <1>3, <1>4 DEF RetrievalInv

\* Every plan there can be is typed, and its first search keeps the limit.
LEMMA PlanFacts ==
  ASSUME NEW plan \in {Allocated(ParsedGoals(raw)) : raw \in {r \in RawPlans : ValidPlan(r)}} \cup {FallbackPlan}
  PROVE  plan \in Seq(Goals) /\ Len(SearchQueries(plan)) <= MaxQueries
  BY ParsedFacts, AllocatedFacts, FallbackFacts

LEMMA PlanQueriesInv == RetrievalInv /\ PlanQueries => RetrievalInv'
<1> SUFFICES ASSUME RetrievalInv, PlanQueries PROVE RetrievalInv'
  OBVIOUS
<1>1. goals' \in Seq(Goals) /\ wanted' = goals' /\ Len(SearchQueries(wanted')) <= MaxQueries
  BY PlanFacts DEF PlanQueries
<1> USE DEF PlanQueries
<1>2. TypeOK'
  BY <1>1 DEF RetrievalInv, TypeOK, GoalIds, Verdict
<1>3. Lists'
  BY DEF RetrievalInv, Lists
<1>4. Served'
  BY <1>1 DEF RetrievalInv, Served
<1>5. Backed'
  BY DEF RetrievalInv, Backed
<1> QED BY <1>2, <1>3, <1>4, <1>5 DEF RetrievalInv

LEMMA BeginSearchInv == RetrievalInv /\ BeginSearch => RetrievalInv'
<1> SUFFICES ASSUME RetrievalInv, BeginSearch PROVE RetrievalInv'
  OBVIOUS
<1> USE DEF BeginSearch
<1>1. TypeOK'
  BY DEF RetrievalInv, TypeOK, GoalIds, Verdict
<1>2. Lists'
  <2>1. Len(SearchQueries(wanted)) \in Nat \ {0}
    BY SearchQueriesFacts DEF RetrievalInv, TypeOK
  <2>2. results' = <<>> /\ Len(results') = 0
    BY DEF RetrievalInv, Lists
  <2>3. Len(results') <= Len(SearchQueries(wanted'))
    BY <2>1, <2>2
  <2> QED BY <2>3 DEF RetrievalInv, Lists
<1>3. Served'
  BY DEF RetrievalInv, Served
<1>4. Backed'
  BY DEF RetrievalInv, Backed
<1> QED BY <1>1, <1>2, <1>3, <1>4 DEF RetrievalInv

LEMMA SearchQueryInv == RetrievalInv /\ SearchQuery => RetrievalInv'
<1> SUFFICES ASSUME RetrievalInv, SearchQuery PROVE RetrievalInv'
  OBVIOUS
<1>1. TypeOK'
  BY DEF RetrievalInv, TypeOK, GoalIds, Verdict, SearchQuery
<1>2. Lists'
  <2>1. PICK r \in QueryLists(algorithm, actions) : results' = Append(results, r)
    BY DEF SearchQuery
  <2>2. wanted \in Seq(Goals) /\ actions \in 0..MaxActions /\ results \in Seq(Ranking)
    BY DEF RetrievalInv, TypeOK, Lists
  <2>3. r \in Ranking
    BY <2>1, <2>2, QueryListsFacts
  <2>4. results' \in Seq(Ranking) /\ Len(results') = Len(results) + 1 /\ Len(results) \in Nat
    BY <2>1, <2>2, <2>3, AppendProperties
  <2>5. Len(SearchQueries(wanted)) \in Nat
    BY <2>2, SearchQueriesFacts
  <2>6. Len(results') <= Len(SearchQueries(wanted'))
    BY <2>4, <2>5 DEF SearchQuery
  <2> QED BY <2>4, <2>6 DEF RetrievalInv, Lists, SearchQuery
<1>3. Served'
  BY DEF RetrievalInv, Served, SearchQuery
<1>4. Backed'
  BY DEF RetrievalInv, Backed, SearchQuery
<1> QED BY <1>1, <1>2, <1>3, <1>4 DEF RetrievalInv

LEMMA SearchFailsInv == RetrievalInv /\ SearchFails => RetrievalInv'
<1> SUFFICES ASSUME RetrievalInv, SearchFails PROVE RetrievalInv'
  OBVIOUS
<1> USE DEF SearchFails, search
<1>1. TypeOK'
  BY DEF RetrievalInv, TypeOK, GoalIds, Verdict
<1>2. Lists'
  BY DEF RetrievalInv, Lists
<1>3. Served'
  BY DEF RetrievalInv, Served
<1>4. Backed'
  BY DEF RetrievalInv, Backed
<1> QED BY <1>1, <1>2, <1>3, <1>4 DEF RetrievalInv

LEMMA FuseResultsInv == RetrievalInv /\ FuseResults => RetrievalInv'
<1> SUFFICES ASSUME RetrievalInv, FuseResults PROVE RetrievalInv'
  OBVIOUS
<1>1. rows' \in Ranking
  BY CandidatesFacts DEF FuseResults
<1>2. TypeOK'
  BY <1>1, RankingFacts DEF RetrievalInv, TypeOK, GoalIds, Verdict, FuseResults
<1>3. Lists'
  BY <1>1 DEF RetrievalInv, Lists, FuseResults
<1>4. Served'
  BY DEF RetrievalInv, Served, FuseResults, Answered
<1>5. Backed'
  BY DEF RetrievalInv, Backed, FuseResults, Answered
<1> QED BY <1>2, <1>3, <1>4, <1>5 DEF RetrievalInv

\* The rows reranking keeps are candidates, the best of every goal among them.
LEMMA RerankFacts ==
  ASSUME RetrievalInv, Rerank
  PROVE  rows' \in Ranking /\ best' \subseteq Range(rows')
<1> DEFINE queries == SearchQueries(wanted)
           n == Len(queries)
           groups == [g \in DOMAIN wanted |-> GoalIndexes(wanted[g], queries)]
<1>1. wanted \in Seq(Goals) /\ rows \in Ranking /\ rows # <<>>
  BY DEF RetrievalInv, TypeOK, Lists, Rerank
<1>2. n \in Nat \ {0} /\ DOMAIN queries = 1..n
  BY <1>1, SearchQueriesFacts
<1>3. \A g \in 1..Len(wanted) : groups[g] \in SUBSET (1..n) /\ groups[g] # {}
  BY <1>1, GoalIndexesFacts
<1>4. PICK near : LET sim == Similarity(queries, groups, near)
                  IN /\ rows' = SelectRows(rows, groups, sim, ResultLimit)
                     /\ best' = {BestForGoal(groups[g], rows, sim) : g \in DOMAIN groups}
  BY DEF Rerank
<1> DEFINE sim == Similarity(queries, groups, near)
<1>5. Similar(sim, n, rows)
  BY <1>2 DEF Similar, Similarity
<1> HIDE DEF sim
<1>6. /\ rows' = SelectRows(rows, groups, sim, ResultLimit)
      /\ best' = {BestForGoal(groups[g], rows, sim) : g \in DOMAIN groups}
  BY <1>4 DEF sim
<1>7. groups \in Seq(SUBSET (1..n)) /\ Len(groups) = Len(wanted) /\ DOMAIN groups = 1..Len(wanted)
  <2>1. groups = [g \in 1..Len(wanted) |-> groups[g]] /\ Len(wanted) \in Nat
    BY <1>1
  <2> HIDE DEF groups, n
  <2> QED BY <1>3, <2>1
<1>8. ResultLimit \in Nat /\ Len(groups) <= ResultLimit
  BY <1>1, <1>7, LimitFacts
<1> HIDE DEF groups, n
<1>9. /\ SelectRows(rows, groups, sim, ResultLimit) \in Ranking
      /\ \A g \in DOMAIN groups : BestForGoal(groups[g], rows, sim)
                                    \in Range(SelectRows(rows, groups, sim, ResultLimit))
  BY <1>1, <1>2, <1>3, <1>5, <1>7, <1>8, SelectedFacts
<1> QED BY <1>6, <1>9

LEMMA RerankInv == RetrievalInv /\ Rerank => RetrievalInv'
<1> SUFFICES ASSUME RetrievalInv, Rerank PROVE RetrievalInv'
  OBVIOUS
<1>1. rows' \in Ranking /\ best' \subseteq Range(rows')
  BY RerankFacts
<1>2. phase = "rerank" /\ phase' = "expand"
      /\ UNCHANGED <<active, changes, goals, wanted, algorithm, results, context, actions,
                     recorded, matrix, outage>>
  BY DEF Rerank
<1>3. TypeOK'
  BY <1>1, <1>2, RankingFacts DEF RetrievalInv, TypeOK, GoalIds, Verdict
<1>4. Lists'
  BY <1>1, <1>2 DEF RetrievalInv, Lists
<1>5. Served'
  BY <1>1, <1>2 DEF RetrievalInv, Served
<1>6. Backed'
  BY <1>2 DEF RetrievalInv, Backed
<1> QED BY <1>3, <1>4, <1>5, <1>6 DEF RetrievalInv

LEMMA RerankFallsBackInv == RetrievalInv /\ RerankFallsBack => RetrievalInv'
<1> SUFFICES ASSUME RetrievalInv, RerankFallsBack PROVE RetrievalInv'
  OBVIOUS
<1>1. rows' \in Ranking
  <2>1. ResultLimit \in Nat /\ rows \in Ranking
    BY LimitFacts DEF RetrievalInv, TypeOK, Lists
  <2> QED BY <2>1, FirstOfRanking DEF RerankFallsBack
<1>2. TypeOK'
  BY <1>1, RankingFacts DEF RetrievalInv, TypeOK, GoalIds, Verdict, RerankFallsBack
<1>3. Lists'
  BY <1>1 DEF RetrievalInv, Lists, RerankFallsBack
<1>4. Served'
  BY DEF RetrievalInv, Served, RerankFallsBack
<1>5. Backed'
  BY DEF RetrievalInv, Backed, RerankFallsBack
<1> QED BY <1>2, <1>3, <1>4, <1>5 DEF RetrievalInv

LEMMA AddNeighboursInv == RetrievalInv /\ AddNeighbours => RetrievalInv'
<1> SUFFICES ASSUME RetrievalInv, AddNeighbours PROVE RetrievalInv'
  OBVIOUS
<1>1. rows' \in Ranking /\ Range(rows) \subseteq Range(rows')
  BY ExpandFacts DEF RetrievalInv, Lists, AddNeighbours
<1>2. TypeOK'
  BY <1>1, RankingFacts DEF RetrievalInv, TypeOK, GoalIds, Verdict, AddNeighbours
<1>3. Lists'
  BY <1>1 DEF RetrievalInv, Lists, AddNeighbours
<1>4. Served'
  BY <1>1 DEF RetrievalInv, Served, AddNeighbours
<1>5. Backed'
  BY DEF RetrievalInv, Backed, AddNeighbours
<1> QED BY <1>2, <1>3, <1>4, <1>5 DEF RetrievalInv

LEMMA CollectInv == RetrievalInv /\ Collect => RetrievalInv'
<1> SUFFICES ASSUME RetrievalInv, Collect PROVE RetrievalInv'
  OBVIOUS
<1>1. context' \in Ranking
  BY MergeRetryFacts DEF RetrievalInv, Lists, Collect
<1> USE DEF Collect, NoSearch
<1>2. TypeOK'
  <2>1. context' \in Seq(Chunk) /\ <<>> \in Seq(Chunk) /\ <<>> \in Seq(Goals)
    BY <1>1, RankingFacts
  <2>2. GoalIds(wanted') = {}
    BY DEF GoalIds
  <2> QED BY <2>1, <2>2 DEF RetrievalInv, TypeOK, Verdict
<1>3. Lists'
  BY <1>1, NoRows DEF RetrievalInv, Lists
<1>4. Served'
  BY DEF RetrievalInv, Served
<1>5. Backed'
  BY DEF RetrievalInv, Backed
<1> QED BY <1>2, <1>3, <1>4, <1>5 DEF RetrievalInv

LEMMA SearchHierarchicallyInv == RetrievalInv /\ SearchHierarchically => RetrievalInv'
<1> SUFFICES ASSUME RetrievalInv, SearchHierarchically PROVE RetrievalInv'
  OBVIOUS
<1> USE DEF SearchHierarchically, search
<1>1. TypeOK'
  BY DEF RetrievalInv, TypeOK, GoalIds, Verdict
<1>2. Lists'
  BY DEF RetrievalInv, Lists
<1>3. Served'
  BY DEF RetrievalInv, Served
<1>4. Backed'
  BY DEF RetrievalInv, Backed
<1> QED BY <1>1, <1>2, <1>3, <1>4 DEF RetrievalInv

LEMMA AssessInv == RetrievalInv /\ Assess => RetrievalInv'
<1> SUFFICES ASSUME RetrievalInv, Assess PROVE RetrievalInv'
  OBVIOUS
<1>1. PICK a \in {None} \cup [GoalIds(goals) -> {v \in Verdicts : Linked(v)}] :
        /\ recorded' = a
        /\ phase' = IF a = None \/ Sufficient(a) \/ actions >= MaxActions THEN "decide" ELSE "retry"
  BY DEF Assess
<1>2. phase = "assess"
      /\ UNCHANGED <<active, changes, goals, search, context, actions, matrix, outage>>
  BY DEF Assess
<1>3. recorded' # None => \A g \in DOMAIN recorded' :
        /\ recorded'[g].status \in Statuses /\ recorded'[g].evidence \subseteq Range(context)
        /\ recorded'[g].evidence \subseteq Chunk
  <2> SUFFICES ASSUME a # None, NEW g \in DOMAIN a
               PROVE  /\ a[g].status \in Statuses /\ a[g].evidence \subseteq Range(context)
                      /\ a[g].evidence \subseteq Chunk
    BY <1>1
  <2>1. a[g] \in Verdicts /\ Linked(a[g])
    OBVIOUS
  <2>2. Range(context) \subseteq Chunk
    BY RankingFacts DEF RetrievalInv, Lists
  <2> QED BY <2>1, <2>2 DEF Verdicts, Linked
<1>4. phase' \in {"decide", "retry"}
  BY <1>1
<1>5. TypeOK'
  <2>1. Verdict(recorded')
    BY <1>3 DEF Verdict
  <2> QED BY <1>2, <1>4, <2>1 DEF RetrievalInv, TypeOK, GoalIds, search
<1>6. Lists'
  BY <1>2, <1>4 DEF RetrievalInv, Lists, search
<1>7. Served'
  BY <1>2, <1>4 DEF RetrievalInv, Served, search
<1>8. Backed'
  <2>1. phase' = "retry" => actions' < MaxActions
    <3>1. actions \in Nat /\ MaxActions \in Nat
      BY Constants DEF RetrievalInv, TypeOK
    <3> QED BY <1>1, <1>2, <3>1
  <2>2. matrix = None
    BY <1>2 DEF RetrievalInv, Backed
  <2> QED BY <1>2, <1>3, <1>4, <2>1, <2>2 DEF Backed
<1> QED BY <1>5, <1>6, <1>7, <1>8 DEF RetrievalInv

\* A retry searches for goals of the plan.
LEMMA RetryGoalsFacts ==
  ASSUME RetrievalInv, NEW renewed
  PROVE  RetryGoals(renewed) \in Seq(Goals) /\ GoalIds(RetryGoals(renewed)) \subseteq GoalIds(goals)
<1> DEFINE S == {i \in DOMAIN goals : recorded[goals[i].id].status # "supported"}
           open == Picked(goals, S)
           r == RetryGoals(renewed)
<1>1. goals \in Seq(Goals) /\ S \in SUBSET DOMAIN goals
  BY DEF RetrievalInv, TypeOK
<1>2. r = [i \in DOMAIN open |->
             IF open[i].id \in renewed THEN [open[i] EXCEPT !.queries = <<"retry">>] ELSE open[i]]
  BY DEF RetryGoals
<1> HIDE DEF S
<1>3. open \in Seq(Goals) /\ Range(open) = {goals[i] : i \in S}
  BY <1>1, PickedFacts, PickedRange
<1> HIDE DEF open, r
<1>4. DOMAIN open = 1..Len(open) /\ Len(open) \in Nat /\ DOMAIN r = 1..Len(open)
  BY <1>2, <1>3
<1>5. ASSUME NEW i \in 1..Len(open) PROVE r[i] \in Goals /\ r[i].id = open[i].id
  <2>1. open[i] \in Goals
    BY <1>3
  <2>2. <<"retry">> \in Seq(Queries) \ {<<>>}
    <3>1. "retry" \in Queries
      BY DEF Queries
    <3> QED BY <3>1
  <2>3. [open[i] EXCEPT !.queries = <<"retry">>] \in Goals
        /\ [open[i] EXCEPT !.queries = <<"retry">>].id = open[i].id
    BY <2>1, <2>2 DEF Goals
  <2> QED BY <1>2, <1>4, <2>1, <2>3
<1>6. r \in Seq(Goals)
  <2>1. r = [i \in 1..Len(open) |-> r[i]]
    BY <1>2, <1>4
  <2> QED BY <1>4, <1>5, <2>1
<1>7. GoalIds(r) \subseteq GoalIds(goals)
  <2> SUFFICES ASSUME NEW i \in 1..Len(open) PROVE r[i].id \in GoalIds(goals)
    BY <1>4 DEF GoalIds
  <2>1. open[i] \in Range(open)
    BY <1>3, RangeOfList
  <2>2. PICK k \in S : open[i] = goals[k]
    BY <1>3, <2>1
  <2> QED BY <1>1, <1>5, <2>2 DEF GoalIds
<1> QED BY <1>6, <1>7 DEF r

LEMMA RetryInv == RetrievalInv /\ Retry => RetrievalInv'
<1> SUFFICES ASSUME RetrievalInv, Retry PROVE RetrievalInv'
  OBVIOUS
<1>1. PICK renewed : wanted' = RetryGoals(renewed)
  BY DEF Retry
<1>2. wanted' \in Seq(Goals) /\ GoalIds(wanted') \subseteq GoalIds(goals)
  BY <1>1, RetryGoalsFacts
<1>3. actions' \in 1..MaxActions
  BY Constants DEF RetrievalInv, TypeOK, Backed, Retry
<1>4. TypeOK'
  <2>1. GoalIds(goals') = GoalIds(goals) /\ Verdict(recorded') /\ actions' \in 0..MaxActions
    BY <1>3, Constants DEF Retry, Verdict
  <2> QED BY <1>2, <2>1 DEF RetrievalInv, TypeOK, Retry
<1>5. Lists'
  BY DEF RetrievalInv, Lists, Retry
<1>6. Served'
  <2>1. actions' # 0
    BY <1>3
  <2> QED BY <2>1 DEF RetrievalInv, Served, Retry
<1>7. Backed'
  BY DEF RetrievalInv, Backed, Retry
<1> QED BY <1>4, <1>5, <1>6, <1>7 DEF RetrievalInv

LEMMA BuildMatrixInv == RetrievalInv /\ BuildMatrix => RetrievalInv'
<1> SUFFICES ASSUME RetrievalInv, BuildMatrix PROVE RetrievalInv'
  OBVIOUS
<1> USE DEF BuildMatrix, search
<1>1. TypeOK'
  BY DEF RetrievalInv, TypeOK, GoalIds, Verdict
<1>2. Lists'
  BY DEF RetrievalInv, Lists
<1>3. Served'
  BY DEF RetrievalInv, Served
<1>4. Backed'
  <2>1. matrix'.evidence = IF recorded = None THEN {}
                           ELSE UNION {recorded[g].evidence : g \in DOMAIN recorded}
    OBVIOUS
  <2>2. matrix'.evidence \subseteq Range(context)
    BY <2>1 DEF RetrievalInv, Backed
  <2> QED BY <2>2 DEF RetrievalInv, Backed
<1> QED BY <1>1, <1>2, <1>3, <1>4 DEF RetrievalInv

\* A step that changes nothing preserves it.
LEMMA RetrievalStutterInv == RetrievalInv /\ UNCHANGED vars => RetrievalInv'
<1> SUFFICES ASSUME RetrievalInv, UNCHANGED vars PROVE RetrievalInv'
  OBVIOUS
<1> USE DEF vars
<1>1. TypeOK'
  BY DEF RetrievalInv, TypeOK, GoalIds, Verdict
<1>2. Lists'
  BY DEF RetrievalInv, Lists
<1>3. Served'
  BY DEF RetrievalInv, Served
<1>4. Backed'
  BY DEF RetrievalInv, Backed
<1> QED BY <1>1, <1>2, <1>3, <1>4 DEF RetrievalInv

\* The invariant holds of every state of a request.
THEOREM RetrievalInvariance == Spec => []RetrievalInv
<1>1. RetrievalInv /\ [Next]_vars => RetrievalInv'
  BY ActivateInv, PlanQueriesInv, BeginSearchInv, SearchQueryInv, SearchFailsInv, FuseResultsInv,
     RerankInv, RerankFallsBackInv, AddNeighboursInv, CollectInv, SearchHierarchicallyInv, AssessInv,
     RetryInv, BuildMatrixInv, RetrievalStutterInv DEF Next, Step, Ended
<1> QED BY <1>1, RetrievalInitInv, PTL DEF Spec

-----------------------------------------------------------------------------
(* What the invariant gives.                                               *)

\* Every variable of a request keeps its type.
THEOREM RetrievalTypeCorrect == Spec => []TypeOK
<1>1. RetrievalInv => TypeOK
  BY DEF RetrievalInv
<1> QED BY <1>1, RetrievalInvariance, PTL

LEMMA RanksRespected == RetrievalInv => FusionRespectsRanks
<1> SUFFICES ASSUME RetrievalInv, Answered,
                    NEW b \in Range(Candidates),
                    NEW a \in UNION {Range(results[i]) : i \in DOMAIN results},
                    a # b, Dominates(a, b, results)
             PROVE  a \in Range(Candidates) /\ RankOf(a, Candidates) < RankOf(b, Candidates)
  BY DEF FusionRespectsRanks
<1>1. results \in Seq(Ranking) /\ wanted \in Seq(Goals)
  BY DEF RetrievalInv, TypeOK, Lists
<1> DEFINE limit == CandidateLimit(algorithm)
<1>2. limit \in Nat
  BY <1>1, LimitFacts
<1> HIDE DEF limit
<1>3. CASE Len(results) # 1
  <2>1. Candidates = FusedRows(results, limit)
    BY <1>3 DEF Candidates, limit
  <2> QED BY <1>1, <1>2, <2>1, FusedInOrder
<1>4. CASE Len(results) = 1
  <2> DEFINE list == results[1]
             r == Candidates
  <2>1. list \in Ranking /\ 1 \in DOMAIN results
    <3>1. DOMAIN results = 1..1
      BY <1>1, <1>4
    <3>2. 1 \in DOMAIN results
      BY <3>1
    <3> QED BY <1>1, <3>2
  <2>2. list \in Seq(Chunk) /\ IsInjective(list)
    BY <2>1, RankingFacts
  <2>3. r = FirstRows(list, limit)
    BY <1>4 DEF Candidates, limit
  <2> HIDE DEF list, r
  <2>4. /\ r \in Seq(Chunk) /\ IsInjective(r) /\ Len(r) \in Nat
        /\ Len(r) = (IF limit < Len(list) THEN limit ELSE Len(list))
        /\ \A i \in 1..Len(r) : i \in 1..Len(list) /\ r[i] = list[i]
    BY <1>2, <2>2, <2>3, FirstRowsFacts
  <2>5. PICK m \in 1..Len(r) : r[m] = b
    BY <2>4, RangeOfList DEF r
  <2>6. m \in 1..Len(list) /\ list[m] = b
    BY <2>4, <2>5
  <2>7. b \in Range(list) /\ RankOf(b, list) = m
    BY <2>2, <2>6, RangeOfList, RankOfFacts
  <2>8. a \in Range(list) /\ RankOf(a, list) < m
    BY <2>1, <2>7 DEF Dominates, list
  <2>9. RankOf(a, list) \in 1..Len(list) /\ list[RankOf(a, list)] = a
    BY <2>2, <2>8, RankOfFacts
  <2>10. RankOf(a, list) \in 1..Len(r)
    BY <2>4, <2>5, <2>8, <2>9
  <2>11. r[RankOf(a, list)] = a
    BY <2>4, <2>9, <2>10
  <2>12. a \in Range(r) /\ RankOf(a, r) = RankOf(a, list) /\ RankOf(b, r) = m
    BY <2>4, <2>5, <2>10, <2>11, RangeOfList, RankOfFacts
  <2> QED BY <2>8, <2>12 DEF r
<1> QED BY <1>3, <1>4

\* A chunk that is ranked higher than another by every query that finds the
\* other never comes behind it in the fused list (retriever.py:327, :345),
\* whatever lists the indexes return and however many there are.
THEOREM RanksAreRespected == Spec => []FusionRespectsRanks
  BY RanksRespected, RetrievalInvariance, PTL

\* Every goal of the first plan is searched for within the limit
\* (query_rewriter.py:245), and keeps the candidate that fits it best through
\* the reranking (reranker.py:141) and behind it.
THEOREM GoalsServed == Spec => []GoalsAreServed
<1>1. RetrievalInv => GoalsAreServed
  <2> SUFFICES ASSUME RetrievalInv PROVE GoalsAreServed
    OBVIOUS
  <2>1. wanted \in Seq(Goals)
    BY DEF RetrievalInv, TypeOK
  <2>2. \A i \in DOMAIN wanted : GoalIndexes(wanted[i], SearchQueries(wanted)) # {}
    BY <2>1, GoalIndexesFacts
  <2>3. PlanFitsSearch
    BY <2>2 DEF PlanFitsSearch, RetrievalInv, Served
  <2>4. GoalsKeepTheirBest
    BY DEF GoalsKeepTheirBest, RetrievalInv, Served
  <2> QED BY <2>3, <2>4 DEF GoalsAreServed
<1> QED BY <1>1, RetrievalInvariance, PTL

\* The context never holds a chunk twice, and holds all evidence the matrix
\* that is handed over with it refers to (evidence_coverage.py:213, :474).
THEOREM ContextSound == Spec => []ContextIsSound
<1>1. RetrievalInv => ContextIsSound
  BY RankingFacts DEF RetrievalInv, Lists, Backed, ContextIsSound, NoChunkTwice, MatrixIsBacked
<1> QED BY <1>1, RetrievalInvariance, PTL

-----------------------------------------------------------------------------
(* Every step of the request brings its end nearer.                        *)

Advances ==
  changes' = changes =>
    \/ actions' > actions
    \/ /\ actions' = actions
       /\ Remaining(phase', wanted', results') < Remaining(phase, wanted, results)

\* A plan that fits the limit brings the request nearer to its end.
LEMMA PlanAdvances == RetrievalInv /\ PlanQueries => Advances
<1> SUFFICES ASSUME RetrievalInv, PlanQueries PROVE Advances
  OBVIOUS
<1>1. wanted' \in Seq(Goals) /\ Len(SearchQueries(wanted')) <= MaxQueries
  BY PlanFacts DEF PlanQueries
<1>2. Len(SearchQueries(wanted')) \in Nat /\ MaxQueries \in Nat
  BY <1>1, SearchQueriesFacts, Constants
<1>3. phase = "plan" /\ phase' = "search" /\ actions' = actions
  BY DEF PlanQueries
<1>4. /\ Remaining(phase, wanted, results) = 8 + MaxQueries
      /\ Remaining(phase', wanted', results') = 7 + Len(SearchQueries(wanted'))
  BY <1>3 DEF Remaining
<1> QED BY <1>1, <1>2, <1>3, <1>4 DEF Advances

LEMMA SearchAdvances == RetrievalInv /\ (BeginSearch \/ SearchQuery \/ SearchFails) => Advances
<1> SUFFICES ASSUME RetrievalInv, BeginSearch \/ SearchQuery \/ SearchFails PROVE Advances
  OBVIOUS
<1> DEFINE n == Len(SearchQueries(wanted))
<1>1. n \in Nat /\ results \in Seq(Ranking) /\ Len(results) \in Nat
  BY SearchQueriesFacts DEF RetrievalInv, TypeOK, Lists
<1> HIDE DEF n
<1>2. wanted' = wanted /\ actions' = actions
  BY DEF BeginSearch, SearchQuery, SearchFails, search
<1>3. CASE BeginSearch
  <2>1. phase = "search" /\ phase' = "query" /\ results' = <<>>
    BY <1>3 DEF BeginSearch, RetrievalInv, Lists
  <2>2. /\ Remaining(phase, wanted, results) = 7 + n
        /\ Remaining(phase', wanted', results') = 6 + n - Len(results')
    BY <1>2, <2>1 DEF Remaining, n
  <2>3. Len(results') = 0
    BY <2>1
  <2>4. 6 + n - 0 < 7 + n
    BY <1>1
  <2> QED BY <1>2, <2>2, <2>3, <2>4 DEF Advances
<1>4. CASE SearchQuery
  <2>1. PICK r \in QueryLists(algorithm, actions) : results' = Append(results, r)
    BY <1>4 DEF SearchQuery
  <2>2. r \in Ranking
    BY <2>1, QueryListsFacts DEF RetrievalInv, TypeOK
  <2>3. Len(results') = Len(results) + 1
    BY <1>1, <2>1, <2>2, AppendProperties
  <2>4. phase = "query" /\ phase' = "query"
    BY <1>4 DEF SearchQuery
  <2>5. /\ Remaining(phase, wanted, results) = 6 + n - Len(results)
        /\ Remaining(phase', wanted', results') = 6 + n - Len(results')
    BY <1>2, <2>4 DEF Remaining, n
  <2>6. 6 + n - (Len(results) + 1) < 6 + n - Len(results)
    BY <1>1
  <2> QED BY <1>2, <2>3, <2>5, <2>6 DEF Advances
<1>5. CASE SearchFails
  <2>1. phase = "query" /\ phase' = "failed"
    BY <1>5 DEF SearchFails
  <2>2. Len(results) <= n
    BY <2>1 DEF RetrievalInv, Lists, n
  <2>3. /\ Remaining(phase, wanted, results) = 6 + n - Len(results)
        /\ Remaining(phase', wanted', results') = 0
    BY <1>2, <2>1 DEF Remaining, n
  <2>4. 0 < 6 + n - Len(results)
    BY <1>1, <2>2
  <2> QED BY <1>2, <2>3, <2>4 DEF Advances
<1> QED BY <1>3, <1>4, <1>5

\* Fusing leaves the queries of the search behind.
LEMMA FuseAdvances == RetrievalInv /\ FuseResults => Advances
<1> SUFFICES ASSUME RetrievalInv, FuseResults PROVE Advances
  OBVIOUS
<1> DEFINE n == Len(SearchQueries(wanted))
<1>1. n \in Nat
  BY SearchQueriesFacts DEF RetrievalInv, TypeOK
<1> HIDE DEF n
<1>2. phase = "query" /\ Len(results) = n /\ phase' \in {"rerank", "expand"} /\ actions' = actions
  BY DEF FuseResults, Answered, n
<1>3. Remaining(phase, wanted, results) = 6 + n - n
  BY <1>2 DEF Remaining, n
<1>4. Remaining(phase', wanted', results') \in {4, 5}
  BY <1>2 DEF Remaining
<1>5. 6 + n - n = 6
  BY <1>1
<1> QED BY <1>2, <1>3, <1>4, <1>5 DEF Advances

LEMMA RoundAdvances ==
  Rerank \/ RerankFallsBack \/ AddNeighbours \/ Collect \/ SearchHierarchically \/ Assess \/ BuildMatrix
    => Advances
<1> SUFFICES ASSUME Rerank \/ RerankFallsBack \/ AddNeighbours \/ Collect \/ SearchHierarchically
                      \/ Assess \/ BuildMatrix
             PROVE  Advances
  OBVIOUS
<1>1. /\ actions' = actions
      /\ \/ phase = "rerank" /\ phase' = "expand"
         \/ phase = "expand" /\ phase' = "collect"
         \/ phase = "collect" /\ phase' = "assess"
         \/ phase = "assess" /\ phase' = "failed"
         \/ phase = "assess" /\ phase' \in {"decide", "retry"}
         \/ phase = "decide" /\ phase' = "done"
  BY DEF Rerank, RerankFallsBack, AddNeighbours, Collect, SearchHierarchically, Assess, BuildMatrix
<1>2. Remaining(phase', wanted', results') < Remaining(phase, wanted, results)
  BY <1>1 DEF Remaining
<1> QED BY <1>1, <1>2 DEF Advances

\* A retry uses one up.
LEMMA RetryAdvances == RetrievalInv /\ Retry => Advances
<1> SUFFICES ASSUME RetrievalInv, Retry PROVE Advances
  OBVIOUS
<1>1. actions \in Nat /\ actions' = actions + 1
  BY Constants DEF RetrievalInv, TypeOK, Retry
<1> QED BY <1>1 DEF Advances

LEMMA NextAdvances == RetrievalInv /\ [Next]_vars => [Advances]_vars
<1> SUFFICES ASSUME RetrievalInv, Next, ~ UNCHANGED vars PROVE Advances
  OBVIOUS
<1>1. CASE Step
  BY <1>1, PlanAdvances, SearchAdvances, FuseAdvances, RoundAdvances, RetryAdvances DEF Step
<1>2. CASE ActivateSearchAlgorithm
  <2>1. changes \in Nat /\ changes' = changes + 1
    BY <1>2, Constants DEF RetrievalInv, TypeOK, ActivateSearchAlgorithm
  <2> QED BY <2>1 DEF Advances
<1> QED BY <1>1, <1>2 DEF Next, Ended

\* A step of the request uses up a retry or brings the round nearer to its
\* end, however many queries, goals and retries there may be.
THEOREM RequestAlwaysAdvances == Spec => RequestAdvances
<1>1. RetrievalInv /\ [Next]_vars => [Advances]_vars
  BY NextAdvances
<1>2. Spec => [][Advances]_vars
  BY <1>1, RetrievalInvariance, PTL DEF Spec
<1> QED BY <1>2 DEF RequestAdvances, Advances
=============================================================================
