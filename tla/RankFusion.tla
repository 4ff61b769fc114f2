----------------------------- MODULE RankFusion -----------------------------
(***************************************************************************)
(* The ranking algorithms of the retrieval: reciprocal rank fusion of      *)
(* several result lists, the first hits that survive it, the semantic      *)
(* reranking that keeps one chunk for every evidence goal, the neighbours  *)
(* added behind it, and the merge of a retry into the context.             *)
(*                                                                         *)
(* A chunk is a natural number, its id; a list of rows is a sequence of    *)
(* ids, best first.  Where and how long a chunk is stands in Place.        *)
(***************************************************************************)
EXTENDS Integers, Sequences, FiniteSets, Functions

CONSTANTS
  Place,             \* [chunk -> [doc, index, size]]
  Scale,             \* a common multiple of the denominators of the fusion
  MaxAdjacent,       \* MAX_ADJACENT_CHUNKS
  MaxAdjacentChars,  \* MAX_ADJACENT_CONTEXT_CHARS
  MaxMerged,         \* MAX_RETRY_CONTEXT_CHUNKS
  MaxMergedChars     \* MAX_RETRY_CONTEXT_CHARS

Chunk == DOMAIN Place

ASSUME RankFusionAssumption ==
  /\ IsFiniteSet(Chunk) /\ Chunk \subseteq Nat
  /\ \A c \in Chunk : Place[c].index \in Nat /\ Place[c].size \in Nat
  /\ Scale \in Nat \ {0} /\ \A rank \in 1..Cardinality(Chunk) : Scale % (60 + rank) = 0
  /\ {MaxAdjacent, MaxAdjacentChars, MaxMerged, MaxMergedChars} \subseteq Nat

\* The lists a search can return: a row is there once.
Ranking == {list \in Seq(Chunk) : IsInjective(list)}

-----------------------------------------------------------------------------
(* Lists and orders.  An order is what comes before each element, where    *)
(* SequencesExt takes an operator, so that facts can be proved of all.     *)

Ranked(S, before) ==
  [n \in 1..Cardinality(S) |-> CHOOSE x \in S : Cardinality(before[x]) = n - 1]

InOrder(places) == Ranked(places, [i \in places |-> {j \in places : j < i}])

\* Tuples by their first number, and then by their second.
InTurn(S) ==
  Ranked(S, [x \in S |-> {y \in S : y[1] < x[1] \/ (y[1] = x[1] /\ y[2] < x[2])}])

\* What comes third, by the two keys in front of it.
Sorted(keyed) == LET order == InTurn(keyed) IN [n \in DOMAIN order |-> order[n][3]]

Picked(list, places) ==
  LET order == InOrder(places) IN [n \in DOMAIN order |-> list[order[n]]]

FirstRows(list, n) == SubSeq(list, 1, IF n < Len(list) THEN n ELSE Len(list))
Only(list, s) == Picked(list, {i \in DOMAIN list : list[i] \in s})
Distinct(list) == Picked(list, {i \in DOMAIN list : \A j \in 1..(i - 1) : list[j] # list[i]})
RankOf(c, list) == CHOOSE i \in DOMAIN list : list[i] = c
MaxOver(S) == CHOOSE x \in S : \A y \in S : y <= x

\* One row for every set that has any, each once.
Named(sets) ==
  LET some == InOrder({i \in DOMAIN sets : sets[i] # {}})
  IN Distinct([n \in DOMAIN some |-> MaxOver(sets[some[n]])])

Total(sizes) ==
  LET total[n \in 0..Len(sizes)] == IF n = 0 THEN 0 ELSE total[n - 1] + sizes[n]
  IN total[Len(sizes)]

-----------------------------------------------------------------------------
(* Fusion.  1 / (60 + rank) times the scale, so that sums of it compare as *)
(* the code's fractions do.                                                *)

Reciprocal(rank) == Scale \div (60 + rank)

Score(c, lists) ==
  Total([i \in DOMAIN lists |->
           IF c \in Range(lists[i]) THEN Reciprocal(RankOf(c, lists[i])) ELSE 0])

Scored(lists) == UNION {Range(lists[i]) : i \in DOMAIN lists}

\* Variant: the lowest score first.
FuseWorstFirst(lists, limit) ==
  FirstRows(Sorted({<<Score(c, lists), c, c>> : c \in Scored(lists)}), limit)

\* _reciprocal_rank_fusion
Fuse(lists, limit) ==
  FirstRows(Sorted({<<-Score(c, lists), c, c>> : c \in Scored(lists)}), limit)

\* The first hits of the lists, in their order.
Anchors(lists) == Named([i \in DOMAIN lists |-> {lists[i][j] : j \in DOMAIN lists[i] \cap {1}}])

\* _merge_query_anchors
MergeAnchors(lists, fused, limit) == FirstRows(Distinct(Anchors(lists) \o fused), limit)

FusedRows(lists, limit) == MergeAnchors(lists, Fuse(lists, limit), limit)

-----------------------------------------------------------------------------
(* Reranking.  similarity[q][c] is the similarity of query q and chunk c;  *)
(* query 1 is the question, a goal is the set of its queries.              *)

\* 0.8 of the similarity, which is 0.7 of the question's and 0.3 of the best
\* other query's, and 0.2 of the rank before; in parts of 100 * (n - 1).
Combined(c, list, similarity) ==
  LET others   == {similarity[q][c] : q \in DOMAIN similarity \ {1}}
      semantic == IF others = {} THEN 10 * similarity[1][c]
                  ELSE 7 * similarity[1][c] + 3 * MaxOver(others)
      spread   == IF Len(list) = 1 THEN 1 ELSE Len(list) - 1
      rank     == IF Len(list) = 1 THEN 1 ELSE Len(list) - RankOf(c, list)
  IN 8 * semantic * spread + 20 * rank

\* The candidate that fits a goal best; ties go to the better rank.
BestForGoal(goal, list, similarity) ==
  LET fit == [c \in Range(list) |-> MaxOver({similarity[q][c] : q \in goal})]
  IN CHOOSE c \in Range(list) : \A d \in Range(list) :
       fit[c] > fit[d] \/ (fit[c] = fit[d] /\ RankOf(c, list) <= RankOf(d, list))

Reordered(list, similarity) ==
  Sorted({<<-Combined(c, list, similarity), RankOf(c, list), c>> : c \in Range(list)})

\* Variant: the limit is filled by score alone.
SelectByScore(list, groups, similarity, limit) == FirstRows(Reordered(list, similarity), limit)

\* _select_rows
SelectRows(list, groups, similarity, limit) ==
  LET ordered  == Reordered(list, similarity)
      reserved == [g \in DOMAIN groups |-> BestForGoal(groups[g], list, similarity)]
  IN Only(ordered, Range(FirstRows(Distinct(reserved \o ordered), limit)))

-----------------------------------------------------------------------------
(* Neighbours.                                                             *)

At(doc, index) == {c \in Chunk : Place[c].doc = doc /\ Place[c].index = index}

\* The chunks before and behind the rows, in the order they are asked for.
Neighbours(list) ==
  Named([k \in 1..(2 * Len(list)) |->
           LET seed == Place[list[(k + 1) \div 2]]
           IN At(seed.doc, IF k % 2 = 1 THEN seed.index - 1 ELSE seed.index + 1)])

\* The row at place n is taken if there is room, else passed over.
Take(taken, c, n, room) ==
  IF /\ Cardinality(taken.places) < room.count
     /\ taken.chars + Place[c].size <= room.chars \/ (room.opening /\ taken.places = {})
  THEN [places |-> taken.places \cup {n}, chars |-> taken.chars + Place[c].size]
  ELSE taken

\* Rows in their order, up to a number of rows and of characters; the first of
\* an opening always fits.
Fitting(list, room) ==
  LET taken[n \in 0..Len(list)] ==
        IF n = 0 THEN [places |-> {}, chars |-> 0]
        ELSE Take(taken[n - 1], list[n], n, room)
  IN Picked(list, taken[Len(list)].places)

\* _expand_with_adjacent_chunks
Expand(list) ==
  list \o Fitting(Only(Neighbours(list), Chunk \ Range(list)),
                  [count |-> MaxAdjacent, chars |-> MaxAdjacentChars, opening |-> FALSE])

\* _merge_retry_chunks
MergeRetry(original, supplemental) ==
  Fitting(Distinct(original \o supplemental),
          [count |-> MaxMerged, chars |-> MaxMergedChars, opening |-> TRUE])

=============================================================================
