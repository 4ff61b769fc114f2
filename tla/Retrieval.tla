----------------------------- MODULE Retrieval ------------------------------
(***************************************************************************)
(* The retrieval of one chat request: the query plan a model writes, the   *)
(* search by the algorithm that is active at that moment, fusion and       *)
(* reranking, the assessment of the evidence goal by goal, up to two more  *)
(* searches for what is missing, and the evidence matrix handed to the     *)
(* generation.  An administrator may activate another algorithm meanwhile. *)
(*                                                                         *)
(* A query stands for its text without case; the question is "Q".          *)
(***************************************************************************)
EXTENDS RankFusion

CONSTANTS
  Algorithms,    \* bound: the algorithms in use, of dense, keyword, substring, hybrid
  Texts,         \* bound: the queries the model writes
  RawPlans,      \* bound: plans the model writes, sequences of [id, queries]
  MaxQueries,    \* MAX_RETRIEVAL_QUERIES
  MaxGoals,      \* MAX_EVIDENCE_GOALS
  MaxPerGoal,    \* MAX_QUERIES_PER_GOAL
  TopK,          \* top_k of the active preset
  MaxActions,    \* MAX_RETRIEVAL_ACTIONS
  Found,         \* bound: [0..MaxActions -> lists an index may return]
  MaxChanges,    \* bound: activations of another algorithm
  None

ASSUME RetrievalAssumption ==
  /\ Algorithms \subseteq {"dense", "keyword", "substring", "hybrid"}
  /\ {MaxQueries, MaxGoals, MaxPerGoal, TopK, MaxActions, MaxChanges} \subseteq Nat
  /\ MaxGoals >= 1 /\ MaxQueries > MaxGoals /\ TopK >= 1
  /\ RawPlans \subseteq Seq([id : Nat, queries : Seq(Texts)])
  /\ Found \in [0..MaxActions -> SUBSET Ranking]

Reranked == {"dense", "hybrid"}
Statuses == {"supported", "partial", "missing", "contradicted"}
Question == "Q"
Queries == Texts \cup {Question, "retry"}

VARIABLES
  active,      \* active_search_algorithm_key
  changes,     \* bound: activations so far
  phase,       \* where the request is
  goals,       \* the evidence goals of the plan, sequences of [id, queries]
  wanted,      \* the goals of the search under way
  algorithm,   \* what the search under way read from the configuration
  results,     \* its lists, one per query
  rows,        \* its rows, best first
  best,        \* history: the candidate that fits each of its goals best
  context,     \* current_chunks
  actions,     \* retrieval actions used up
  recorded,    \* the last assessment, by goal id: the latest event of the trace
  matrix,      \* the evidence matrix, at the end
  outage       \* history: a search has failed

vars == <<active, changes, phase, goals, wanted, algorithm, results, rows, best,
          context, actions, recorded, matrix, outage>>

search == <<wanted, algorithm, results, rows, best>>

-----------------------------------------------------------------------------
(* The plan.                                                               *)

\* Goal ids are numbers; 0 is one that does not fit the pattern and becomes
\* the goal's position.
ParsedGoals(raw) ==
  LET kept == FirstRows(raw, MaxGoals)
  IN [i \in DOMAIN kept |->
        [id |-> IF kept[i].id = 0 THEN i ELSE kept[i].id,
         queries |-> FirstRows(Distinct(kept[i].queries), MaxPerGoal)]]

ValidPlan(raw) ==
  /\ raw # <<>>
  /\ LET parsed == ParsedGoals(raw)
     IN /\ \A i \in DOMAIN parsed : parsed[i].queries # <<>>
        /\ \A i, j \in DOMAIN parsed : parsed[i].id = parsed[j].id => i = j

\* What is left when the question and every goal's first query have a place.
Slots(parsed) == MaxQueries - 1 - Len(parsed)

\* The further queries take turns: every goal's second, then every third.
Allocated(parsed) ==
  LET further == {t \in (2..MaxPerGoal) \X DOMAIN parsed : t[1] <= Len(parsed[t[2]].queries)}
      granted == Range(FirstRows(InTurn(further), Slots(parsed)))
  IN [g \in DOMAIN parsed |->
        [id |-> parsed[g].id,
         queries |-> Picked(parsed[g].queries,
                            {k \in DOMAIN parsed[g].queries : k = 1 \/ <<k, g>> \in granted})]]

FallbackPlan == <<[id |-> 1, queries |-> <<Question>>]>>

\* The queries of a search: the question first, each query once.
SearchQueries(gs) ==
  LET turns == InTurn(UNION {{i} \X DOMAIN gs[i].queries : i \in DOMAIN gs})
  IN Distinct(<<Question>> \o
              [n \in DOMAIN turns |-> gs[turns[n][1]].queries[turns[n][2]]])

\* The places of a goal's queries among them.
GoalIndexes(goal, queries) == {i \in DOMAIN queries : queries[i] \in Range(goal.queries)}

GoalIds(gs) == {gs[i].id : i \in DOMAIN gs}

-----------------------------------------------------------------------------
(* Limits of one search.                                                   *)

ResultLimit == IF TopK > Len(wanted) THEN TopK ELSE Len(wanted)
CandidateLimit(alg) == IF alg \in Reranked THEN 3 * ResultLimit ELSE ResultLimit
PerQueryLimit(alg) ==
  IF Len(SearchQueries(wanted)) = 1 THEN CandidateLimit(alg)
  ELSE IF 2 * ResultLimit > CandidateLimit(alg) THEN 2 * ResultLimit ELSE CandidateLimit(alg)

\* What one query returns: a list of the index, or the fusion of three, for
\* every search and every limit.
HybridLists ==
  {LET heads == {FirstRows(hits, 3 * limit) : hits \in Found[n]}
   IN [search |-> n, limit |-> limit,
       fused  |-> {FusedRows(three, limit) : three \in heads \X heads \X heads}] :
     n \in 0..MaxActions, limit \in 1..(3 * (TopK + MaxGoals))}

QueryLists(alg, n) ==
  IF alg = "hybrid"
  THEN UNION {h.fused : h \in {h \in HybridLists : h.search = n /\ h.limit = PerQueryLimit(alg)}}
  ELSE {FirstRows(hits, PerQueryLimit(alg)) : hits \in Found[n]}

-----------------------------------------------------------------------------
Goals == [id : Nat, queries : Seq(Queries) \ {<<>>}]
Verdict(a) ==
  a = None \/ \A g \in DOMAIN a : a[g].status \in Statuses /\ a[g].evidence \subseteq Chunk

TypeOK ==
  /\ active \in Algorithms /\ algorithm \in Algorithms \cup {None}
  /\ changes \in 0..MaxChanges
  /\ phase \in {"plan", "search", "query", "rerank", "expand", "collect", "assess",
                "decide", "retry", "done", "failed"}
  /\ goals \in Seq(Goals) /\ wanted \in Seq(Goals) /\ GoalIds(wanted) \subseteq GoalIds(goals)
  /\ rows \in Seq(Chunk) /\ context \in Seq(Chunk) /\ best \subseteq Chunk
  /\ actions \in 0..MaxActions
  /\ Verdict(recorded)
  /\ outage \in BOOLEAN

Init ==
  /\ active \in Algorithms /\ changes = 0
  /\ phase = "plan" /\ goals = <<>>
  /\ wanted = <<>> /\ algorithm = None /\ results = <<>> /\ rows = <<>> /\ best = {}
  /\ context = <<>> /\ actions = 0
  /\ recorded = None /\ matrix = None
  /\ outage = FALSE

\* An administrator's change, in a transaction of its own.
ActivateSearchAlgorithm ==
  /\ changes < MaxChanges /\ phase # "done" /\ phase # "failed"
  /\ changes' = changes + 1
  /\ active' \in Algorithms \ {active}
  /\ UNCHANGED <<phase, goals, search, context, actions, recorded, matrix, outage>>

\* A plan that cannot be used is repaired once, by the model; then the
\* question alone is the plan.
PlanQueries ==
  /\ phase = "plan" /\ phase' = "search"
  /\ \E plan \in {Allocated(ParsedGoals(raw)) : raw \in {r \in RawPlans : ValidPlan(r)}}
                 \cup {FallbackPlan} :
       goals' = plan /\ wanted' = plan
  /\ UNCHANGED <<active, changes, algorithm, results, rows, best, context, actions,
                 recorded, matrix, outage>>

\* The configuration is read once for all queries of a search.
BeginSearch ==
  /\ phase = "search" /\ phase' = "query"
  /\ algorithm' = active
  /\ UNCHANGED <<active, changes, goals, wanted, results, rows, best, context, actions,
                 recorded, matrix, outage>>

SearchQuery ==
  /\ phase = "query" /\ Len(results) < Len(SearchQueries(wanted))
  /\ \E r \in QueryLists(algorithm, actions) : results' = Append(results, r)
  /\ UNCHANGED <<active, changes, phase, goals, wanted, algorithm, rows, best, context, actions,
                 recorded, matrix, outage>>

\* The embedding service or the database fails: the request ends.
SearchFails ==
  /\ phase = "query"
  /\ phase' = "failed" /\ outage' = TRUE
  /\ UNCHANGED <<active, changes, goals, search, context, actions, recorded, matrix>>

\* A single list is taken as it is.
Candidates ==
  IF Len(results) = 1 THEN FirstRows(results[1], CandidateLimit(algorithm))
  ELSE FusedRows(results, CandidateLimit(algorithm))

Answered == phase = "query" /\ Len(results) = Len(SearchQueries(wanted))

FuseResults ==
  /\ Answered
  /\ rows' = Candidates /\ results' = <<>>
  /\ phase' = IF algorithm \in Reranked THEN "rerank" ELSE "expand"
  /\ UNCHANGED <<active, changes, goals, wanted, algorithm, best, context, actions,
                 recorded, matrix, outage>>

\* bound: the question, and all queries of a goal, are similar to one chunk.
Similarities(groups) == [{0} \cup DOMAIN groups -> Range(rows) \cup {None}]

Similarity(queries, groups, near) ==
  LET Near(q, c) == (q = 1 /\ near[0] = c) \/ \E g \in DOMAIN groups : q \in groups[g] /\ near[g] = c
  IN [q \in DOMAIN queries |-> [c \in Range(rows) |-> IF Near(q, c) THEN 1 ELSE 0]]

Rerank ==
  /\ phase = "rerank" /\ rows # <<>>
  /\ LET queries == SearchQueries(wanted)
         groups  == [g \in DOMAIN wanted |-> GoalIndexes(wanted[g], queries)]
     IN \E near \in Similarities(groups) :
          LET similarity == Similarity(queries, groups, near)
          IN /\ rows' = SelectRows(rows, groups, similarity, ResultLimit)
             /\ best' = {BestForGoal(groups[g], rows, similarity) : g \in DOMAIN groups}
  /\ phase' = "expand"
  /\ UNCHANGED <<active, changes, goals, wanted, algorithm, results, context, actions,
                 recorded, matrix, outage>>

\* The embedding service fails, or there is nothing to order.
RerankFallsBack ==
  /\ phase = "rerank"
  /\ rows' = FirstRows(rows, ResultLimit)
  /\ phase' = "expand"
  /\ UNCHANGED <<active, changes, goals, wanted, algorithm, results, best, context, actions,
                 recorded, matrix, outage>>

AddNeighbours ==
  /\ phase = "expand"
  /\ rows' = Expand(rows)
  /\ phase' = "collect"
  /\ UNCHANGED <<active, changes, goals, wanted, algorithm, results, best, context, actions,
                 recorded, matrix, outage>>

-----------------------------------------------------------------------------
(* The coverage of the goals.                                              *)

NoSearch == wanted' = <<>> /\ algorithm' = None /\ results' = <<>> /\ rows' = <<>> /\ best' = {}

\* The rows of the first search are the context; those of a retry are merged
\* into it.
Collect ==
  /\ phase = "collect"
  /\ context' = IF actions = 0 THEN rows ELSE MergeRetry(context, rows)
  /\ phase' = "assess" /\ NoSearch
  /\ UNCHANGED <<active, changes, goals, actions, recorded, matrix, outage>>

\* Nothing found: the hierarchical search is called without its question,
\* which Python refuses.
SearchHierarchically ==
  /\ phase = "assess" /\ context = <<>>
  /\ phase' = "failed"
  /\ UNCHANGED <<active, changes, goals, search, context, actions, recorded,
                 matrix, outage>>

\* What a model may say of one goal.  bound: one piece of evidence.
Verdicts == [status : Statuses, evidence : {{}} \cup {{c} : c \in Chunk}]

\* Variant: evidence is not looked up in the context.
LinkedAnywhere(v) == (v.status = "missing") <=> (v.evidence = {})

\* A reply is refused unless its evidence is in the context, and there for
\* every status but "missing".
Linked(v) == v.evidence \subseteq Range(context) /\ ((v.status = "missing") <=> (v.evidence = {}))

Sufficient(a) == \A g \in DOMAIN a : a[g].status = "supported"

\* A refused reply is repaired once; then, and when a call fails, the goals
\* stay unchecked and the context is taken as it is.
Assess ==
  /\ phase = "assess" /\ context # <<>>
  /\ \E a \in {None} \cup [GoalIds(goals) -> {v \in Verdicts : Linked(v)}] :
       /\ recorded' = a
       /\ phase' = IF a = None \/ Sufficient(a) \/ actions >= MaxActions
                   THEN "decide" ELSE "retry"
  /\ UNCHANGED <<active, changes, goals, search, context, actions, matrix, outage>>

\* The goals that are not supported, those in renewed with the queries that
\* came with the assessment, the others with their old ones.
RetryGoals(renewed) ==
  LET open == Picked(goals, {i \in DOMAIN goals : recorded[goals[i].id].status # "supported"})
  IN [i \in DOMAIN open |->
        IF open[i].id \in renewed THEN [open[i] EXCEPT !.queries = <<"retry">>] ELSE open[i]]

\* Variant: a retry is not counted.
RetryUncounted ==
  /\ phase = "retry"
  /\ \E renewed \in SUBSET GoalIds(goals) : wanted' = RetryGoals(renewed)
  /\ phase' = "search"
  /\ UNCHANGED <<active, changes, goals, algorithm, results, rows, best, context, actions,
                 recorded, matrix, outage>>

Retry ==
  /\ phase = "retry"
  /\ actions' = actions + 1
  /\ \E renewed \in SUBSET GoalIds(goals) : wanted' = RetryGoals(renewed)
  /\ phase' = "search" /\ recorded' = None
  /\ UNCHANGED <<active, changes, goals, algorithm, results, rows, best, context,
                 matrix, outage>>

\* build_evidence_matrix, from the latest coverage event.
MatrixStatus(a) ==
  LET said == {a[g].status : g \in DOMAIN a}
  IN IF a = None THEN "unchecked"
     ELSE IF said = {"supported"} THEN "complete"
     ELSE IF "supported" \in said \/ "partial" \in said THEN "partial"
     ELSE "insufficient"

BuildMatrix ==
  /\ phase = "decide" /\ phase' = "done"
  /\ matrix' = [status |-> MatrixStatus(recorded),
                evidence |-> IF recorded = None THEN {}
                             ELSE UNION {recorded[g].evidence : g \in DOMAIN recorded}]
  /\ UNCHANGED <<active, changes, goals, search, context, actions, recorded, outage>>

Step ==
  \/ PlanQueries \/ BeginSearch \/ SearchQuery \/ SearchFails \/ FuseResults \/ Rerank \/ RerankFallsBack
  \/ AddNeighbours \/ Collect \/ SearchHierarchically \/ Assess \/ Retry \/ BuildMatrix

\* A request that has ended stays as it is.
Ended == phase \in {"done", "failed"} /\ UNCHANGED vars

Next == Step \/ ActivateSearchAlgorithm \/ Ended

Spec == Init /\ [][Next]_vars

-----------------------------------------------------------------------------
(* Properties.                                                             *)

Dominates(a, b, lists) ==
  \A i \in DOMAIN lists : b \in Range(lists[i]) =>
    a \in Range(lists[i]) /\ RankOf(a, lists[i]) < RankOf(b, lists[i])

\* A chunk that every query ranks better than another comes before it, also
\* when first hits are kept and the rest is cut (retriever.py:327, :345).
FusionRespectsRanks ==
  Answered =>
    LET fused == Candidates
    IN \A b \in Range(fused) : \A a \in UNION {Range(results[i]) : i \in DOMAIN results} :
         a # b /\ Dominates(a, b, results) =>
           a \in Range(fused) /\ RankOf(a, fused) < RankOf(b, fused)

\* Reranking keeps, for every goal, the candidate that fits it best, however
\* low it scores for the question (reranker.py:141).
GoalsKeepTheirBest == best \subseteq Range(rows)

\* No chunk is shown twice: the Source numbers of a prompt stand for
\* different chunks, through fusion, neighbours and retries
\* (retriever.py:262, evidence_coverage.py:474).
NoChunkTwice == IsInjective(rows) /\ IsInjective(context)

\* The plan leaves a place for every goal's first query and never searches
\* for more queries than there may be (query_rewriter.py:245).
PlanFitsSearch ==
  actions = 0 /\ phase = "search" =>
    /\ Len(SearchQueries(wanted)) <= MaxQueries
    /\ \A i \in DOMAIN wanted : GoalIndexes(wanted[i], SearchQueries(wanted)) # {}

\* Every goal is searched for, and keeps what fits it best.
GoalsAreServed == PlanFitsSearch /\ GoalsKeepTheirBest

\* The matrix refers to chunks that are in the context handed over with it,
\* whatever the retries and their limits have done to it
\* (evidence_coverage.py:213, :474).
MatrixIsBacked == matrix # None => matrix.evidence \subseteq Range(context)

\* The context handed over is one the answer can be checked against.
ContextIsSound == NoChunkTwice /\ MatrixIsBacked

\* How far a request in phase p is from the end of a round of searching and
\* assessing, with the goals gs and the lists found for their queries.
Remaining(p, gs, found) ==
  CASE p = "plan"    -> 8 + MaxQueries
    [] p = "search"  -> 7 + Len(SearchQueries(gs))
    [] p = "query"   -> 6 + Len(SearchQueries(gs)) - Len(found)
    [] p = "rerank"  -> 5
    [] p = "expand"  -> 4
    [] p = "collect" -> 3
    [] p = "assess"  -> 2
    [] p \in {"decide", "retry"} -> 1
    [] OTHER -> 0

\* The retrieval ends: a step of the request uses up one of two retries or
\* brings the round nearer to its end, and TLC finds no state without a next
\* one (evidence_coverage.py:186).
RequestAdvances ==
  [][changes' = changes =>
       \/ actions' > actions
       \/ /\ actions' = actions
          /\ Remaining(phase', wanted', results') < Remaining(phase, wanted, results)]_vars

\* tests/unit/test_evidence_coverage.py:275: an empty first context is
\* searched for hierarchically; a request fails only if a search does.
OnlyOutagesFail == phase = "failed" => outage

\* evidence_coverage.py:203: a retry that finds nothing does not take away
\* context that was found.
EmptyRetryKeepsContext ==
  [][actions > 0 /\ rows = <<>> => context' = context]_context

=============================================================================
