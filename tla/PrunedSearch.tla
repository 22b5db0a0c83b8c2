---------------------------- MODULE PrunedSearch ----------------------------
(***************************************************************************)
(* search_with_statistics for the pruning strategies: the request goes to  *)
(* search_wand or to search_max_score, each with or without the bounds of  *)
(* blocks.  (The exhaustive executor, which also takes the AND requests of *)
(* the MaxScore strategies, is ExhaustiveSearch.)                          *)
(***************************************************************************)
EXTENDS Retrieval

VARIABLES
  strategy,  \* SearchOptions::pruning
  query, state, rest, heap, stats, scored, turns, overran  \* those of the executor

\* The bounds an executor may add up for a term: of its list, of a block, of a posting.
BoundsOf(q, t) ==
  {TermBound(q, t)} \union {BlockMax(q, t, d) : d \in Listed(q, t)}
                   \union Impacts(q, t, Listed(q, t))

\* What bounds and scores depend on.
ListsOf(q) == [postings |-> q.postings]

\* conservative_next_up never rounds down.
ASSUME UpAssumption ==
  \A q \in Queries, t \in Terms : \A s \in {0} \union Impacts(q, t, Listed(q, t)) :
    Up(s) \in Int /\ Up(s) >= s

\* What is added up with outward roundings bounds the score of every document it covers.
\* This is true of quantized scores; run maxscore_rounding shows that it may not be of
\* a sum of many floating-point scores.
ASSUME SumAssumption ==
  \A q \in {ListsOf(r) : r \in Queries}, S \in SUBSET Terms :
    \A bound \in [S -> UNION {BoundsOf(q, t) : t \in S}] :
      (\A t \in S : bound[t] \in BoundsOf(q, t)) =>
        /\ OutwardSum(q, S, bound) \in Int
        /\ \A d \in Docs :
             /\ Matching(q, d) \subseteq S
             /\ \A t \in Matching(q, d) : q.postings[t][d] <= bound[t]
             => Score(q, d) <= OutwardSum(q, S, bound)

\* These executors check no sum for being finite.
ASSUME FiniteAssumption == \A q \in Queries, d \in Docs : Finite(Score(q, d))

vars == <<strategy, query, state, rest, heap, stats, scored, turns, overran>>

WandStrategies == {"Wand", "BlockMaxWand"}
MaxScoreStrategies == {"MaxScore", "BlockMaxMaxScore"}

\* load_block_max.
LoadBlockMax == strategy \in {"BlockMaxWand", "BlockMaxMaxScore"}

Wand == INSTANCE WandSearch WITH useBlockMax <- LoadBlockMax
MaxScore == INSTANCE MaxScoreSearch WITH useBlockMax <- LoadBlockMax

Init ==
  \/ strategy \in WandStrategies /\ Wand!Init
  \/ strategy \in MaxScoreStrategies /\ MaxScore!Init /\ overran = FALSE

Next ==
  /\ UNCHANGED strategy
  /\ \/ strategy \in WandStrategies /\ Wand!Next
     \/ strategy \in MaxScoreStrategies /\ MaxScore!Next /\ UNCHANGED overran

Spec == Init /\ [][Next]_vars
-----------------------------------------------------------------------------
\* Types, of the executor the request went to.
TypeOK ==
  \/ strategy \in WandStrategies /\ Wand!TypeOK
  \/ strategy \in MaxScoreStrategies /\ MaxScore!TypeOK

\* An accepted candidate that a cursor has passed without its being scored cannot enter
\* the heap any more: its exact score is strictly below every retained one.  This is the
\* safety argument of docs/architecture.md for the WAND pivot ("advancing them cannot
\* discard a competitive document"), the block skip, the low-impact prefix of MaxScore and
\* the rejection by its block bounds; it covers ties, which the lower document ID may win.
\* Excepted are searches in which a skip went past the end of a block it relied on.
Passed(d) == \E t \in Matching(query, d) : d \notin rest[t]

PrunedCannotWin ==
  ~overran => \A d \in (Candidates(query) \intersect query.accepts) \ scored :
    Passed(d) => BelowThreshold(Score(query, d), heap, query.top_k)

\* No document is scored twice and only candidates are; every posting is read at most
\* once, by an iteration that scores a document, or skips, rejects or steps over one.
WorkIsAccounted ==
  /\ stats.evaluated = Cardinality(scored)
  /\ scored \subseteq Candidates(query)
  /\ stats.advanced =
       SumFunction([t \in Terms |-> Cardinality(Listed(query, t)) - Cardinality(rest[t])])
  /\ stats.evaluated + stats.skipped <= stats.advanced
  /\ strategy \in MaxScoreStrategies => stats.evaluated + stats.rejected = turns

\* The loop always ends: every iteration that does not break reads a posting, even a block
\* skip, a catch-up or a rejection, so it can neither spin nor outlast the lists.
EveryTurnAdvances ==
  [][turns' = turns + 1 => stats'.advanced > stats.advanced]_vars

\* PruningStrategy says of block-max WAND: "The ranking is unchanged: a block maximum is a
\* true upper bound inside its block, so nothing that could enter the top-k is skipped."
\* It is not: see run block_max_wand.
RankingUnchanged == state = "done" => IsBest(heap, Results(query), query.top_k)

\* A search that overran a block counts as one that does not return.
AbstractState == IF overran THEN "searching" ELSE state
Returned == IF AbstractState = "done" THEN heap ELSE {}

\* Every pruning strategy returns what the abstract retrieval promises, so the same hits
\* as the exhaustive executor, with the exception above.
Abstract == INSTANCE RankedRetrieval WITH hits <- Returned, state <- AbstractState
ImplementsRetrieval == Abstract!Spec
=============================================================================
