-------------------------- MODULE ExhaustiveSearch --------------------------
(***************************************************************************)
(* InvertedIndex::search_exhaustive: the oracle of the other executors,    *)
(* and the executor of every AND query under a MaxScore strategy.  It      *)
(* collects the candidate documents, then scores them in ascending order,  *)
(* one loop iteration per action.                                          *)
(***************************************************************************)
EXTENDS Retrieval

VARIABLES
  query,     \* the request
  state,     \* "searching", "done" or "error"
  pending,   \* candidates the loop has not reached yet
  heap,      \* the TopK
  evaluated  \* SearchStats::evaluated_candidates

vars == <<query, state, pending, heap, evaluated>>

\* The executor is called with a request.
Start ==
  /\ state = "searching"
  /\ pending = Candidates(query)
  /\ heap = {}
  /\ evaluated = 0

Init == query \in Queries /\ Start

IsNext(d) == d \in pending /\ \A e \in pending : d <= e

\* Mutant of Visit: documents the filters reject enter the heap.
VisitUnfiltered(d) ==
  /\ state = "searching"
  /\ IsNext(d)
  /\ Finite(Score(query, d))
  /\ Consider(Entry(query, d), heap, query.top_k, heap')
  /\ pending' = pending \ {d}
  /\ evaluated' = evaluated + 1
  /\ UNCHANGED <<query, state>>

\* One iteration that does not fail: d is scored, and offered to the heap when
\* the filters accept it.
Visit(d) ==
  /\ state = "searching"
  /\ IsNext(d)
  /\ IF d \in query.accepts
     THEN /\ Finite(Score(query, d))
          /\ Consider(Entry(query, d), heap, query.top_k, heap')
     ELSE UNCHANGED heap
  /\ pending' = pending \ {d}
  /\ evaluated' = evaluated + 1
  /\ UNCHANGED <<query, state>>

\* The iteration that meets an accepted candidate whose sum is not finite.
Overflow(d) ==
  /\ state = "searching"
  /\ IsNext(d)
  /\ d \in query.accepts
  /\ ~Finite(Score(query, d))
  /\ state' = "error"
  /\ evaluated' = evaluated + 1
  /\ UNCHANGED <<query, pending, heap>>

\* The loop is over: the heap is the answer.
Finish ==
  /\ state = "searching"
  /\ pending = {}
  /\ state' = "done"
  /\ UNCHANGED <<query, pending, heap, evaluated>>

Next == (\E d \in Docs : Visit(d) \/ Overflow(d)) \/ Finish

Spec == Init /\ [][Next]_vars
-----------------------------------------------------------------------------
Visited == Candidates(query) \ pending
Offered == {Entry(query, d) : d \in Visited \intersect query.accepts}

\* Types: the heap never holds more than top_k entries, each a scored document.
TypeOK ==
  /\ IsQuery(query)
  /\ state \in {"searching", "done", "error"}
  /\ pending \in SUBSET Docs
  /\ heap \subseteq {Entry(query, d) : d \in Docs}
  /\ Cardinality(heap) <= query.top_k
  /\ evaluated \in Nat

\* While the loop runs, the heap is exactly the top_k best of the accepted
\* candidates scored so far (TopK::consider under the tie-break of
\* docs/architecture.md, "Stable top-k"): no prefix of the documents can leave
\* a heap that a later document repairs by chance.
HeapIsBestSoFar ==
  state = "searching" => IsBest(heap, Offered, query.top_k)

\* The result of the search, as its caller sees it.
Returned == IF state = "done" THEN heap ELSE {}

\* The executor implements the abstract retrieval: what it returns is the top_k
\* best of the accepted candidates, and it fails only on a non-finite sum.
Abstract == INSTANCE RankedRetrieval WITH hits <- Returned
ImplementsRetrieval == Abstract!Spec
=============================================================================
