--------------------------- MODULE RankedRetrieval ---------------------------
(***************************************************************************)
(* What IndexSail promises of a search, whatever the pruning strategy: the *)
(* answer to a request is the top_k best of its accepted candidates, under *)
(* their exact scores and the lower document ID on equal scores; or an     *)
(* error, only when a candidate's combined score is not finite.  The       *)
(* executors of search.rs are shown to implement this specification.       *)
(***************************************************************************)
EXTENDS Retrieval

VARIABLES
  query,   \* the request, fixed from the start
  state,   \* "searching", "done" or "error"
  hits     \* the entries returned

answer == <<query, state, hits>>

Init ==
  /\ IsQuery(query)
  /\ state = "searching"
  /\ hits = {}

Return ==
  /\ state = "searching"
  /\ \A e \in Results(query) : Finite(e.score)
  /\ IsBest(hits', Results(query), query.top_k)
  /\ state' = "done"
  /\ UNCHANGED query

Reject ==
  /\ state = "searching"
  /\ \E e \in Results(query) : ~Finite(e.score)
  /\ state' = "error"
  /\ UNCHANGED <<query, hits>>

Spec == Init /\ [][Return \/ Reject]_answer
=============================================================================
