-------------------------------- MODULE TopK --------------------------------
(***************************************************************************)
(* The bounded heap of retained hits that every executor fills             *)
(* (HeapEntry and TopK of search.rs).  A heap is a set of entries          *)
(* [doc |-> d, score |-> s]; the array layout of the BinaryHeap is left    *)
(* out, only which entry is on top matters.  Scores are integers: the      *)
(* order of f64::total_cmp on finite scores.                               *)
(***************************************************************************)
EXTENDS Integers, FiniteSets

\* Ord for HeapEntry: e is worse than f when its score is lower, or the scores
\* are equal and its document comes later.
Worse(e, f) ==
  \/ e.score < f.score
  \/ e.score = f.score /\ e.doc > f.doc

IsFull(heap, k) == Cardinality(heap) = k

\* What BinaryHeap::peek returns: the worst retained entry.
IsWorst(e, heap) == e \in heap /\ \A f \in heap \ {e} : Worse(e, f)

\* TopK::threshold compared with a bound: there is a threshold only once the
\* heap is full, and it is the lowest retained score.
BelowThreshold(bound, heap, k) ==
  IsFull(heap, k) /\ \A e \in heap : bound < e.score

\* Mutants of Consider: an equal score replaces the worst hit, whatever its
\* document; and a better hit is pushed without a pop.
ConsiderKeepsEqualScore(candidate, heap, k, after) ==
  IF ~IsFull(heap, k)
  THEN after = heap \union {candidate}
  ELSE \E worst \in heap :
         /\ IsWorst(worst, heap)
         /\ after = IF candidate.score >= worst.score
                    THEN (heap \ {worst}) \union {candidate}
                    ELSE heap

ConsiderWithoutPop(candidate, heap, k, after) ==
  IF ~IsFull(heap, k)
  THEN after = heap \union {candidate}
  ELSE \E worst \in heap :
         /\ IsWorst(worst, heap)
         /\ after = IF Worse(worst, candidate) THEN heap \union {candidate} ELSE heap

\* TopK::consider: `after` is the heap once `candidate` was offered to `heap`.
Consider(candidate, heap, k, after) ==
  IF ~IsFull(heap, k)
  THEN after = heap \union {candidate}
  ELSE \E worst \in heap :
         /\ IsWorst(worst, heap)
         /\ after = IF Worse(worst, candidate)
                    THEN (heap \ {worst}) \union {candidate}
                    ELSE heap

\* The reference: `best` holds the k best of `offered`, or all of them when
\* there are fewer.
IsBest(best, offered, k) ==
  /\ best \subseteq offered
  /\ Cardinality(best) <= k
  /\ best = offered \/ IsFull(best, k)
  /\ \A e \in best, f \in offered \ best : Worse(f, e)
=============================================================================
