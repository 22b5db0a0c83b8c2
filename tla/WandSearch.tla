----------------------------- MODULE WandSearch -----------------------------
(***************************************************************************)
(* InvertedIndex::search_wand, with and without block-max skipping.  One   *)
(* action is one iteration of its loop: cursors are sorted by document,    *)
(* bounds accumulate up to a pivot, and the iteration skips a run of       *)
(* documents, scores the pivot, steps over it, or brings the cursors up to *)
(* it.  The sorted vector of cursors is left out: a prefix of it is a set  *)
(* of terms, those whose cursor stands at or before a document.            *)
(***************************************************************************)
EXTENDS Retrieval

VARIABLES
  query,        \* the request
  useBlockMax,  \* PruningStrategy::BlockMaxWand
  state,        \* "searching" or "done"
  rest,         \* the cursors: the postings of each term not read yet
  heap,         \* the TopK
  stats,        \* SearchStats: evaluated_candidates, postings_advanced and _skipped
  scored,       \* history: the documents scored
  turns,        \* history: iterations of the loop
  overran       \* history: a skip went past the end of a block whose bound it used

vars == <<query, useBlockMax, state, rest, heap, stats, scored, turns, overran>>

NoWork == [evaluated |-> 0, advanced |-> 0, skipped |-> 0]

Init ==
  /\ query \in Queries
  /\ useBlockMax \in BOOLEAN
  /\ state = "searching"
  /\ rest = [t \in Terms |-> Listed(query, t)]
  /\ heap = {}
  /\ stats = NoWork
  /\ scored = {}
  /\ turns = 0
  /\ overran = FALSE

-----------------------------------------------------------------------------
\* The pivot.

\* The cursors that stand at or before d, and the ones that stand on d.
Reached(d) == {t \in Live(rest) : Current(rest, t) <= d}
On(d) == {t \in Live(rest) : Current(rest, t) = d}

\* What the cursors in S may still contribute reaches the threshold; with no
\* threshold yet, anything does.  The comparison is >=: a tie may win.
CanWin(S) == ~ BelowThreshold(SumOfBounds(query, S), heap, query.top_k)

\* The first cursor at which the accumulated bound reaches the threshold stands
\* on the pivot document; there may be none.
Pivots ==
  LET able == {d \in {Current(rest, t) : t \in Live(rest)} : CanWin(Reached(d))}
  IN  {d \in able : \A e \in able : d <= e}

-----------------------------------------------------------------------------
\* block_skip.

\* The cursors up to the first one past the pivot document.
BlockBoundTerms(d) == Reached(d)

\* No current block lifts a document to the threshold.
BlocksCannotWin(d) ==
  BelowThreshold(OutwardSum(query, BlockBoundTerms(d),
                            [t \in BlockBoundTerms(d) |-> BlockMax(query, t, Current(rest, t))]),
                 heap, query.top_k)

\* The end of the earliest block the bound is taken from.
BlockEnd(d) == Min({BlockLastDoc(query, t, Current(rest, t)) : t \in BlockBoundTerms(d)})

\* Mutant of SkipTarget: the cursors past the pivot do not end the skip.
SkipTargetIgnoringLater(d) == Max({BlockEnd(d) + 1, d + 1})

\* The bound holds up to the end of the earliest block, and up to the document of the
\* first cursor it left out; but the skip goes past the pivot in any case.
SkipTarget(d) ==
  LET later == {Current(rest, t) : t \in Live(rest) \ BlockBoundTerms(d)}
  IN  Max({Min({BlockEnd(d) + 1} \union later), d + 1})

-----------------------------------------------------------------------------
\* Moving cursors, with the counters of SearchStats.

MoveTo(S, target) ==
  [t \in Terms |-> IF t \in S THEN AdvanceTo(rest[t], target) ELSE rest[t]]

StepOff(S) == [t \in Terms |-> IF t \in S THEN AdvanceOne(rest[t]) ELSE rest[t]]

\* advance_to counts the postings passed, and all but one of them as skipped;
\* advance_one counts one posting and skips none.
Count(after, evaluated) ==
  [evaluated |-> stats.evaluated + evaluated,
   advanced |-> stats.advanced + SumFunction([t \in Terms |-> Advanced(rest[t], after[t])]),
   skipped |-> stats.skipped + SumFunction([t \in Terms |-> Skipped(rest[t], after[t])])]

-----------------------------------------------------------------------------
\* The iterations.

\* cursors.retain leaves enough cursors to go on.
EnoughCursors ==
  /\ Live(rest) /= {}
  /\ query.operator = "And" => Live(rest) = Scorers(query)

Stop ==
  /\ state = "searching"
  /\ EnoughCursors => Pivots = {}
  /\ state' = "done"
  /\ UNCHANGED <<query, useBlockMax, rest, heap, stats, scored, turns, overran>>

\* Every other iteration has a pivot document d.
AtPivot(d) == state = "searching" /\ EnoughCursors /\ d \in Pivots

SkipBlock(d) ==
  /\ AtPivot(d)
  /\ useBlockMax
  /\ BlocksCannotWin(d)
  /\ LET next  == SkipTarget(d)
         after == MoveTo({t \in Live(rest) : Current(rest, t) < next}, next)
     IN  rest' = after /\ stats' = Count(after, 0)
  /\ overran' = (overran \/ BlockEnd(d) < d)
  /\ UNCHANGED <<query, useBlockMax, state, heap, scored>>

PastBlocks(d) == AtPivot(d) /\ ~(useBlockMax /\ BlocksCannotWin(d))

\* The first cursor is on the pivot: every cursor on it matches.
Aligned(d) == \A t \in Live(rest) : Current(rest, t) >= d
Selected(d) == query.operator = "Or" \/ On(d) = Scorers(query)

\* Mutant of PivotEntry: the cursors after the first on the pivot are left out.
PivotEntryOfFirst(d) == [doc |-> d, score |-> SumOfScores(query, {Min(On(d))}, d)]

\* The score is the sum over the cursors that stand on the pivot.
PivotEntry(d) == [doc |-> d, score |-> SumOfScores(query, On(d), d)]

\* Mutant of ScorePivot: only the cursors of the pivot prefix are consumed, so
\* the next iteration meets the document again.
ScorePivotConsumingOne(d) ==
  /\ PastBlocks(d) /\ Aligned(d) /\ Selected(d)
  /\ IF d \in query.accepts
     THEN Consider(PivotEntry(d), heap, query.top_k, heap')
     ELSE UNCHANGED heap
  /\ LET after == StepOff({Min(On(d))})
     IN  rest' = after /\ stats' = Count(after, 1)
  /\ scored' = scored \union {d}
  /\ UNCHANGED <<query, useBlockMax, state, overran>>

\* The pivot is scored over its matching cursors, offered to the heap when the
\* filters accept it, and consumed.
ScorePivot(d) ==
  /\ PastBlocks(d) /\ Aligned(d) /\ Selected(d)
  /\ IF d \in query.accepts
     THEN Consider(PivotEntry(d), heap, query.top_k, heap')
     ELSE UNCHANGED heap
  /\ LET after == StepOff(On(d))
     IN  rest' = after /\ stats' = Count(after, 1)
  /\ scored' = scored \union {d}
  /\ UNCHANGED <<query, useBlockMax, state, overran>>

\* An AND request steps over a pivot some term does not hold.
StepOverPivot(d) ==
  /\ PastBlocks(d) /\ Aligned(d) /\ ~Selected(d)
  /\ LET after == StepOff(On(d))
     IN  rest' = after /\ stats' = Count(after, 0)
  /\ UNCHANGED <<query, useBlockMax, state, heap, scored, overran>>

\* Mutant of CatchUp: the cursors are brought one document too far.
CatchUpTooFar(d) ==
  /\ PastBlocks(d) /\ ~Aligned(d)
  /\ LET after == MoveTo(Reached(d) \ On(d), d + 1)
     IN  rest' = after /\ stats' = Count(after, 0)
  /\ UNCHANGED <<query, useBlockMax, state, heap, scored, overran>>

\* Mutant of CatchUp: the cursors from the pivot on are brought up to it instead.
CatchUpPivot(d) ==
  /\ PastBlocks(d) /\ ~Aligned(d)
  /\ LET after == MoveTo(On(d), d)
     IN  rest' = after /\ stats' = Count(after, 0)
  /\ UNCHANGED <<query, useBlockMax, state, heap, scored, overran>>

\* The cursors before the pivot are brought up to it.
CatchUp(d) ==
  /\ PastBlocks(d) /\ ~Aligned(d)
  /\ LET after == MoveTo(Reached(d) \ On(d), d)
     IN  rest' = after /\ stats' = Count(after, 0)
  /\ UNCHANGED <<query, useBlockMax, state, heap, scored, overran>>

Iterate(d) ==
  /\ turns' = turns + 1
  /\ SkipBlock(d) \/ ScorePivot(d) \/ StepOverPivot(d) \/ CatchUp(d)

Next == Stop \/ \E d \in Docs : Iterate(d)

Spec == Init /\ [][Next]_vars
-----------------------------------------------------------------------------
\* Types: a cursor is a suffix of its list, the heap holds scored entries.
TypeOK ==
  /\ IsQuery(query)
  /\ useBlockMax \in BOOLEAN
  /\ state \in {"searching", "done"}
  /\ \A t \in Terms : \E target \in 0 .. Max(Docs) + 1 : rest[t] = AdvanceTo(Listed(query, t), target)
  /\ heap \subseteq {Entry(query, d) : d \in scored}
  /\ stats \in [{"evaluated", "advanced", "skipped"} -> Nat]
  /\ scored \subseteq Docs
  /\ turns \in Nat
  /\ overran \in BOOLEAN
=============================================================================
