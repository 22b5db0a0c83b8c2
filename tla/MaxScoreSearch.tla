--------------------------- MODULE MaxScoreSearch ---------------------------
(***************************************************************************)
(* InvertedIndex::search_max_score for OR requests, with and without       *)
(* rejection by block bounds (AND requests go to ExhaustiveSearch).  The   *)
(* scorers are sorted once by ascending bound; the longest prefix whose    *)
(* bounds sum up strictly below the threshold is non-essential, and only   *)
(* the other, essential, cursors propose candidates.  One action is one    *)
(* iteration of the loop.                                                  *)
(***************************************************************************)
EXTENDS Retrieval

VARIABLES
  query,        \* the request
  useBlockMax,  \* PruningStrategy::BlockMaxMaxScore
  state,        \* "searching" or "done"
  rest,         \* the cursors: the postings of each term not read yet
  heap,         \* the TopK
  stats,        \* SearchStats: evaluated_candidates, block_bound_rejections,
                \* postings_advanced and postings_skipped
  scored,       \* history: the documents scored
  turns         \* history: iterations of the loop

vars == <<query, useBlockMax, state, rest, heap, stats, scored, turns>>

NoWork == [evaluated |-> 0, rejected |-> 0, advanced |-> 0, skipped |-> 0]

Init ==
  /\ query \in Queries
  /\ query.operator = "Or"
  /\ useBlockMax \in BOOLEAN
  /\ state = "searching"
  /\ rest = [t \in Terms |-> Listed(query, t)]
  /\ heap = {}
  /\ stats = NoWork
  /\ scored = {}
  /\ turns = 0

-----------------------------------------------------------------------------
\* The essential suffix.

\* Mutant of TooWeak: a prefix whose bound equals the lowest retained score up
\* to the outward roundings is dropped as well.
TooWeakOnTies(S) ==
  BelowThreshold(SumOfBounds(query, S) - 2 * NumTerms, heap, query.top_k)

\* The scorers in S together stay strictly below the threshold.
TooWeak(S) == BelowThreshold(SumOfBounds(query, S), heap, query.top_k)

\* The cut: the loop over the ascending scorers goes on while the sum up to and
\* including the next one stays below the threshold.
UpTo(t) == {s \in Live(rest) : s = t \/ Lighter(query, s, t)}
NonEssential == {t \in Live(rest) : TooWeak(UpTo(t))}

\* The candidate: the first document an essential cursor stands on.
Candidate(weak) == Min({Current(rest, t) : t \in Live(rest) \ weak})

-----------------------------------------------------------------------------
\* Moving cursors.

\* The non-essential cursors are brought up to the candidate.
CaughtUp(weak, d) ==
  [t \in Terms |-> IF t \in weak THEN AdvanceTo(rest[t], d) ELSE rest[t]]

On(cursors, d) == {t \in Live(cursors) : Current(cursors, t) = d}

\* Mutant of StepOff: only the first cursor on the candidate is consumed.
StepOffFirst(cursors, d) ==
  [t \in Terms |-> IF On(cursors, d) /= {} /\ t = Min(On(cursors, d))
                  THEN AdvanceOne(cursors[t]) ELSE cursors[t]]

StepOff(cursors, d) ==
  [t \in Terms |-> IF t \in On(cursors, d) THEN AdvanceOne(cursors[t]) ELSE cursors[t]]

\* The counters after the cursors went from rest to `caught` by advance_to and
\* to `after` by advance_one.
Count(caught, after, evaluated, rejected) ==
  [evaluated |-> stats.evaluated + evaluated,
   rejected |-> stats.rejected + rejected,
   advanced |-> stats.advanced + SumFunction([t \in Terms |-> Advanced(rest[t], after[t])]),
   skipped |-> stats.skipped + SumFunction([t \in Terms |-> Skipped(rest[t], caught[t])])]

-----------------------------------------------------------------------------
\* reject_with_block_bound.

\* Mutant of PossibleScore: the essential cursors on the candidate are left out.
PossibleScoreOfPrefix(weak, cursors, d) ==
  LET seen == On(cursors, d) \intersect weak
  IN  OutwardSum(query, seen, [t \in seen |-> BlockMax(query, t, d)])

\* The rounded-up score the candidate can have: block bounds of non-essential
\* cursors on it, current scores of essential ones.
PossibleScore(weak, cursors, d) ==
  OutwardSum(query, On(cursors, d),
             [t \in On(cursors, d) |->
                IF t \in weak THEN BlockMax(query, t, d) ELSE query.postings[t][d]])

BlockRejects(weak, cursors, d) ==
  /\ useBlockMax
  /\ weak /= {}
  /\ BelowThreshold(PossibleScore(weak, cursors, d), heap, query.top_k)

-----------------------------------------------------------------------------
\* The iterations.

\* No cursor is left, or every remaining scorer is non-essential.
Stop ==
  /\ state = "searching"
  /\ NonEssential = Live(rest)
  /\ state' = "done"
  /\ UNCHANGED <<query, useBlockMax, rest, heap, stats, scored, turns>>

\* A candidate its block bound rules out is stepped over.
Reject(weak, d) ==
  LET caught == CaughtUp(weak, d)
      after  == StepOff(caught, d)
  IN  /\ BlockRejects(weak, caught, d)
      /\ rest' = after
      /\ stats' = Count(caught, after, 0, 1)
      /\ UNCHANGED <<heap, scored>>

\* Any other is scored over every term whose cursor is not retired, and offered
\* to the heap.  (The mutant of its entry leaves the non-essential terms out.)
CandidateEntryOfEssential(d) ==
  [doc |-> d, score |-> SumOfScores(query, Live(rest) \ NonEssential, d)]

CandidateEntry(d) == [doc |-> d, score |-> SumOfScores(query, Live(rest), d)]

ScoreCandidate(weak, d) ==
  LET caught == CaughtUp(weak, d)
      after  == StepOff(caught, d)
  IN  /\ ~BlockRejects(weak, caught, d)
      /\ IF d \in query.accepts
         THEN Consider(CandidateEntry(d), heap, query.top_k, heap')
         ELSE UNCHANGED heap
      /\ scored' = scored \union {d}
      /\ rest' = after
      /\ stats' = Count(caught, after, 1, 0)

Iterate ==
  /\ state = "searching"
  /\ LET weak == NonEssential
     IN  /\ weak /= Live(rest)
         /\ LET d == Candidate(weak)
            IN  Reject(weak, d) \/ ScoreCandidate(weak, d)
  /\ turns' = turns + 1
  /\ UNCHANGED <<query, useBlockMax, state>>

Next == Stop \/ Iterate

Spec == Init /\ [][Next]_vars
-----------------------------------------------------------------------------
\* Types: cursors are suffixes of their lists, heap entries were scored.
TypeOK ==
  /\ IsQuery(query)
  /\ useBlockMax \in BOOLEAN
  /\ state \in {"searching", "done"}
  /\ \A t \in Terms : \E target \in 0 .. Max(Docs) + 1 :
                        rest[t] = AdvanceTo(Listed(query, t), target)
  /\ heap \subseteq {Entry(query, d) : d \in scored}
  /\ stats \in [{"evaluated", "rejected", "advanced", "skipped"} -> Nat]
  /\ scored \subseteq Docs
  /\ turns \in Nat

Returned == IF state = "done" THEN heap ELSE {}

\* MaxScore and BlockMax MaxScore return what the abstract retrieval promises.
Abstract == INSTANCE RankedRetrieval WITH hits <- Returned
ImplementsRetrieval == Abstract!Spec
=============================================================================
