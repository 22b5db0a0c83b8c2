------------------------------ MODULE Retrieval ------------------------------
(***************************************************************************)
(* What every executor of search.rs is given: scored posting lists, a      *)
(* Boolean operator, the documents its filters accept, and top_k.  One     *)
(* term of the model is one TermScorer, numbered by its ordinal; a posting *)
(* list is a function from the documents it holds to the materialized      *)
(* score of each.  The addition of scores and the outward rounding are     *)
(* parameters, so the same executors run on exact integers (quantized      *)
(* BM25) and on a small floating-point format.                             *)
(***************************************************************************)
EXTENDS TopK, FiniteSetsExt

CONSTANTS
  Docs,          \* internal document IDs, a finite set of naturals
  NumTerms,      \* number of term scorers of a query
  Queries,       \* the requests considered, records of the shape below
  Plus(_, _),    \* addition of two scores, as the hardware rounds it
  Up(_),         \* conservative_next_up: the next representable score
  Finite(_),     \* f64::is_finite on a sum of scores
  BlockPostings  \* BLOCK_POSTINGS, the postings one block bound covers

Terms == 1 .. NumTerms

Operators == {"And", "Or"}

\* The documents in the list of term t, and the terms whose list holds d.
Listed(q, t) == DOMAIN q.postings[t]
Matching(q, d) == {t \in Terms : d \in Listed(q, t)}

\* Impacts may be negative only where nothing is pruned: SearchOptions::validate
\* keeps the models with signed scores to the exhaustive executor.
IsQuery(q) ==
  /\ q.operator \in Operators
  /\ q.top_k \in Nat \ {0}
  /\ q.accepts \subseteq Docs
  /\ DOMAIN q.postings = Terms
  /\ \A t \in Terms : Listed(q, t) \subseteq Docs
                      /\ \A d \in Listed(q, t) : q.postings[t][d] \in Int

\* The scores of d in the lists of the terms S, which hold it, added in ordinal order.
Added(q, S, d) ==
  LET upTo[n \in 0 .. NumTerms] ==
        IF n = 0 THEN 0
        ELSE IF n \in S THEN Plus(upTo[n - 1], q.postings[n][d])
        ELSE upTo[n - 1]
  IN  upTo[NumTerms]

\* The same of any terms: the ones that do not hold d add nothing.
SumOfScores(q, S, d) == Added(q, S \intersect Matching(q, d), d)

\* The exact score of d, over every term that matches it.
Score(q, d) == SumOfScores(q, Terms, d)

Entry(q, d) == [doc |-> d, score |-> Score(q, d)]

\* There are terms to count, and a block holds a posting at least.
ASSUME SizesAssumption == NumTerms \in Nat /\ BlockPostings \in Nat \ {0}

\* Documents are numbers, a request is well formed, and sums of scores are numbers.
ASSUME DocsAssumption == Docs \subseteq Nat /\ IsFiniteSet(Docs)
ASSUME QueriesAssumption ==
  \A q \in Queries : IsQuery(q) /\ \A d \in Docs : Score(q, d) \in Int

\* Scorers without postings are dropped before an executor runs.
Scorers(q) == {t \in Terms : Listed(q, t) /= {}}

\* The documents the Boolean operator selects.
Candidates(q) ==
  {d \in Docs : /\ Matching(q, d) /= {}
                /\ q.operator = "Or" \/ Matching(q, d) = Scorers(q)}

\* The hits a request is ranked from: candidates that pass every filter.
Results(q) == {Entry(q, d) : d \in Candidates(q) \intersect q.accepts}

-----------------------------------------------------------------------------
\* Upper bounds.

Impacts(q, t, D) == {q.postings[t][d] : d \in D}

\* conservative_next_up(entries.fold(0.0, max)) over the documents D of a list.
OutwardMax(q, t, D) == Up(Max({0} \union Impacts(q, t, D)))

\* TermScorer::upper_bound.
TermBound(q, t) == OutwardMax(q, t, Listed(q, t))

\* MaxScore's ascending order of the scorers: by bound, then by ordinal.
Lighter(q, s, t) ==
  \/ TermBound(q, s) < TermBound(q, t)
  \/ TermBound(q, s) = TermBound(q, t) /\ s < t

\* A bound on each of the scorers in S, accumulated in that order, with an outward
\* rounding after every addition.  (WAND adds in the order of the cursors'
\* documents: the same number on exact integers.)
OutwardSum(q, S, bound) ==
  LET sum[T \in SUBSET S] ==
        IF T = {} THEN 0
        ELSE LET last == CHOOSE t \in T : \A s \in T \ {t} : Lighter(q, s, t)
             IN  Up(Plus(sum[T \ {last}], bound[last]))
  IN  sum[S]

SumOfBounds(q, S) == OutwardSum(q, S, [t \in S |-> TermBound(q, t)])

-----------------------------------------------------------------------------
\* Cursors.  A cursor is the set of documents of its list it has not read yet,
\* a suffix of the list; rest[t] is the cursor of term t.

Live(rest) == {t \in Terms : rest[t] /= {}}
Current(rest, t) == Min(rest[t])

\* Cursor::advance_to and Cursor::advance_one.
AdvanceTo(unread, target) == {d \in unread : d >= target}
AdvanceOne(unread) == unread \ {Min(unread)}

\* The block of BlockPostings consecutive postings of list t that holds d.
Rank(q, t, d) == Cardinality({e \in Listed(q, t) : e < d})
BlockOf(q, t, d) ==
  {e \in Listed(q, t) : Rank(q, t, e) \div BlockPostings = Rank(q, t, d) \div BlockPostings}

\* Cursor::block_max and Cursor::block_last_doc of a cursor that stands on d.
BlockMax(q, t, d) == OutwardMax(q, t, BlockOf(q, t, d))
BlockLastDoc(q, t, d) == Max(BlockOf(q, t, d))

\* Postings a cursor move passes over, and how many of them were skipped
\* (every one of a move but one).
Advanced(before, after) == Cardinality(before) - Cardinality(after)
Skipped(before, after) == IF Advanced(before, after) = 0 THEN 0 ELSE Advanced(before, after) - 1
=============================================================================
