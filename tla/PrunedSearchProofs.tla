-------------------------- MODULE PrunedSearchProofs --------------------------
(***************************************************************************)
(* Proofs that the pruning strategies lose nothing, for every collection,  *)
(* every request and every strategy.                                       *)
(***************************************************************************)
EXTENDS PrunedSearch, SetProofs

-----------------------------------------------------------------------------
\* Requests and their bounds.

\* Scores and bounds depend on the lists of a request only.
LEMMA OnlyLists ==
  ASSUME NEW q
  PROVE  /\ \A t : Listed(ListsOf(q), t) = Listed(q, t)
         /\ \A d : Matching(ListsOf(q), d) = Matching(q, d)
         /\ \A d : Score(ListsOf(q), d) = Score(q, d)
         /\ \A t : BoundsOf(ListsOf(q), t) = BoundsOf(q, t)
         /\ \A S, bound : OutwardSum(ListsOf(q), S, bound) = OutwardSum(q, S, bound)
<1> DEFINE p == ListsOf(q)
<1>1. p.postings = q.postings
  BY DEF ListsOf
<1>2. \A t : Listed(p, t) = Listed(q, t)
  BY <1>1 DEF Listed
<1>3. \A d : Matching(p, d) = Matching(q, d)
  BY <1>2 DEF Matching
<1>4. \A S, d : Added(p, S, d) = Added(q, S, d)
  <2> DEFINE Sum(lists, S, d) ==
        LET upTo[n \in 0 .. NumTerms] ==
              IF n = 0 THEN 0
              ELSE IF n \in S THEN Plus(upTo[n - 1], lists[n][d])
              ELSE upTo[n - 1]
        IN  upTo[NumTerms]
  <2>1. \A r, S, d : Added(r, S, d) = Sum(r.postings, S, d)
    BY DEF Added
  <2> HIDE DEF Sum
  <2> QED BY <1>1, <2>1
<1>5. \A d : Score(p, d) = Score(q, d)
  BY <1>3, <1>4 DEF Score, SumOfScores
<1>6. \A t, D : OutwardMax(p, t, D) = OutwardMax(q, t, D)
  BY <1>1 DEF OutwardMax, Impacts
<1>7. \A t : TermBound(p, t) = TermBound(q, t)
  BY <1>2, <1>6 DEF TermBound
<1>8. \A t, d : BlockMax(p, t, d) = BlockMax(q, t, d)
  BY <1>2, <1>6 DEF BlockMax, BlockOf, Rank
<1>9. \A t : BoundsOf(p, t) = BoundsOf(q, t)
  BY <1>1, <1>2, <1>7, <1>8 DEF BoundsOf, Impacts
<1>10. \A S, bound : OutwardSum(p, S, bound) = OutwardSum(q, S, bound)
  <2> DEFINE
        Largest(lists, t) ==
          Up(Max({0} \union {lists[t][d] : d \in DOMAIN lists[t]}))
        Precedes(lists, r, t) ==
          \/ Largest(lists, r) < Largest(lists, t)
          \/ Largest(lists, r) = Largest(lists, t) /\ r < t
        Sum(lists, S, bound) ==
          LET sum[T \in SUBSET S] ==
                IF T = {} THEN 0
                ELSE LET last == CHOOSE t \in T : \A r \in T \ {t} : Precedes(lists, r, t)
                     IN  Up(Plus(sum[T \ {last}], bound[last]))
          IN  sum[S]
  <2>1. \A r, S, bound : OutwardSum(r, S, bound) = Sum(r.postings, S, bound)
    BY DEF OutwardSum, Lighter, TermBound, OutwardMax, Impacts, Listed
  <2> HIDE DEF Sum
  <2> QED BY <1>1, <2>1
<1> QED BY <1>2, <1>3, <1>5, <1>9, <1>10

\* A request of the model is well formed, and its entries are the heap's.
LEMMA QueryTypes ==
  ASSUME NEW q \in Queries
  PROVE  /\ IsQuery(q)
         /\ q.top_k \in Nat \ {0}
         /\ \A t \in Terms : /\ Listed(q, t) \subseteq Docs
                             /\ IsFiniteSet(Listed(q, t))
                             /\ \A d \in Listed(q, t) : q.postings[t][d] \in Int
         /\ Candidates(q) \subseteq Docs
         /\ \A d \in Docs : Score(q, d) \in Int
                           /\ Entry(q, d) \in HeapEntries /\ Entry(q, d).doc = d
<1>1. IsQuery(q) /\ \A d \in Docs : Score(q, d) \in Int
  BY QueriesAssumption
<1>2. Docs \subseteq Int /\ Docs \subseteq Nat /\ IsFiniteSet(Docs)
  BY DocsAssumption
<1>3. \A d \in Docs : Entry(q, d) \in HeapEntries /\ Entry(q, d).doc = d
  BY <1>1, <1>2 DEF Entry, HeapEntries
<1>4. \A t \in Terms : /\ Listed(q, t) \subseteq Docs
                      /\ \A d \in Listed(q, t) : q.postings[t][d] \in Int
  BY <1>1 DEF IsQuery
<1>5. \A t \in Terms : IsFiniteSet(Listed(q, t))
  BY <1>2, <1>4, FS_Subset
<1> QED BY <1>1, <1>3, <1>4, <1>5 DEF IsQuery, Candidates

LEMMA ListedAreNumbers ==
  ASSUME NEW q \in Queries, NEW t \in Terms
  PROVE  Listed(q, t) \subseteq Nat
<1>1. Listed(q, t) \subseteq Docs /\ Docs \subseteq Nat
  BY QueryTypes, DocsAssumption
<1> QED BY ONLY <1>1

\* Bounds added up bound the score of every document they cover.
LEMMA SumsBound ==
  ASSUME NEW q \in Queries, NEW S \in SUBSET Terms, NEW bound,
         bound = [t \in S |-> bound[t]],
         \A t \in S : bound[t] \in BoundsOf(q, t)
  PROVE  /\ OutwardSum(q, S, bound) \in Int
         /\ \A d \in Docs :
              /\ Matching(q, d) \subseteq S
              /\ \A t \in Matching(q, d) : q.postings[t][d] <= bound[t]
              => Score(q, d) <= OutwardSum(q, S, bound)
<1> DEFINE p == ListsOf(q)
<1>1. p \in {ListsOf(r) : r \in Queries} /\ p.postings = q.postings
  BY DEF ListsOf
<1>2. \A t \in S : bound[t] \in BoundsOf(p, t)
  BY OnlyLists
<1>3. bound \in [S -> UNION {BoundsOf(p, t) : t \in S}]
  BY <1>2
<1> HIDE DEF p
<1>4. /\ OutwardSum(p, S, bound) \in Int
      /\ \A d \in Docs :
           /\ Matching(p, d) \subseteq S
           /\ \A t \in Matching(p, d) : p.postings[t][d] <= bound[t]
           => Score(p, d) <= OutwardSum(p, S, bound)
  BY <1>1, <1>2, <1>3, SumAssumption
<1> QED BY <1>1, <1>4, OnlyLists DEF p

\* The maximum of a set of postings, rounded outward, bounds each of them.
LEMMA MaximumBounds ==
  ASSUME NEW q \in Queries, NEW t \in Terms, NEW D \in SUBSET Listed(q, t)
  PROVE  /\ OutwardMax(q, t, D) \in Int
         /\ \A d \in D : q.postings[t][d] <= OutwardMax(q, t, D)
<1> DEFINE N == {0} \union Impacts(q, t, D)
<1>1. IsFiniteSet(D) /\ \A d \in D : q.postings[t][d] \in Int
  BY QueryTypes, FS_Subset
<1>2. IsFiniteSet(Impacts(q, t, D))
  <2>1. [d \in D |-> q.postings[t][d]] \in Surjection(D, Impacts(q, t, D))
    BY DEF Surjection, Impacts
  <2> QED BY <1>1, <2>1, FS_Surjection
<1>3. N \in SUBSET Int /\ IsFiniteSet(N) /\ N /= {}
  <2>1. N = Impacts(q, t, D) \union {0}
    OBVIOUS
  <2>2. IsFiniteSet(Impacts(q, t, D) \union {0})
    BY <1>2, FS_AddElement
  <2>3. Impacts(q, t, D) \subseteq Int
    BY <1>1 DEF Impacts
  <2> QED BY <2>1, <2>2, <2>3
<1>4. Max(N) \in N /\ \A x \in N : x <= Max(N)
  BY <1>3, MaxOfFinite
<1>5. N \subseteq {0} \union Impacts(q, t, Listed(q, t))
  BY DEF Impacts
<1>6. Up(Max(N)) \in Int /\ Up(Max(N)) >= Max(N)
  BY <1>4, <1>5, UpAssumption
<1>7. \A d \in D : q.postings[t][d] \in N
  BY DEF Impacts
<1>8. OutwardMax(q, t, D) = Up(Max(N))
  BY DEF OutwardMax
<1>9. ASSUME NEW d \in D PROVE q.postings[t][d] <= OutwardMax(q, t, D)
  <2>1. q.postings[t][d] \in Int /\ Max(N) \in Int /\ OutwardMax(q, t, D) \in Int
    BY <1>1, <1>3, <1>4, <1>6, <1>8
  <2>2. q.postings[t][d] <= Max(N) /\ Max(N) <= OutwardMax(q, t, D)
    BY <1>4, <1>6, <1>7, <1>8
  <2> QED BY <2>1, <2>2
<1> QED BY <1>6, <1>8, <1>9

LEMMA QuotientsBetween ==
  ASSUME NEW a \in Nat, NEW b \in Nat, NEW c \in Nat, NEW n \in Nat \ {0},
         a <= b, b <= c, a \div n = c \div n
  PROVE  b \div n = a \div n
  BY Z3

\* From a posting up to the last of its block, every posting is of the block, and the
\* maximum of the block bounds it.
LEMMA BlocksBound ==
  ASSUME NEW q \in Queries, NEW t \in Terms, NEW c \in Listed(q, t)
  PROVE  /\ BlockMax(q, t, c) \in BoundsOf(q, t)
         /\ BlockLastDoc(q, t, c) \in Listed(q, t)
         /\ q.postings[t][c] <= BlockMax(q, t, c)
         /\ \A d \in Listed(q, t) : c <= d /\ d <= BlockLastDoc(q, t, c)
                                   => q.postings[t][d] <= BlockMax(q, t, c)
<1> DEFINE L == Listed(q, t)
           B == BlockOf(q, t, c)
<1>1. L \subseteq Nat /\ IsFiniteSet(L) /\ L \subseteq Docs
  BY QueryTypes, DocsAssumption
<1>2. c \in B /\ B \subseteq L
  BY DEF BlockOf
<1>3. Max(B) \in B /\ Max(B) \in Nat
  <2>1. IsFiniteSet(B) /\ B \in SUBSET Int /\ B /= {}
    BY <1>1, <1>2, FS_Subset
  <2> HIDE DEF B
  <2>2. Max(B) \in B
    BY <2>1, MaxOfFinite
  <2> QED BY <1>1, <1>2, <2>2
<1>4. ASSUME NEW d \in L, NEW e \in L, d <= e
      PROVE  Rank(q, t, d) \in Nat /\ Rank(q, t, d) <= Rank(q, t, e)
  <2> DEFINE Below(x) == {y \in L : y < x}
  <2>1. IsFiniteSet(Below(d)) /\ IsFiniteSet(Below(e))
    BY <1>1, FS_Subset
  <2>2. Below(d) \subseteq Below(e)
    BY <1>1, <1>4
  <2>3. Cardinality(Below(d)) \in Nat /\ Cardinality(Below(d)) <= Cardinality(Below(e))
    BY <2>1, <2>2, FS_Subset, FS_CardinalityType
  <2> QED BY <2>3 DEF Rank
<1>5. ASSUME NEW d \in L, c <= d, d <= Max(B) PROVE d \in B
  <2>1. Rank(q, t, Max(B)) \div BlockPostings = Rank(q, t, c) \div BlockPostings
    BY <1>3 DEF BlockOf
  <2>2. /\ Rank(q, t, c) \in Nat /\ Rank(q, t, d) \in Nat /\ Rank(q, t, Max(B)) \in Nat
        /\ Rank(q, t, c) <= Rank(q, t, d) /\ Rank(q, t, d) <= Rank(q, t, Max(B))
    BY <1>1, <1>2, <1>3, <1>4, <1>5
  <2>3. Rank(q, t, d) \div BlockPostings = Rank(q, t, c) \div BlockPostings
    BY <2>1, <2>2, QuotientsBetween, SizesAssumption
  <2> QED BY <2>3 DEF BlockOf
<1>6. \A d \in B : q.postings[t][d] <= BlockMax(q, t, c)
  BY <1>2, MaximumBounds DEF BlockMax
<1> QED BY <1>2, <1>3, <1>5, <1>6 DEF BoundsOf, BlockLastDoc

\* The bound of a list bounds each of its postings.
LEMMA ListsBound ==
  ASSUME NEW q \in Queries, NEW t \in Terms
  PROVE  /\ TermBound(q, t) \in Int /\ TermBound(q, t) \in BoundsOf(q, t)
         /\ \A d \in Listed(q, t) : q.postings[t][d] <= TermBound(q, t)
  BY MaximumBounds DEF TermBound, BoundsOf

\* The bounds of the lists of a document's terms, and of any others, bound its score.
LEMMA SumOfBoundsBounds ==
  ASSUME NEW q \in Queries, NEW S \in SUBSET Terms
  PROVE  /\ SumOfBounds(q, S) \in Int
         /\ \A d \in Docs : Matching(q, d) \subseteq S => Score(q, d) <= SumOfBounds(q, S)
<1> DEFINE bound == [t \in S |-> TermBound(q, t)]
<1>1. \A t \in S : bound[t] \in BoundsOf(q, t)
  BY ListsBound
<1>2. \A d \in Docs : Matching(q, d) \subseteq S =>
         \A t \in Matching(q, d) : q.postings[t][d] <= bound[t]
  BY ListsBound DEF Matching
<1>3. bound = [t \in S |-> bound[t]]
  OBVIOUS
<1>4. SumOfBounds(q, S) = OutwardSum(q, S, bound)
  BY DEF SumOfBounds
<1> HIDE DEF bound
<1> QED BY <1>1, <1>2, <1>3, <1>4, SumsBound

-----------------------------------------------------------------------------
\* The frontier.  At the head of every loop all cursors stand at the first posting at
\* or after one document, `low`, although WAND lets some lag behind others and MaxScore
\* moves the cursors of weak lists only when it has a candidate.

Frontier(q, low) == [t \in Terms |-> AdvanceTo(Listed(q, t), low)]

LEMMA OnFrontier ==
  ASSUME NEW q \in Queries, NEW low \in Nat, NEW r, r = Frontier(q, low)
  PROVE  /\ \A t \in Terms : r[t] = {d \in Listed(q, t) : d >= low}
         /\ Live(r) \subseteq Scorers(q)
         /\ \A t \in Live(r) : /\ Current(r, t) \in Listed(q, t)
                              /\ Current(r, t) \in Nat
                              /\ Current(r, t) >= low
                              /\ \A d \in Listed(q, t) : d >= low => Current(r, t) <= d
         /\ \A d \in Docs : d >= low => Matching(q, d) \subseteq Live(r)
<1>1. \A t \in Terms : r[t] = {d \in Listed(q, t) : d >= low}
  BY DEF Frontier, AdvanceTo
<1>2. Live(r) \subseteq Scorers(q)
  BY <1>1 DEF Live, Scorers
<1>3. ASSUME NEW t \in Live(r)
      PROVE  /\ Current(r, t) \in Listed(q, t)
             /\ Current(r, t) \in Nat
             /\ Current(r, t) >= low
             /\ \A d \in Listed(q, t) : d >= low => Current(r, t) <= d
  <2>1. t \in Terms /\ r[t] /= {}
    BY DEF Live
  <2>2. r[t] \subseteq Docs /\ r[t] \in SUBSET Int /\ IsFiniteSet(r[t])
    <3>1. r[t] \subseteq Listed(q, t) /\ Listed(q, t) \subseteq Docs
      BY <1>1, <2>1, QueryTypes
    <3>2. r[t] \in SUBSET Docs
      BY <3>1
    <3>3. IsFiniteSet(r[t])
      BY <3>2, DocsAssumption, FS_Subset
    <3>4. \A x \in Docs : x \in Int
      BY DocsAssumption
    <3>5. r[t] \in SUBSET Int
      BY ONLY <3>2, <3>4
    <3> QED BY ONLY <3>2, <3>3, <3>5
  <2>3. Min(r[t]) \in r[t] /\ \A x \in r[t] : Min(r[t]) <= x
    BY <2>1, <2>2, MinOfFinite
  <2> QED BY <1>1, <2>1, <2>2, <2>3, DocsAssumption DEF Current
<1>4. \A d \in Docs : d >= low => Matching(q, d) \subseteq Live(r)
  BY <1>1 DEF Matching, Live
<1> QED BY <1>1, <1>2, <1>3, <1>4

\* Moving every cursor that stands before a document up to it moves the frontier there,
LEMMA MoveToFrontier ==
  ASSUME NEW q \in Queries, NEW low \in Nat, NEW next \in Nat, low <= next,
         NEW r, r = Frontier(q, low),
         NEW S \in SUBSET Live(r),
         \A t \in Live(r) \ S : next <= Current(r, t)
  PROVE  [t \in Terms |-> IF t \in S THEN AdvanceTo(r[t], next) ELSE r[t]]
         = Frontier(q, next)
<1>1. ASSUME NEW t \in Terms
      PROVE  (IF t \in S THEN AdvanceTo(r[t], next) ELSE r[t]) = AdvanceTo(Listed(q, t), next)
  <2>1. r[t] = {d \in Listed(q, t) : d >= low} /\ Listed(q, t) \subseteq Nat
    BY OnFrontier, ListedAreNumbers
  <2>2. \A d \in Nat : d >= next => d >= low
    OBVIOUS
  <2>3. CASE t \in S
    BY <2>1, <2>2, <2>3 DEF AdvanceTo
  <2>4. CASE t \in Live(r) \ S
    <3>1. next <= Current(r, t) /\ Current(r, t) \in Nat
      BY <2>4, OnFrontier
    <3>2. \A d \in Listed(q, t) : d >= low => d >= Current(r, t)
      BY <2>4, OnFrontier
    <3>3. \A d \in Listed(q, t) : d >= low <=> d >= next
      BY <2>1, <2>2, <3>1, <3>2
    <3> QED BY <2>1, <2>4, <3>3 DEF AdvanceTo
  <2>5. CASE t \notin Live(r)
    <3>1. r[t] = {} /\ t \notin S
      BY <2>5 DEF Live
    <3>2. \A d \in Listed(q, t) : ~ (d >= low)
      BY <2>1, <3>1
    <3>3. \A d \in Listed(q, t) : ~ (d >= next)
      BY <2>1, <2>2, <3>2
    <3> QED BY <3>1, <3>3 DEF AdvanceTo
  <2> QED BY <2>3, <2>4, <2>5
<1> QED BY <1>1 DEF Frontier

\* and stepping off a document no cursor stands before moves it past that document.
LEMMA StepOffFrontier ==
  ASSUME NEW q \in Queries, NEW low \in Nat, NEW d \in Nat, low <= d,
         NEW r, r = Frontier(q, low),
         \A t \in Live(r) : d <= Current(r, t)
  PROVE  [t \in Terms |-> IF t \in Live(r) /\ Current(r, t) = d
                         THEN AdvanceOne(r[t]) ELSE r[t]] = Frontier(q, d + 1)
<1>1. ASSUME NEW t \in Terms
      PROVE  (IF t \in Live(r) /\ Current(r, t) = d THEN AdvanceOne(r[t]) ELSE r[t])
             = AdvanceTo(Listed(q, t), d + 1)
  <2>1. r[t] = {e \in Listed(q, t) : e >= low} /\ Listed(q, t) \subseteq Nat
    BY OnFrontier, ListedAreNumbers
  <2>2. \A e \in Nat : (e >= d + 1 <=> e > d) /\ (e >= d + 1 => e >= low)
    OBVIOUS
  <2>3. CASE t \in Live(r)
    <3>1. d <= Current(r, t) /\ Current(r, t) \in Nat
          /\ \A e \in Listed(q, t) : e >= low => Current(r, t) <= e
      BY <2>3, OnFrontier
    <3>2. CASE Current(r, t) = d
      <4>1. AdvanceOne(r[t]) = r[t] \ {d}
        BY <3>2 DEF AdvanceOne, Current
      <4>2. \A e \in Listed(q, t) : e >= low /\ e /= d <=> e >= d + 1
        BY <2>1, <2>2, <3>1, <3>2
      <4> QED BY <2>1, <2>3, <3>2, <4>1, <4>2 DEF AdvanceTo
    <3>3. CASE Current(r, t) /= d
      <4>1. \A e \in Listed(q, t) : e >= low <=> e >= d + 1
        BY <2>1, <2>2, <3>1, <3>3
      <4> QED BY <2>1, <3>3, <4>1 DEF AdvanceTo
    <3> QED BY <3>2, <3>3
  <2>4. CASE t \notin Live(r)
    <3>1. r[t] = {}
      BY <2>4 DEF Live
    <3>2. \A e \in Listed(q, t) : ~ (e >= low)
      BY <2>1, <3>1
    <3>3. \A e \in Listed(q, t) : ~ (e >= d + 1)
      BY <2>1, <2>2, <3>2
    <3> QED BY <2>4, <3>1, <3>3 DEF AdvanceTo
  <2> QED BY <2>3, <2>4
<1> QED BY <1>1 DEF Frontier

\* What is offered to the heap, what the answer is made from, and what cannot enter it.
Offered == {Entry(query, d) : d \in scored \intersect query.accepts}
Wanted == Candidates(query) \intersect query.accepts
Hopeless(d) == BelowThreshold(Score(query, d), heap, query.top_k)

\* Everything before the frontier has been scored or cannot enter the heap, and at the
\* end everything after it cannot either.
Inv(low) ==
  /\ query \in Queries
  /\ state \in {"searching", "done"}
  /\ overran \in BOOLEAN
  /\ rest = Frontier(query, low)
  /\ scored \subseteq {d \in Candidates(query) : d < low}
  /\ IsBest(heap, Offered, query.top_k)
  /\ ~overran => \A d \in Wanted \ scored :
                   d < low \/ state = "done" => Hopeless(d)

LEMMA OfferedTypes ==
  ASSUME NEW low \in Nat, Inv(low)
  PROVE  /\ Offered \subseteq HeapEntries /\ IsFiniteSet(Offered)
         /\ heap \subseteq HeapEntries /\ IsFiniteSet(heap)
<1> DEFINE D == scored \intersect query.accepts
<1>1. D \subseteq Docs
  BY QueryTypes DEF Inv
<1>2. IsFiniteSet(D)
  BY <1>1, DocsAssumption, FS_Subset
<1>3. [d \in D |-> Entry(query, d)] \in Surjection(D, Offered)
  BY DEF Surjection, Offered
<1>4. IsFiniteSet(Offered)
  BY <1>2, <1>3, FS_Surjection
<1>5. Offered \subseteq HeapEntries
  BY <1>1, QueryTypes DEF Offered, Inv
<1> QED BY <1>4, <1>5, FS_Subset DEF Inv, IsBest

\* The three things an iteration can do to the frontier: it passes over documents that
\* cannot enter the heap,
Passes(low, next) ==
  /\ next >= low
  /\ rest' = Frontier(query, next)
  /\ overran' \in BOOLEAN /\ (overran => overran')
  /\ ~overran' => \A d \in Wanted : low <= d /\ d < next => Hopeless(d)
  /\ state = "searching" /\ UNCHANGED <<query, state, heap, scored>>

\* passes over some and scores the next one,
Scores(low, d) ==
  /\ d \in Candidates(query) /\ d >= low
  /\ rest' = Frontier(query, d + 1)
  /\ IF d \in query.accepts THEN Consider(Entry(query, d), heap, query.top_k, heap')
                            ELSE UNCHANGED heap
  /\ scored' = scored \union {d}
  /\ ~overran => \A e \in Wanted : low <= e /\ e < d => Hopeless(e)
  /\ state = "searching" /\ UNCHANGED <<query, state, overran>>

\* or finds that nothing from the frontier on can enter it.
Ends(low) ==
  /\ ~overran => \A d \in Wanted : low <= d => Hopeless(d)
  /\ state = "searching" /\ state' = "done"
  /\ UNCHANGED <<query, rest, heap, scored, overran>>

LEMMA PassesInv ==
  ASSUME NEW low \in Nat, NEW next \in Nat, Inv(low), Passes(low, next)
  PROVE  Inv(next)'
<1>1. Offered' = Offered /\ Wanted' = Wanted /\ \A d : Hopeless(d)' = Hopeless(d)
  BY DEF Passes, Offered, Wanted, Hopeless, Entry, Score, Candidates, BelowThreshold, IsFull
<1>2. Candidates(query) \subseteq Nat
  BY QueryTypes, DocsAssumption DEF Inv
<1>3. scored \subseteq {d \in Candidates(query) : d < low} /\ next >= low
  BY DEF Inv, Passes
<1>4. scored \subseteq {d \in Candidates(query) : d < next}
  BY <1>2, <1>3
<1>5. Wanted \subseteq Nat
  BY <1>2 DEF Wanted
<1>6. scored' = scored /\ Candidates(query)' = Candidates(query)
  BY DEF Passes
<1> QED BY <1>1, <1>4, <1>5, <1>6 DEF Passes, Inv

LEMMA EndsInv ==
  ASSUME NEW low \in Nat, Inv(low), Ends(low)
  PROVE  Inv(low)'
<1>1. Offered' = Offered /\ Wanted' = Wanted /\ \A d : Hopeless(d)' = Hopeless(d)
  BY DEF Ends, Offered, Wanted, Hopeless, Entry, Score, Candidates, BelowThreshold, IsFull
<1>2. Wanted \subseteq Nat
  BY QueryTypes, DocsAssumption DEF Wanted, Inv
<1> QED BY <1>1, <1>2 DEF Ends, Inv

LEMMA JustBefore ==
  ASSUME NEW d \in Nat
  PROVE  \A e \in Nat : (e < d + 1 <=> e <= d) /\ (e < d + 1 /\ e /= d => e < d)
  OBVIOUS

LEMMA ScoresInv ==
  ASSUME NEW low \in Nat, NEW d, Inv(low), Scores(low, d)
  PROVE  d \in Nat /\ Inv(d + 1)'
<1> USE DEF Inv, Scores
<1>1. Candidates(query) \subseteq Docs /\ Docs \subseteq Nat /\ d \in Docs /\ d \in Nat
  <2>1. Candidates(query) \subseteq Docs /\ Docs \subseteq Nat
    BY QueryTypes, DocsAssumption
  <2> QED BY <2>1
<1>2. Wanted \subseteq Docs /\ Wanted \subseteq Nat /\ Wanted' = Wanted
  BY <1>1 DEF Wanted
<1>3. d \notin scored /\ scored \subseteq Docs
  BY <1>1
<1>4. scored' \subseteq {e \in Candidates(query)' : e < d + 1}
  <2>1. ASSUME NEW e \in scored PROVE e \in Candidates(query) /\ e < d + 1
    <3>1. e \in Candidates(query) /\ e \in Nat /\ e < low /\ low <= d
      BY <1>1
    <3>2. e < d + 1
      BY ONLY <3>1, <1>1, low \in Nat
    <3> QED BY <3>1, <3>2
  <2>2. scored' = scored \union {d} /\ Candidates(query)' = Candidates(query)
    OBVIOUS
  <2> QED BY <1>1, <2>1, <2>2
<1>5. CASE d \notin query.accepts
  <2>1. heap' = heap /\ Offered' = Offered /\ \A e : Hopeless(e)' = Hopeless(e)
    BY <1>5 DEF Offered, Hopeless
  <2>2. d \notin Wanted
    BY <1>5 DEF Wanted
  <2>3. \A e \in Wanted : e < d + 1 => e < d
    BY ONLY <1>1, <1>2, <2>2, JustBefore
  <2> QED BY <1>1, <1>2, <1>4, <2>1, <2>3
<1>6. CASE d \in query.accepts
  <2>1. Offered' = Offered \union {Entry(query, d)}
    BY <1>1, <1>6 DEF Offered
  <2>2. \A e \in Offered : e.doc /= Entry(query, d).doc
    <3>1. \A e \in scored : Entry(query, e).doc = e /\ Entry(query, d).doc = d
      BY <1>1, <1>3, QueryTypes
    <3> QED BY <1>3, <3>1 DEF Offered
  <2>3. IsBest(heap', Offered', query.top_k)
    BY <1>1, <1>6, <2>1, <2>2, ConsiderKeepsBest, QueryTypes, OfferedTypes
  <2>4. Entry(query, d) \notin heap
    BY <2>2 DEF IsBest
  <2>5. ASSUME NEW e \in Wanted, Hopeless(e) PROVE Hopeless(e)'
    BY <1>1, <1>2, <1>6, <2>4, <2>5, ThresholdGrows, QueryTypes, OfferedTypes DEF Hopeless
  <2>6. ASSUME ~overran, NEW e \in Wanted \ scored', e < d + 1 PROVE Hopeless(e)'
    <3>1. e < d /\ e \in Nat
      <4>1. e \in Nat /\ e /= d
        BY <1>2, <2>6
      <4> QED BY ONLY <4>1, <2>6, <1>1, JustBefore
    <3>2. Hopeless(e)
      BY <2>6, <3>1
    <3> QED BY <2>5, <3>2
  <2> QED BY <1>1, <1>2, <1>4, <2>3, <2>6
<1> QED BY <1>1, <1>5, <1>6

-----------------------------------------------------------------------------
\* The executors speak of the same lists, bounds and heap.

LEMMA WandOperators ==
  /\ Wand!Terms = Terms
  /\ \A q, t : Wand!Listed(q, t) = Listed(q, t)
  /\ \A r : Wand!Live(r) = Live(r)
  /\ \A r, t : Wand!Current(r, t) = Current(r, t)
  /\ \A S : Wand!Min(S) = Min(S) /\ Wand!Max(S) = Max(S)
  /\ \A u, d : Wand!AdvanceTo(u, d) = AdvanceTo(u, d)
  /\ \A u : Wand!AdvanceOne(u) = AdvanceOne(u)
  /\ \A q : Wand!Scorers(q) = Scorers(q)
  /\ \A q, S, d : Wand!SumOfScores(q, S, d) = SumOfScores(q, S, d)
  /\ \A q, S : Wand!SumOfBounds(q, S) = SumOfBounds(q, S)
  /\ \A q, S, bound : Wand!OutwardSum(q, S, bound) = OutwardSum(q, S, bound)
  /\ \A q, t, d : /\ Wand!BlockMax(q, t, d) = BlockMax(q, t, d)
                  /\ Wand!BlockLastDoc(q, t, d) = BlockLastDoc(q, t, d)
  /\ \A bound, h, k : Wand!BelowThreshold(bound, h, k) <=> BelowThreshold(bound, h, k)
  /\ \A c, h, k, after : Wand!Consider(c, h, k, after) <=> Consider(c, h, k, after)
<1>1. /\ Wand!Terms = Terms
      /\ \A q, t : Wand!Listed(q, t) = Listed(q, t)
      /\ \A r : Wand!Live(r) = Live(r)
      /\ \A S : Wand!Min(S) = Min(S) /\ Wand!Max(S) = Max(S)
      /\ \A u, d : Wand!AdvanceTo(u, d) = AdvanceTo(u, d)
  BY DEF Wand!Terms, Terms, Wand!Listed, Listed, Wand!Live, Live, Wand!Min, Min, Wand!Max, Max,
         Wand!AdvanceTo, AdvanceTo
<1>2. \A r, t : Wand!Current(r, t) = Current(r, t)
  BY <1>1 DEF Wand!Current, Current
<1>3. \A u : Wand!AdvanceOne(u) = AdvanceOne(u)
  BY <1>1 DEF Wand!AdvanceOne, AdvanceOne
<1>4. \A q : Wand!Scorers(q) = Scorers(q)
  BY <1>1 DEF Wand!Scorers, Scorers
<1>5. \A q, S, d : Wand!SumOfScores(q, S, d) = SumOfScores(q, S, d)
  <2>1. \A q, S, d : Wand!Added(q, S, d) = Added(q, S, d)
    BY DEF Wand!Added, Added
  <2>2. \A q, d : Wand!Matching(q, d) = Matching(q, d)
    BY <1>1 DEF Wand!Matching, Matching
  <2> QED BY <2>1, <2>2 DEF Wand!SumOfScores, SumOfScores
<1>6. \A q, S, bound : Wand!OutwardSum(q, S, bound) = OutwardSum(q, S, bound)
  BY DEF Wand!OutwardSum, OutwardSum, Wand!Lighter, Lighter, Wand!TermBound, TermBound,
         Wand!OutwardMax, OutwardMax, Wand!Max, Max, Wand!Impacts, Impacts, Wand!Listed, Listed
<1>7. \A q, t, D : Wand!OutwardMax(q, t, D) = OutwardMax(q, t, D)
  BY DEF Wand!OutwardMax, OutwardMax, Wand!Max, Max, Wand!Impacts, Impacts
<1>8. \A q, S : Wand!SumOfBounds(q, S) = SumOfBounds(q, S)
  <2>1. \A q, t : Wand!TermBound(q, t) = TermBound(q, t)
    BY <1>1, <1>7 DEF Wand!TermBound, TermBound
  <2> QED BY <1>6, <2>1 DEF Wand!SumOfBounds, SumOfBounds
<1>9. \A q, t, d : /\ Wand!BlockMax(q, t, d) = BlockMax(q, t, d)
                  /\ Wand!BlockLastDoc(q, t, d) = BlockLastDoc(q, t, d)
  <2>1. \A q, t, d : Wand!Rank(q, t, d) = Rank(q, t, d)
    BY <1>1 DEF Wand!Rank, Rank, Wand!Cardinality, Cardinality
  <2>2. \A q, t, d : Wand!BlockOf(q, t, d) = BlockOf(q, t, d)
    BY <1>1, <2>1 DEF Wand!BlockOf, BlockOf
  <2> QED BY <1>1, <1>7, <2>2 DEF Wand!BlockMax, BlockMax, Wand!BlockLastDoc, BlockLastDoc
<1>10. /\ \A bound, h, k : Wand!BelowThreshold(bound, h, k) <=> BelowThreshold(bound, h, k)
       /\ \A c, h, k, after : Wand!Consider(c, h, k, after) <=> Consider(c, h, k, after)
  BY DEF Wand!BelowThreshold, BelowThreshold, Wand!Consider, Consider, Wand!IsFull, IsFull,
         Wand!Cardinality, Cardinality, Wand!IsWorst, IsWorst, Wand!Worse, Worse
<1> QED BY <1>1, <1>2, <1>3, <1>4, <1>5, <1>6, <1>8, <1>9, <1>10

LEMMA MaxScoreOperators ==
  /\ MaxScore!Terms = Terms
  /\ \A q, t : MaxScore!Listed(q, t) = Listed(q, t)
  /\ \A r : MaxScore!Live(r) = Live(r)
  /\ \A r, t : MaxScore!Current(r, t) = Current(r, t)
  /\ \A S : MaxScore!Min(S) = Min(S) /\ MaxScore!Max(S) = Max(S)
  /\ \A u, d : MaxScore!AdvanceTo(u, d) = AdvanceTo(u, d)
  /\ \A u : MaxScore!AdvanceOne(u) = AdvanceOne(u)
  /\ \A q : MaxScore!Scorers(q) = Scorers(q)
  /\ \A q, r, t : MaxScore!Lighter(q, r, t) <=> Lighter(q, r, t)
  /\ \A q, S, d : MaxScore!SumOfScores(q, S, d) = SumOfScores(q, S, d)
  /\ \A q, S : MaxScore!SumOfBounds(q, S) = SumOfBounds(q, S)
  /\ \A q, S, bound : MaxScore!OutwardSum(q, S, bound) = OutwardSum(q, S, bound)
  /\ \A q, t, d : /\ MaxScore!BlockMax(q, t, d) = BlockMax(q, t, d)
                  /\ MaxScore!BlockLastDoc(q, t, d) = BlockLastDoc(q, t, d)
  /\ \A bound, h, k : MaxScore!BelowThreshold(bound, h, k) <=> BelowThreshold(bound, h, k)
  /\ \A c, h, k, after : MaxScore!Consider(c, h, k, after) <=> Consider(c, h, k, after)
<1>1. /\ MaxScore!Terms = Terms
      /\ \A q, t : MaxScore!Listed(q, t) = Listed(q, t)
      /\ \A r : MaxScore!Live(r) = Live(r)
      /\ \A S : MaxScore!Min(S) = Min(S) /\ MaxScore!Max(S) = Max(S)
      /\ \A u, d : MaxScore!AdvanceTo(u, d) = AdvanceTo(u, d)
  BY DEF MaxScore!Terms, Terms, MaxScore!Listed, Listed, MaxScore!Live, Live,
         MaxScore!Min, Min, MaxScore!Max, Max, MaxScore!AdvanceTo, AdvanceTo
<1>2. \A r, t : MaxScore!Current(r, t) = Current(r, t)
  BY <1>1 DEF MaxScore!Current, Current
<1>3. \A u : MaxScore!AdvanceOne(u) = AdvanceOne(u)
  BY <1>1 DEF MaxScore!AdvanceOne, AdvanceOne
<1>4. \A q : MaxScore!Scorers(q) = Scorers(q)
  BY <1>1 DEF MaxScore!Scorers, Scorers
<1>5. \A q, S, d : MaxScore!SumOfScores(q, S, d) = SumOfScores(q, S, d)
  <2>1. \A q, S, d : MaxScore!Added(q, S, d) = Added(q, S, d)
    BY DEF MaxScore!Added, Added
  <2>2. \A q, d : MaxScore!Matching(q, d) = Matching(q, d)
    BY <1>1 DEF MaxScore!Matching, Matching
  <2> QED BY <2>1, <2>2 DEF MaxScore!SumOfScores, SumOfScores
<1>6. \A q, S, bound : MaxScore!OutwardSum(q, S, bound) = OutwardSum(q, S, bound)
  BY DEF MaxScore!OutwardSum, OutwardSum, MaxScore!Lighter, Lighter, MaxScore!TermBound, TermBound,
         MaxScore!OutwardMax, OutwardMax, MaxScore!Max, Max, MaxScore!Impacts, Impacts,
         MaxScore!Listed, Listed
<1>7. \A q, t, D : MaxScore!OutwardMax(q, t, D) = OutwardMax(q, t, D)
  BY DEF MaxScore!OutwardMax, OutwardMax, MaxScore!Max, Max, MaxScore!Impacts, Impacts
<1>11. \A q, r, t : MaxScore!Lighter(q, r, t) <=> Lighter(q, r, t)
  BY <1>1, <1>7 DEF MaxScore!Lighter, Lighter, MaxScore!TermBound, TermBound
<1>8. \A q, S : MaxScore!SumOfBounds(q, S) = SumOfBounds(q, S)
  <2>1. \A q, t : MaxScore!TermBound(q, t) = TermBound(q, t)
    BY <1>1, <1>7 DEF MaxScore!TermBound, TermBound
  <2> QED BY <1>6, <2>1 DEF MaxScore!SumOfBounds, SumOfBounds
<1>9. \A q, t, d : /\ MaxScore!BlockMax(q, t, d) = BlockMax(q, t, d)
                  /\ MaxScore!BlockLastDoc(q, t, d) = BlockLastDoc(q, t, d)
  <2>1. \A q, t, d : MaxScore!Rank(q, t, d) = Rank(q, t, d)
    BY <1>1 DEF MaxScore!Rank, Rank, MaxScore!Cardinality, Cardinality
  <2>2. \A q, t, d : MaxScore!BlockOf(q, t, d) = BlockOf(q, t, d)
    BY <1>1, <2>1 DEF MaxScore!BlockOf, BlockOf
  <2> QED BY <1>1, <1>7, <2>2 DEF MaxScore!BlockMax, BlockMax, MaxScore!BlockLastDoc, BlockLastDoc
<1>10. /\ \A bound, h, k : MaxScore!BelowThreshold(bound, h, k) <=> BelowThreshold(bound, h, k)
       /\ \A c, h, k, after : MaxScore!Consider(c, h, k, after) <=> Consider(c, h, k, after)
  BY DEF MaxScore!BelowThreshold, BelowThreshold, MaxScore!Consider, Consider, MaxScore!IsFull, IsFull,
         MaxScore!Cardinality, Cardinality, MaxScore!IsWorst, IsWorst, MaxScore!Worse, Worse
<1> QED BY <1>1, <1>2, <1>3, <1>4, <1>5, <1>6, <1>8, <1>9, <1>10, <1>11

-----------------------------------------------------------------------------
\* WAND.

LEMMA LowerIsBelow ==
  ASSUME NEW low \in Nat, Inv(low), NEW bound \in Int, NEW lower \in Int,
         lower <= bound, BelowThreshold(bound, heap, query.top_k)
  PROVE  BelowThreshold(lower, heap, query.top_k)
<1>1. \A e \in heap : e.score \in Int
  BY OfferedTypes DEF HeapEntries
<1> QED BY <1>1 DEF BelowThreshold

\* If no document up to e at which a cursor stands could be the pivot, e cannot enter.
LEMMA NoPivotUpTo ==
  ASSUME NEW low \in Nat, Inv(low), NEW e \in Wanted, low <= e,
         \A t \in Live(rest) : Current(rest, t) <= e =>
                               ~ Wand!CanWin(Wand!Reached(Current(rest, t)))
  PROVE  Hopeless(e)
<1> DEFINE M == Matching(query, e)
           Places == {Current(rest, t) : t \in M}
<1>1. query \in Queries /\ rest = Frontier(query, low)
  BY DEF Inv
<1>2. e \in Docs /\ e \in Nat /\ M /= {} /\ M \subseteq Terms
  BY <1>1, QueryTypes, DocsAssumption DEF Wanted, Candidates, Matching
<1>3. M \subseteq Live(rest)
  BY <1>1, <1>2, OnFrontier
<1>4. \A t \in M : /\ Current(rest, t) \in Docs /\ Current(rest, t) \in Int
                  /\ Current(rest, t) <= e
  <2>1. ASSUME NEW t \in M PROVE e \in Listed(query, t)
    BY DEF Matching
  <2> QED BY <1>1, <1>2, <1>3, <2>1, OnFrontier, QueryTypes
<1>5. Max(Places) \in Places /\ \A x \in Places : x <= Max(Places)
  <2>1. Places \in SUBSET Docs /\ Places \in SUBSET Int /\ Places /= {}
    BY <1>2, <1>4
  <2> HIDE DEF Places
  <2> QED BY <2>1, DocsAssumption, FS_Subset, MaxOfFinite
<1>6. PICK s \in M : Current(rest, s) = Max(Places)
  BY <1>5
<1> DEFINE R == Wand!Reached(Current(rest, s))
<1>7. ~ Wand!CanWin(R)
  BY <1>3, <1>4, <1>6
<1>8. M \subseteq R /\ R \in SUBSET Terms
  BY <1>3, <1>5, <1>6, WandOperators DEF Wand!Reached, Live
<1>9. BelowThreshold(SumOfBounds(query, R), heap, query.top_k)
  BY <1>7, WandOperators DEF Wand!CanWin
<1>10. /\ SumOfBounds(query, R) \in Int /\ Score(query, e) \in Int
       /\ Score(query, e) <= SumOfBounds(query, R)
  <2> HIDE DEF R
  <2> QED BY <1>1, <1>2, <1>8, SumOfBoundsBounds, QueryTypes
<1> QED BY <1>9, <1>10, LowerIsBelow DEF Hopeless

\* So nothing between the frontier and the pivot can enter.
LEMMA BeforePivot ==
  ASSUME NEW low \in Nat, Inv(low), NEW d, Wand!AtPivot(d)
  PROVE  /\ state = "searching" /\ Wand!EnoughCursors
         /\ \E t \in Live(rest) : Current(rest, t) = d
         /\ d \in Docs /\ d \in Nat /\ d >= low
         /\ \A e \in Wanted : low <= e /\ e < d => Hopeless(e)
<1>1. query \in Queries /\ rest = Frontier(query, low)
  BY DEF Inv
<1>2. state = "searching" /\ Wand!EnoughCursors /\ d \in Wand!Pivots
  BY DEF Wand!AtPivot
<1>3. /\ \E t \in Live(rest) : Current(rest, t) = d
      /\ \A t \in Live(rest) : Wand!CanWin(Wand!Reached(Current(rest, t))) => d <= Current(rest, t)
  BY <1>2, WandOperators DEF Wand!Pivots
<1>4. \A t \in Live(rest) : /\ Current(rest, t) \in Docs /\ Current(rest, t) \in Nat
                           /\ Current(rest, t) >= low
  BY <1>1, OnFrontier, QueryTypes DEF Live
<1>5. ASSUME NEW e \in Wanted, low <= e, e < d PROVE Hopeless(e)
  <2>1. e \in Nat /\ d \in Nat
    BY <1>1, <1>3, <1>4, QueryTypes, DocsAssumption DEF Wanted
  <2>2. \A t \in Live(rest) : Current(rest, t) <= e => ~ (d <= Current(rest, t))
    BY <1>4, <1>5, <2>1
  <2> QED BY <1>3, <1>5, <2>2, NoPivotUpTo
<1> QED BY <1>2, <1>3, <1>4, <1>5

\* The cursors on a pivot no cursor stands before are those of the document's terms.
LEMMA AlignedOn ==
  ASSUME NEW low \in Nat, Inv(low), NEW d, Wand!AtPivot(d), Wand!Aligned(d)
  PROVE  /\ Wand!On(d) = Matching(query, d)
         /\ Wand!StepOff(Wand!On(d)) = Frontier(query, d + 1)
         /\ d \in Candidates(query) <=> Wand!Selected(d)
<1>1. query \in Queries /\ rest = Frontier(query, low)
  BY DEF Inv
<1>2. /\ \E t \in Live(rest) : Current(rest, t) = d
      /\ d \in Docs /\ d \in Nat /\ d >= low
  BY BeforePivot
<1>3. \A t \in Live(rest) : d <= Current(rest, t) /\ Current(rest, t) \in Nat
                           /\ Current(rest, t) \in Listed(query, t)
  BY <1>1, OnFrontier, WandOperators DEF Wand!Aligned
<1>4. Wand!On(d) = {t \in Live(rest) : Current(rest, t) = d}
  BY WandOperators DEF Wand!On
<1>5. ASSUME NEW t \in Matching(query, d) PROVE t \in Live(rest) /\ Current(rest, t) = d
  <2>1. t \in Live(rest) /\ d \in Listed(query, t)
    BY <1>1, <1>2, OnFrontier DEF Matching
  <2>2. Current(rest, t) <= d
    BY <1>1, <1>2, <2>1, OnFrontier
  <2> QED BY <1>2, <1>3, <2>1, <2>2
<1>6. Wand!On(d) = Matching(query, d)
  BY <1>3, <1>4, <1>5 DEF Matching, Live
<1>7. Wand!StepOff(Wand!On(d)) = Frontier(query, d + 1)
  <2>1. Wand!StepOff(Wand!On(d)) =
          [t \in Terms |-> IF t \in Live(rest) /\ Current(rest, t) = d
                          THEN AdvanceOne(rest[t]) ELSE rest[t]]
    BY <1>4, WandOperators DEF Wand!StepOff
  <2> QED BY <1>1, <1>2, <1>3, <2>1, StepOffFrontier
<1>8. Matching(query, d) /= {}
  BY <1>2, <1>4, <1>6
<1> QED BY <1>2, <1>6, <1>7, <1>8, WandOperators DEF Candidates, Wand!Selected

\* When the loop breaks, nothing from the frontier on can enter.
LEMMA WandStops ==
  ASSUME NEW low \in Nat, Inv(low), Wand!Stop
  PROVE  Ends(low)
<1>1. query \in Queries /\ rest = Frontier(query, low)
  BY DEF Inv
<1>2. ASSUME NEW e \in Wanted, low <= e PROVE Hopeless(e)
  <2>1. e \in Docs /\ e \in Candidates(query) /\ e \in Nat
    BY <1>1, QueryTypes, DocsAssumption DEF Wanted
  <2>2. /\ Matching(query, e) /= {} /\ Matching(query, e) \subseteq Live(rest)
        /\ Live(rest) \subseteq Scorers(query)
        /\ query.operator = "And" => Matching(query, e) = Scorers(query)
    BY <1>1, <1>2, <2>1, OnFrontier DEF Candidates
  <2>3. Wand!EnoughCursors
    BY <2>2, WandOperators DEF Wand!EnoughCursors
  <2>4. Wand!Pivots = {}
    BY <2>3 DEF Wand!Stop
  <2> DEFINE able == {d \in {Current(rest, t) : t \in Live(rest)} : Wand!CanWin(Wand!Reached(d))}
  <2>5. able \in SUBSET Docs
    BY <1>1, OnFrontier, QueryTypes DEF Live
  <2>6. \A d \in able : \E c \in able : ~ (d <= c)
    BY <2>4, WandOperators DEF Wand!Pivots
  <2>7. able = {}
    <3> HIDE DEF able
    <3>1. SUFFICES ASSUME able /= {} PROVE FALSE
      OBVIOUS
    <3>2. able \in SUBSET Int /\ IsFiniteSet(able)
      <4>1. Docs \in SUBSET Int
        BY DocsAssumption
      <4> QED BY <2>5, <4>1, DocsAssumption, FS_Subset
    <3> QED BY <2>6, <3>1, <3>2, MinOfFinite
  <2>8. \A t \in Live(rest) : ~ Wand!CanWin(Wand!Reached(Current(rest, t)))
    BY <2>7
  <2> QED BY <1>2, <2>8, NoPivotUpTo
<1> QED BY <1>2 DEF Ends, Wand!Stop

\* Bringing cursors up to the pivot, scoring it, and stepping over it.
LEMMA WandCatchesUp ==
  ASSUME NEW low \in Nat, Inv(low), NEW d, Wand!CatchUp(d)
  PROVE  d \in Nat /\ Passes(low, d)
<1>1. Wand!AtPivot(d)
  BY DEF Wand!CatchUp, Wand!PastBlocks
<1>2. /\ state = "searching" /\ d \in Nat /\ d >= low
      /\ \A e \in Wanted : low <= e /\ e < d => Hopeless(e)
  BY <1>1, BeforePivot
<1> DEFINE S == Wand!Reached(d) \ Wand!On(d)
<1>3. S = {t \in Live(rest) : Current(rest, t) <= d /\ Current(rest, t) /= d}
  BY WandOperators DEF Wand!Reached, Wand!On
<1>4. \A t \in Live(rest) \ S : d <= Current(rest, t)
  <2>1. \A t \in Live(rest) : Current(rest, t) \in Nat
    BY OnFrontier DEF Inv
  <2> QED BY <1>2, <1>3, <2>1
<1>5. rest' = [t \in Terms |-> IF t \in S THEN AdvanceTo(rest[t], d) ELSE rest[t]]
  BY WandOperators DEF Wand!CatchUp, Wand!MoveTo
<1>6. rest' = Frontier(query, d)
  <2> HIDE DEF S
  <2> QED BY <1>2, <1>3, <1>4, <1>5, MoveToFrontier DEF Inv
<1> QED BY <1>2, <1>6 DEF Passes, Wand!CatchUp, Inv

LEMMA WandStepsOver ==
  ASSUME NEW low \in Nat, Inv(low), NEW d, Wand!StepOverPivot(d)
  PROVE  d + 1 \in Nat /\ Passes(low, d + 1)
<1>1. Wand!AtPivot(d) /\ Wand!Aligned(d) /\ ~ Wand!Selected(d)
  BY DEF Wand!StepOverPivot, Wand!PastBlocks
<1>2. /\ state = "searching" /\ d \in Nat /\ d >= low
      /\ \A e \in Wanted : low <= e /\ e < d => Hopeless(e)
  BY <1>1, BeforePivot
<1>3. d \notin Wanted /\ rest' = Frontier(query, d + 1)
  BY <1>1, AlignedOn DEF Wanted, Wand!StepOverPivot
<1>4. ASSUME NEW e \in Wanted, low <= e, e < d + 1 PROVE Hopeless(e)
  <2>1. e \in Nat /\ e /= d
    BY <1>3, <1>4, QueryTypes, DocsAssumption DEF Wanted, Inv
  <2>2. e < d
    BY <1>2, <1>4, <2>1, JustBefore
  <2> QED BY <1>2, <1>4, <2>2
<1> QED BY <1>2, <1>3, <1>4 DEF Passes, Wand!StepOverPivot, Inv

LEMMA WandScores ==
  ASSUME NEW low \in Nat, Inv(low), NEW d, Wand!ScorePivot(d)
  PROVE  Scores(low, d)
<1>1. Wand!AtPivot(d) /\ Wand!Aligned(d) /\ Wand!Selected(d)
  BY DEF Wand!ScorePivot, Wand!PastBlocks
<1>2. /\ state = "searching" /\ d \in Nat /\ d >= low
      /\ \A e \in Wanted : low <= e /\ e < d => Hopeless(e)
  BY <1>1, BeforePivot
<1>3. /\ d \in Candidates(query) /\ Wand!On(d) = Matching(query, d)
      /\ rest' = Frontier(query, d + 1)
  BY <1>1, AlignedOn DEF Wand!ScorePivot
<1>4. Wand!PivotEntry(d) = Entry(query, d)
  <2>1. Wand!On(d) \intersect Matching(query, d) = Terms \intersect Matching(query, d)
    BY <1>3 DEF Matching
  <2> QED BY <2>1, WandOperators DEF Wand!PivotEntry, Entry, Score, SumOfScores
<1>5. IF d \in query.accepts THEN Consider(Entry(query, d), heap, query.top_k, heap')
                            ELSE UNCHANGED heap
  BY <1>4, WandOperators DEF Wand!ScorePivot
<1> QED BY <1>2, <1>3, <1>5 DEF Scores, Wand!ScorePivot

LEMMA GreaterOfTwo ==
  ASSUME NEW a \in Nat, NEW b \in Nat
  PROVE  Max({a, b}) = IF a >= b THEN a ELSE b
<1>1. {a, b} = {a} \union {b} /\ IsFiniteSet({a})
  BY FS_Singleton
<1>2. IsFiniteSet({a, b})
  BY <1>1, FS_AddElement
<1>3. Max({a, b}) \in {a, b} /\ \A x \in {a, b} : x <= Max({a, b})
  BY <1>2, MaxOfFinite
<1> QED BY <1>3

\* A block skip stays within the blocks whose bounds it added up, and before the cursors
\* it left out, unless a block it relied on ends before the pivot.
LEMMA WandSkips ==
  ASSUME NEW low \in Nat, Inv(low), NEW d, Wand!SkipBlock(d)
  PROVE  /\ Wand!SkipTarget(d) \in Nat /\ Wand!SkipTarget(d) >= d + 1
         /\ Passes(low, Wand!SkipTarget(d))
<1>1. Wand!AtPivot(d) /\ Wand!BlocksCannotWin(d)
  BY DEF Wand!SkipBlock
<1>2. /\ state = "searching" /\ d \in Nat /\ d >= low
      /\ \E t \in Live(rest) : Current(rest, t) = d
      /\ \A e \in Wanted : low <= e /\ e < d => Hopeless(e)
  BY <1>1, BeforePivot
<1>3. query \in Queries /\ rest = Frontier(query, low)
  BY DEF Inv
<1> DEFINE R == Wand!Reached(d)
           at(t) == Current(rest, t)
           lasts == {BlockLastDoc(query, t, at(t)) : t \in R}
           later == {at(t) : t \in Live(rest) \ R}
           end == Min(lasts)
           stops == {end + 1} \union later
           next == Wand!SkipTarget(d)
<1>4. /\ \A t \in Live(rest) : /\ t \in Terms /\ at(t) \in Listed(query, t) /\ at(t) \in Docs
                              /\ at(t) \in Nat /\ at(t) >= low
                              /\ \A e \in Listed(query, t) : e >= low => at(t) <= e
      /\ Docs \subseteq Nat /\ Docs \subseteq Int
  BY <1>3, OnFrontier, QueryTypes, DocsAssumption DEF Live
<1>5. R = {t \in Live(rest) : at(t) <= d} /\ R /= {} /\ R \in SUBSET Terms
  <2>1. R = {t \in Live(rest) : at(t) <= d}
    BY WandOperators DEF Wand!Reached
  <2> QED BY <1>2, <1>4, <2>1
<1>6. end \in Nat /\ \A t \in R : end <= BlockLastDoc(query, t, at(t))
  <2>1. \A t \in R : BlockLastDoc(query, t, at(t)) \in Docs
    BY <1>3, <1>4, <1>5, BlocksBound, QueryTypes
  <2>2. lasts \in SUBSET Docs /\ lasts \in SUBSET Int /\ lasts /= {}
    BY <1>4, <1>5, <2>1
  <2>3. Min(lasts) \in lasts /\ \A x \in lasts : Min(lasts) <= x
    <3> HIDE DEF lasts
    <3> QED BY <2>2, DocsAssumption, FS_Subset, MinOfFinite
  <2> QED BY <1>4, <2>2, <2>3
<1>7. later \in SUBSET Docs /\ \A x \in later : x \in Nat /\ x >= d + 1
  <2>1. ASSUME NEW u \in Live(rest) \ R PROVE at(u) \in Docs /\ at(u) \in Nat /\ at(u) >= d + 1
    <3>1. at(u) \in Docs /\ at(u) \in Nat /\ ~ (at(u) <= d)
      BY <1>4, <1>5
    <3> QED BY <1>2, <3>1
  <2> QED BY <2>1
<1>8. Min(stops) \in Nat /\ Min(stops) \in stops /\ \A x \in stops : Min(stops) <= x
  <2> HIDE DEF later, end
  <2>1. IsFiniteSet(later)
    BY <1>7, DocsAssumption, FS_Subset
  <2>2. IsFiniteSet(later \union {end + 1})
    BY <2>1, FS_AddElement
  <2>3. stops = later \union {end + 1}
    OBVIOUS
  <2>4. \A x \in stops : x \in Nat
    BY <1>6, <1>7
  <2>5. stops /= {} /\ IsFiniteSet(stops)
    BY <2>2, <2>3
  <2> HIDE DEF stops
  <2>6. stops \in SUBSET Int
    BY <2>4
  <2> QED BY <2>4, <2>5, <2>6, MinOfFinite
<1>9. Wand!BlockEnd(d) = end /\ next = Max({Min(stops), d + 1})
  BY WandOperators DEF Wand!BlockEnd, Wand!SkipTarget, Wand!BlockBoundTerms
<1>10. /\ next \in Nat /\ next >= d + 1
       /\ next > d + 1 => next = Min(stops)
  <2> HIDE DEF stops
  <2>1. d + 1 \in Nat
    BY <1>2
  <2>2. next = IF Min(stops) >= d + 1 THEN Min(stops) ELSE d + 1
    BY <1>8, <1>9, <2>1, GreaterOfTwo
  <2> HIDE DEF next
  <2> QED BY <1>8, <2>1, <2>2
<1>11. rest' = Frontier(query, next)
  <2> DEFINE S == {t \in Live(rest) : at(t) < next}
  <2>1. rest' = [t \in Terms |-> IF t \in S THEN AdvanceTo(rest[t], next) ELSE rest[t]]
    BY WandOperators DEF Wand!SkipBlock, Wand!MoveTo
  <2>2. next \in Nat /\ low <= next
    BY <1>2, <1>10
  <2>3. \A t \in Live(rest) \ S : next <= at(t)
    BY <1>4, <2>2
  <2>4. S \in SUBSET Live(rest)
    OBVIOUS
  <2> HIDE DEF S, next
  <2> QED BY <1>2, <1>3, <2>1, <2>2, <2>3, <2>4, MoveToFrontier
<1>12. ASSUME ~overran', NEW e \in Wanted, low <= e, e < next PROVE Hopeless(e)
  <2>1. e \in Docs /\ e \in Nat /\ d <= end
    <3>1. ~ (end < d)
      BY <1>9, <1>12 DEF Wand!SkipBlock
    <3>2. e \in Docs
      BY <1>3, <1>12, QueryTypes DEF Wanted
    <3>3. e \in Nat
      BY <1>4, <3>2
    <3> HIDE DEF end
    <3> QED BY <1>2, <1>6, <3>1, <3>2, <3>3
  <2>2. CASE e < d
    BY <1>2, <1>12, <2>2
  <2>3. CASE ~ (e < d)
    <3>1. next = Min(stops)
      <4> HIDE DEF later, end, next
      <4>1. \A x \in stops : x >= d + 1
        BY <1>2, <1>6, <1>7, <2>1
      <4> HIDE DEF stops
      <4>2. Min(stops) >= d + 1
        BY <1>8, <4>1
      <4>3. d + 1 \in Nat
        BY <1>2
      <4> QED BY <1>8, <1>9, <4>2, <4>3, GreaterOfTwo
    <3>2. e <= end /\ \A x \in later : e < x
      <4>1. next <= end + 1 /\ \A x \in later : next <= x
        BY <1>8, <3>1
      <4>2. \A x \in later : x \in Nat
        BY <1>7
      <4> HIDE DEF next, later, end
      <4> QED BY <1>6, <1>10, <1>12, <2>1, <4>1, <4>2
    <3>3. Matching(query, e) \subseteq R
      <4>1. ASSUME NEW t \in Matching(query, e) PROVE t \in R
        <5>1. t \in Live(rest) /\ e \in Listed(query, t)
          BY <1>3, <1>12, <2>1, OnFrontier DEF Matching
        <5>2. at(t) <= e /\ at(t) \in Nat
          BY <1>4, <1>12, <5>1
        <5>3. at(t) \notin later
          BY <2>1, <3>2, <5>2
        <5> QED BY <5>1, <5>3
      <4> QED BY <4>1
    <3> DEFINE bound == [t \in R |-> BlockMax(query, t, at(t))]
    <3>4. \A t \in R : bound[t] \in BoundsOf(query, t)
      BY <1>3, <1>4, <1>5, BlocksBound
    <3>5. ASSUME NEW t \in Matching(query, e) PROVE query.postings[t][e] <= bound[t]
      <4>1. t \in R /\ t \in Live(rest) /\ e \in Listed(query, t)
        BY <1>5, <3>3 DEF Matching
      <4>2. at(t) <= e
        BY <1>4, <1>12, <4>1
      <4>3. end <= BlockLastDoc(query, t, at(t)) /\ BlockLastDoc(query, t, at(t)) \in Nat
        BY <1>3, <1>4, <1>5, <1>6, <4>1, BlocksBound, ListedAreNumbers
      <4>4. e <= BlockLastDoc(query, t, at(t))
        <5> HIDE DEF end
        <5> QED BY <1>6, <2>1, <3>2, <4>3
      <4> QED BY <1>3, <1>4, <4>1, <4>2, <4>4, BlocksBound
    <3>6. bound = [t \in R |-> bound[t]]
      OBVIOUS
    <3>7. BelowThreshold(OutwardSum(query, R, bound), heap, query.top_k)
      BY <1>1, WandOperators DEF Wand!BlocksCannotWin, Wand!BlockBoundTerms
    <3> HIDE DEF bound, R
    <3>8. /\ OutwardSum(query, R, bound) \in Int
          /\ Score(query, e) <= OutwardSum(query, R, bound)
      BY <1>3, <1>5, <2>1, <3>3, <3>4, <3>5, <3>6, SumsBound
    <3>9. Score(query, e) \in Int
      BY <1>3, <2>1, QueryTypes
    <3> QED BY <3>7, <3>8, <3>9, LowerIsBelow DEF Hopeless
  <2> QED BY <2>2, <2>3
<1>13. /\ overran' \in BOOLEAN /\ (overran => overran')
       /\ UNCHANGED <<query, state, heap, scored>>
  BY DEF Wand!SkipBlock, Inv
<1>14. next >= low
  <2> HIDE DEF next
  <2> QED BY <1>2, <1>10
<1> QED BY <1>2, <1>10, <1>11, <1>12, <1>13, <1>14 DEF Passes

-----------------------------------------------------------------------------
\* MaxScore.

\* A set of terms has a last one in the ascending order of their bounds.
LEMMA Heaviest ==
  ASSUME NEW q \in Queries, NEW S \in SUBSET Terms, S /= {}
  PROVE  \E h \in S : \A t \in S : t = h \/ Lighter(q, t, h)
<1>1. \A t \in S : TermBound(q, t) \in Int /\ t \in Int
  BY ListsBound DEF Terms
<1>2. IsFiniteSet(S)
  <2>1. NumTerms \in Int /\ 1 \in Int
    BY SizesAssumption
  <2>2. IsFiniteSet(Terms)
    BY <2>1, FS_Interval DEF Terms
  <2> QED BY <2>2, FS_Subset
<1> DEFINE B == {TermBound(q, t) : t \in S}
           Top == {t \in S : TermBound(q, t) = Max(B)}
<1>3. Max(B) \in B /\ \A x \in B : x <= Max(B)
  <2>1. [t \in S |-> TermBound(q, t)] \in Surjection(S, B)
    BY DEF Surjection
  <2>2. IsFiniteSet(B)
    BY <1>2, <2>1, FS_Surjection
  <2>3. B \in SUBSET Int /\ B /= {}
    BY <1>1
  <2> HIDE DEF B
  <2> QED BY <2>2, <2>3, MaxOfFinite
<1>4. Max(Top) \in Top /\ \A t \in Top : t <= Max(Top)
  <2>1. Top \in SUBSET Int /\ Top /= {} /\ Top \in SUBSET S
    BY <1>1, <1>3
  <2> HIDE DEF Top
  <2> QED BY <1>2, <2>1, FS_Subset, MaxOfFinite
<1>5. ASSUME NEW t \in S PROVE t = Max(Top) \/ Lighter(q, t, Max(Top))
  <2>1. Max(Top) \in S /\ TermBound(q, Max(Top)) = Max(B)
    BY <1>4
  <2>2. TermBound(q, t) <= Max(B)
    BY <1>3
  <2>3. t \in Top => t <= Max(Top)
    BY <1>4
  <2>4. TermBound(q, t) = Max(B) => t \in Top
    OBVIOUS
  <2> HIDE DEF B, Top
  <2> QED BY <1>1, <2>1, <2>2, <2>3, <2>4 DEF Lighter
<1> QED BY <1>4, <1>5

\* A document all of whose terms are non-essential cannot enter.
LEMMA NonEssentialOnly ==
  ASSUME NEW low \in Nat, Inv(low), NEW e \in Wanted, low <= e,
         Matching(query, e) \subseteq MaxScore!NonEssential
  PROVE  Hopeless(e)
<1>1. query \in Queries /\ rest = Frontier(query, low)
  BY DEF Inv
<1>2. /\ e \in Docs /\ Matching(query, e) /= {} /\ Matching(query, e) \in SUBSET Terms
      /\ Matching(query, e) \subseteq Live(rest)
  BY <1>1, OnFrontier, QueryTypes DEF Wanted, Candidates, Matching
<1>3. PICK h \in Matching(query, e) :
        \A t \in Matching(query, e) : t = h \/ Lighter(query, t, h)
  BY <1>1, <1>2, Heaviest
<1> DEFINE U == MaxScore!UpTo(h)
<1>4. Matching(query, e) \subseteq U /\ U \in SUBSET Terms
  BY <1>2, <1>3, MaxScoreOperators DEF MaxScore!UpTo, Live
<1>5. BelowThreshold(SumOfBounds(query, U), heap, query.top_k)
  BY <1>3, MaxScoreOperators DEF MaxScore!NonEssential, MaxScore!TooWeak
<1>6. /\ SumOfBounds(query, U) \in Int /\ Score(query, e) \in Int
      /\ Score(query, e) <= SumOfBounds(query, U)
  <2> HIDE DEF U
  <2> QED BY <1>1, <1>2, <1>4, SumOfBoundsBounds, QueryTypes
<1> QED BY <1>5, <1>6, LowerIsBelow DEF Hopeless

LEMMA MaxScoreStops ==
  ASSUME NEW low \in Nat, Inv(low), MaxScore!Stop, UNCHANGED overran
  PROVE  Ends(low)
<1>1. ASSUME NEW e \in Wanted, low <= e PROVE Hopeless(e)
  <2>1. Matching(query, e) \subseteq Live(rest)
    BY <1>1, OnFrontier, QueryTypes DEF Inv, Wanted
  <2> QED BY <1>1, <2>1, NonEssentialOnly, MaxScoreOperators DEF MaxScore!Stop
<1> QED BY <1>1 DEF Ends, MaxScore!Stop

\* A candidate: what comes before it cannot enter, the cursors of the non-essential terms
\* are brought up to it, and then exactly its terms stand on it.
LEMMA AtCandidate ==
  ASSUME NEW low \in Nat, Inv(low), query.operator = "Or",
         NEW weak, weak = MaxScore!NonEssential, weak /= Live(rest),
         NEW d, d = MaxScore!Candidate(weak)
  PROVE  /\ d \in Docs /\ d \in Nat /\ d >= low /\ d \in Candidates(query)
         /\ \A e \in Wanted : low <= e /\ e < d => Hopeless(e)
         /\ MaxScore!On(MaxScore!CaughtUp(weak, d), d) = Matching(query, d)
         /\ MaxScore!StepOff(MaxScore!CaughtUp(weak, d), d) = Frontier(query, d + 1)
<1>1. query \in Queries /\ rest = Frontier(query, low)
  BY DEF Inv
<1>2. weak \in SUBSET Live(rest)
  BY MaxScoreOperators DEF MaxScore!NonEssential
<1> DEFINE Places == {Current(rest, t) : t \in Live(rest) \ weak}
<1>3. \A t \in Live(rest) : /\ t \in Terms /\ Current(rest, t) \in Listed(query, t)
                           /\ Current(rest, t) \in Docs /\ Current(rest, t) \in Nat
                           /\ Current(rest, t) >= low
                           /\ \A e \in Listed(query, t) : e >= low => Current(rest, t) <= e
  BY <1>1, OnFrontier, QueryTypes DEF Live
<1>4. d \in Places /\ \A x \in Places : d <= x
  <2>1. d = Min(Places)
    BY MaxScoreOperators DEF MaxScore!Candidate
  <2>2. Places \in SUBSET Docs /\ Places \in SUBSET Int /\ Places /= {}
    BY <1>2, <1>3
  <2> HIDE DEF Places
  <2>3. IsFiniteSet(Places)
    BY <2>2, DocsAssumption, FS_Subset
  <2> QED BY <2>1, <2>2, <2>3, MinOfFinite
<1>5. PICK s \in Live(rest) \ weak : d = Current(rest, s)
  BY <1>4
<1>6. d \in Docs /\ d \in Nat /\ d >= low /\ s \in Matching(query, d)
  BY <1>3, <1>5 DEF Matching
<1>7. d \in Candidates(query)
  BY <1>6 DEF Candidates
<1>8. ASSUME NEW e \in Wanted, low <= e, e < d PROVE Hopeless(e)
  <2>1. e \in Docs /\ e \in Nat
    BY <1>1, QueryTypes, DocsAssumption DEF Wanted
  <2>2. ASSUME NEW t \in Matching(query, e) PROVE t \in weak
    <3>1. t \in Live(rest) /\ e \in Listed(query, t)
      BY <1>1, <1>8, <2>1, OnFrontier DEF Matching
    <3>2. Current(rest, t) <= e /\ Current(rest, t) \in Nat
      BY <1>3, <1>8, <3>1
    <3>3. ~ (d <= Current(rest, t))
      BY <1>6, <1>8, <2>1, <3>2
    <3> QED BY <1>4, <3>1, <3>3
  <2> QED BY <1>8, <2>2, NonEssentialOnly
<1> DEFINE caught == MaxScore!CaughtUp(weak, d)
<1>9. caught = Frontier(query, d)
  <2>1. caught = [t \in Terms |-> IF t \in weak THEN AdvanceTo(rest[t], d) ELSE rest[t]]
    BY MaxScoreOperators DEF MaxScore!CaughtUp
  <2>2. \A t \in Live(rest) \ weak : d <= Current(rest, t)
    BY <1>4
  <2> HIDE DEF caught
  <2> QED BY <1>1, <1>2, <1>6, <2>1, <2>2, MoveToFrontier
<1> HIDE DEF caught
<1>10. \A t \in Live(caught) : d <= Current(caught, t) /\ Current(caught, t) \in Listed(query, t)
                              /\ Current(caught, t) \in Nat /\ t \in Terms
  BY <1>1, <1>6, <1>9, OnFrontier DEF Live
<1>11. MaxScore!On(caught, d) = {t \in Live(caught) : Current(caught, t) = d}
  BY MaxScoreOperators DEF MaxScore!On
<1>12. MaxScore!On(caught, d) = Matching(query, d)
  <2>1. ASSUME NEW t \in Matching(query, d) PROVE t \in Live(caught) /\ Current(caught, t) = d
    <3>1. t \in Live(caught) /\ d \in Listed(query, t)
      BY <1>1, <1>6, <1>9, OnFrontier DEF Matching
    <3>2. Current(caught, t) <= d
      BY <1>1, <1>6, <1>9, <3>1, OnFrontier
    <3> QED BY <1>6, <1>10, <3>1, <3>2
  <2> QED BY <1>10, <1>11, <2>1 DEF Matching
<1>13. MaxScore!StepOff(caught, d) = Frontier(query, d + 1)
  <2>1. MaxScore!StepOff(caught, d) =
          [t \in Terms |-> IF t \in Live(caught) /\ Current(caught, t) = d
                          THEN AdvanceOne(caught[t]) ELSE caught[t]]
    BY <1>11, MaxScoreOperators DEF MaxScore!StepOff
  <2> QED BY <1>1, <1>6, <1>9, <1>10, <2>1, StepOffFrontier
<1> QED BY <1>6, <1>7, <1>8, <1>12, <1>13 DEF caught

LEMMA MaxScoreScores ==
  ASSUME NEW low \in Nat, Inv(low), query.operator = "Or",
         NEW weak, weak = MaxScore!NonEssential, weak /= Live(rest),
         NEW d, d = MaxScore!Candidate(weak), MaxScore!ScoreCandidate(weak, d),
         state = "searching", UNCHANGED <<query, state, overran>>
  PROVE  Scores(low, d)
<1>1. /\ d \in Docs /\ d >= low /\ d \in Candidates(query)
      /\ \A e \in Wanted : low <= e /\ e < d => Hopeless(e)
      /\ MaxScore!StepOff(MaxScore!CaughtUp(weak, d), d) = Frontier(query, d + 1)
  BY AtCandidate
<1>2. MaxScore!CandidateEntry(d) = Entry(query, d)
  <2>1. Matching(query, d) \subseteq Live(rest)
    BY <1>1, OnFrontier DEF Inv
  <2>2. Live(rest) \intersect Matching(query, d) = Terms \intersect Matching(query, d)
    BY <2>1 DEF Matching
  <2> QED BY <2>2, MaxScoreOperators DEF MaxScore!CandidateEntry, Entry, Score, SumOfScores
<1>3. IF d \in query.accepts THEN Consider(Entry(query, d), heap, query.top_k, heap')
                            ELSE UNCHANGED heap
  BY <1>2, MaxScoreOperators DEF MaxScore!ScoreCandidate
<1>4. rest' = Frontier(query, d + 1) /\ scored' = scored \union {d}
  BY <1>1 DEF MaxScore!ScoreCandidate
<1> QED BY <1>1, <1>3, <1>4 DEF Scores

\* What the bounds of its blocks rule out cannot enter.
LEMMA MaxScoreRejects ==
  ASSUME NEW low \in Nat, Inv(low), query.operator = "Or",
         NEW weak, weak = MaxScore!NonEssential, weak /= Live(rest),
         NEW d, d = MaxScore!Candidate(weak), MaxScore!Reject(weak, d),
         state = "searching", UNCHANGED <<query, state, overran>>
  PROVE  d + 1 \in Nat /\ Passes(low, d + 1)
<1>1. /\ d \in Docs /\ d \in Nat /\ d >= low
      /\ \A e \in Wanted : low <= e /\ e < d => Hopeless(e)
      /\ MaxScore!On(MaxScore!CaughtUp(weak, d), d) = Matching(query, d)
      /\ MaxScore!StepOff(MaxScore!CaughtUp(weak, d), d) = Frontier(query, d + 1)
  BY AtCandidate
<1>2. query \in Queries
  BY DEF Inv
<1> DEFINE M == Matching(query, d)
           bound == [t \in M |-> IF t \in weak THEN BlockMax(query, t, d)
                                 ELSE query.postings[t][d]]
<1>3. BelowThreshold(OutwardSum(query, M, bound), heap, query.top_k)
  BY <1>1, MaxScoreOperators DEF MaxScore!Reject, MaxScore!BlockRejects, MaxScore!PossibleScore
<1>4. \A t \in M : t \in Terms /\ d \in Listed(query, t)
  BY DEF Matching
<1>5. \A t \in M : bound[t] \in BoundsOf(query, t) /\ query.postings[t][d] <= bound[t]
  <2>1. ASSUME NEW t \in M
        PROVE  /\ BlockMax(query, t, d) \in BoundsOf(query, t)
               /\ query.postings[t][d] <= BlockMax(query, t, d)
               /\ query.postings[t][d] \in BoundsOf(query, t)
               /\ query.postings[t][d] \in Int
    <3>1. query.postings[t][d] \in Impacts(query, t, Listed(query, t))
      BY <1>4 DEF Impacts
    <3> QED BY <1>2, <1>4, <3>1, BlocksBound, QueryTypes DEF BoundsOf
  <2> QED BY <2>1
<1>6. bound = [t \in M |-> bound[t]] /\ M \in SUBSET Terms
  BY <1>4
<1>7. Hopeless(d)
  <2> HIDE DEF bound
  <2>1. /\ OutwardSum(query, M, bound) \in Int /\ Score(query, d) \in Int
        /\ Score(query, d) <= OutwardSum(query, M, bound)
    BY <1>1, <1>2, <1>5, <1>6, SumsBound, QueryTypes
  <2> QED BY <1>3, <2>1, LowerIsBelow DEF Hopeless
<1>8. ASSUME NEW e \in Wanted, low <= e, e < d + 1 PROVE Hopeless(e)
  <2>1. e \in Nat
    BY <1>2, QueryTypes, DocsAssumption DEF Wanted
  <2>2. e = d \/ e < d
    BY <1>1, <1>8, <2>1, JustBefore
  <2> QED BY <1>1, <1>7, <1>8, <2>2
<1>9. rest' = Frontier(query, d + 1) /\ UNCHANGED <<heap, scored>>
  BY <1>1 DEF MaxScore!Reject
<1> QED BY <1>1, <1>8, <1>9 DEF Passes, Inv

-----------------------------------------------------------------------------
\* Every strategy.

\* What holds in every state of a pruned search.
Safe ==
  /\ strategy \in WandStrategies \union MaxScoreStrategies
  /\ strategy \in MaxScoreStrategies => query.operator = "Or"
  /\ \E low \in Nat : Inv(low)

\* A search starts with every cursor at the head of its list and nothing scored.
LEMMA InitSafe == Init => Safe
<1> SUFFICES ASSUME Init PROVE Safe
  OBVIOUS
<1>1. /\ strategy \in WandStrategies \union MaxScoreStrategies
      /\ strategy \in MaxScoreStrategies => query.operator = "Or"
      /\ query \in Queries /\ state = "searching" /\ overran = FALSE
      /\ rest = [t \in Terms |-> Listed(query, t)] /\ heap = {} /\ scored = {}
  BY WandOperators, MaxScoreOperators
     DEF Init, Wand!Init, MaxScore!Init, WandStrategies, MaxScoreStrategies
<1>2. rest = Frontier(query, 0)
  <2>1. ASSUME NEW t \in Terms PROVE AdvanceTo(Listed(query, t), 0) = Listed(query, t)
    <3>1. \A d \in Listed(query, t) : d >= 0
      BY <1>1, ListedAreNumbers
    <3> QED BY <3>1 DEF AdvanceTo
  <2> QED BY <1>1, <2>1 DEF Frontier
<1>3. Offered = {} /\ IsBest({}, {}, query.top_k)
  BY <1>1, FS_EmptySet, QueryTypes DEF Offered, IsBest, IsFull
<1>4. \A d \in Wanted : ~ (d < 0)
  <2>1. \A d \in Wanted : d \in Nat
    BY <1>1, QueryTypes, DocsAssumption DEF Wanted
  <2> QED BY ONLY <2>1
<1>5. scored \subseteq {d \in Candidates(query) : d < 0}
  BY <1>1
<1>6. state \in {"searching", "done"} /\ state /= "done" /\ overran \in BOOLEAN
  BY <1>1
<1>7. IsBest(heap, Offered, query.top_k)
  BY <1>1, <1>3
<1>8. ~overran => \A d \in Wanted \ scored : d < 0 \/ state = "done" => Hopeless(d)
  BY <1>4, <1>6
<1>9. Inv(0)
  BY <1>1, <1>2, <1>5, <1>6, <1>7, <1>8 DEF Inv
<1> QED BY <1>1, <1>9 DEF Safe

\* Whatever the strategy, an iteration does one of the three things.
LEMMA StepKinds ==
  ASSUME Safe, Next
  PROVE  \E low \in Nat : /\ Inv(low)
                         /\ \/ Ends(low)
                            \/ \E d \in Nat : Passes(low, d)
                            \/ \E d : Scores(low, d)
<1>1. PICK low \in Nat : Inv(low)
  BY DEF Safe
<1>2. CASE strategy \in WandStrategies /\ Wand!Next
  <2>1. CASE Wand!Stop
    BY <1>1, <2>1, WandStops
  <2>2. ASSUME NEW d \in Docs, Wand!Iterate(d)
        PROVE  (\E e \in Nat : Passes(low, e)) \/ (\E e : Scores(low, e))
    <3>1. CASE Wand!SkipBlock(d)
      BY <1>1, <3>1, WandSkips
    <3>2. CASE Wand!ScorePivot(d)
      BY <1>1, <3>2, WandScores
    <3>3. CASE Wand!StepOverPivot(d)
      BY <1>1, <3>3, WandStepsOver
    <3>4. CASE Wand!CatchUp(d)
      BY <1>1, <3>4, WandCatchesUp
    <3> QED BY <2>2, <3>1, <3>2, <3>3, <3>4 DEF Wand!Iterate
  <2> QED BY <1>1, <1>2, <2>1, <2>2 DEF Wand!Next
<1>3. CASE strategy \in MaxScoreStrategies /\ MaxScore!Next /\ UNCHANGED overran
  <2>1. CASE MaxScore!Stop
    BY <1>1, <1>3, <2>1, MaxScoreStops
  <2>2. CASE MaxScore!Iterate
    <3> DEFINE weak == MaxScore!NonEssential
               d == MaxScore!Candidate(weak)
    <3>1. /\ state = "searching" /\ weak /= Live(rest) /\ UNCHANGED <<query, state, overran>>
          /\ MaxScore!Reject(weak, d) \/ MaxScore!ScoreCandidate(weak, d)
      BY <1>3, <2>2, MaxScoreOperators DEF MaxScore!Iterate
    <3>2. query.operator = "Or"
      BY <1>3 DEF Safe
    <3> HIDE DEF d, weak
    <3>3. weak = MaxScore!NonEssential /\ d = MaxScore!Candidate(weak)
      BY DEF d, weak
    <3>4. CASE MaxScore!Reject(weak, d)
      BY <1>1, <3>1, <3>2, <3>3, <3>4, MaxScoreRejects
    <3>5. CASE MaxScore!ScoreCandidate(weak, d)
      BY <1>1, <3>1, <3>2, <3>3, <3>5, MaxScoreScores
    <3> QED BY <1>1, <3>1, <3>4, <3>5
  <2> QED BY <1>3, <2>1, <2>2 DEF MaxScore!Next
<1> QED BY <1>2, <1>3 DEF Next

LEMMA NextSafe == Safe /\ [Next]_vars => Safe'
<1> SUFFICES ASSUME Safe, [Next]_vars PROVE Safe'
  OBVIOUS
<1>1. CASE Next
  <2>1. PICK low \in Nat : /\ Inv(low)
                         /\ \/ Ends(low)
                            \/ \E d \in Nat : Passes(low, d)
                            \/ \E d : Scores(low, d)
    BY <1>1, StepKinds
  <2>2. query' = query
    BY <2>1 DEF Ends, Passes, Scores
  <2>3. \E next \in Nat : Inv(next)'
    <3>1. CASE Ends(low)
      BY <2>1, <3>1, EndsInv
    <3>2. ASSUME NEW d \in Nat, Passes(low, d) PROVE Inv(d)'
      BY <2>1, <3>2, PassesInv
    <3>3. ASSUME NEW d, Scores(low, d) PROVE d + 1 \in Nat /\ Inv(d + 1)'
      BY <2>1, <3>3, ScoresInv
    <3> QED BY <2>1, <3>1, <3>2, <3>3
  <2>4. strategy' = strategy
    BY <1>1 DEF Next
  <2> QED BY <2>2, <2>3, <2>4 DEF Safe
<1>2. CASE UNCHANGED vars
  BY <1>2 DEF vars, Safe, Inv, Offered, Wanted, Hopeless
<1> QED BY <1>1, <1>2

\* The strengthened invariant holds in every state.
THEOREM Invariance == Spec => []Safe
  BY InitSafe, NextSafe, PTL DEF Spec

\* No strategy passes over a document that could still enter the heap, ties included;
\* block-max WAND only if a skip goes past the end of a block it relied on.
THEOREM PruningIsSafe == Spec => []PrunedCannotWin
<1>1. Safe => PrunedCannotWin
  <2> SUFFICES ASSUME Safe, ~overran,
                      NEW d \in Wanted \ scored, Passed(d)
               PROVE  BelowThreshold(Score(query, d), heap, query.top_k)
    BY DEF PrunedCannotWin, Wanted
  <2>1. PICK low \in Nat : Inv(low)
    BY DEF Safe
  <2>2. PICK t \in Matching(query, d) : d \notin rest[t]
    BY DEF Passed
  <2>3. t \in Terms /\ d \in Listed(query, t) /\ ~ (d >= low)
    BY <2>1, <2>2, OnFrontier DEF Matching, Inv
  <2>4. d \in Nat
    BY <2>1, <2>3, ListedAreNumbers DEF Inv
  <2>5. d < low
    BY <2>3, <2>4
  <2> QED BY <2>1, <2>5 DEF Inv, Hopeless
<1> QED BY <1>1, Invariance, PTL

-----------------------------------------------------------------------------
\* The instance of RankedRetrieval speaks of the same requests and results.
LEMMA SameRequests ==
  /\ \A q : Abstract!IsQuery(q) <=> IsQuery(q)
  /\ \A q : Abstract!Results(q) = Results(q)
  /\ \A best, offered, k : Abstract!IsBest(best, offered, k) <=> IsBest(best, offered, k)
<1>1. \A q, t : Abstract!Listed(q, t) = Listed(q, t)
  BY DEF Abstract!Listed, Listed
<1>2. \A q, d : Abstract!Matching(q, d) = Matching(q, d)
  BY <1>1 DEF Abstract!Matching, Matching, Abstract!Terms, Terms
<1>3. \A q : Abstract!Candidates(q) = Candidates(q)
  BY <1>1, <1>2 DEF Abstract!Candidates, Candidates, Abstract!Scorers, Scorers,
                    Abstract!Terms, Terms
<1>4. \A q, S, d : Abstract!Added(q, S, d) = Added(q, S, d)
  BY DEF Abstract!Added, Added
<1>5. \A q, d : Abstract!Entry(q, d) = Entry(q, d)
  BY <1>2, <1>4 DEF Abstract!Entry, Entry, Abstract!Score, Score, Abstract!SumOfScores,
                    SumOfScores, Abstract!Terms, Terms
<1>6. \A q : Abstract!Results(q) = Results(q)
  BY <1>3, <1>5 DEF Abstract!Results, Results
<1>7. \A q : Abstract!IsQuery(q) <=> IsQuery(q)
  BY <1>1 DEF Abstract!IsQuery, IsQuery, Abstract!Operators, Operators,
              Abstract!Terms, Terms
<1>8. \A best, offered, k : Abstract!IsBest(best, offered, k) <=> IsBest(best, offered, k)
  BY DEF Abstract!IsBest, IsBest, Abstract!IsFull, IsFull, Abstract!Worse, Worse,
         Abstract!Cardinality, Cardinality
<1> QED BY <1>6, <1>7, <1>8

\* A search that starts is one the abstract retrieval starts.
LEMMA InitRefines == Init => Abstract!Init
<1> SUFFICES ASSUME Init PROVE Abstract!Init
  OBVIOUS
<1>1. query \in Queries /\ state = "searching" /\ overran = FALSE
  BY DEF Init, Wand!Init, MaxScore!Init
<1> QED BY <1>1, QueryTypes, SameRequests DEF Abstract!Init, AbstractState, Returned

\* At the end the heap is the answer.
Answered == state = "done" /\ ~overran => IsBest(heap, Results(query), query.top_k)

LEMMA AnswerIsBest == Safe => Answered
<1> SUFFICES ASSUME NEW low \in Nat, Inv(low), state = "done", ~overran
             PROVE  IsBest(heap, Results(query), query.top_k)
  BY DEF Safe, Answered
<1>1. query \in Queries /\ query.top_k \in Nat /\ Candidates(query) \subseteq Docs
      /\ scored \subseteq Candidates(query)
  BY QueryTypes DEF Inv
<1>2. Offered \subseteq Results(query)
  BY <1>1 DEF Offered, Results
<1>3. Results(query) \subseteq HeapEntries
  BY <1>1, QueryTypes DEF Results
<1>4. ASSUME NEW f \in Results(query) \ Offered
      PROVE  BelowThreshold(f.score, heap, query.top_k)
  <2>1. PICK d \in Wanted : f = Entry(query, d)
    BY DEF Results, Wanted
  <2>2. d \notin scored
    BY <1>4, <2>1 DEF Offered, Wanted
  <2>3. Hopeless(d)
    BY <2>1, <2>2 DEF Inv
  <2> QED BY <2>1, <2>3 DEF Hopeless, Entry
<1> QED BY <1>1, <1>2, <1>3, <1>4, BestWithoutLosers DEF Inv

\* Iterations are steps the caller does not see; the end of the loop returns the answer.
LEMMA NextRefines ==
  Safe /\ [Next]_vars => [Abstract!Return \/ Abstract!Reject]_(Abstract!answer)
<1> SUFFICES ASSUME Safe, [Next]_vars
             PROVE  [Abstract!Return \/ Abstract!Reject]_(Abstract!answer)
  OBVIOUS
<1>1. CASE UNCHANGED vars
  BY <1>1 DEF vars, Abstract!answer, AbstractState, Returned
<1>2. CASE Next
  <2>1. PICK low \in Nat : /\ Inv(low)
                         /\ \/ Ends(low)
                            \/ \E d \in Nat : Passes(low, d)
                            \/ \E d : Scores(low, d)
    BY <1>2, StepKinds
  <2>2. ASSUME NEW d \in Nat, Passes(low, d) PROVE UNCHANGED Abstract!answer
    BY <2>1, <2>2 DEF Passes, Abstract!answer, AbstractState, Returned
  <2>3. ASSUME NEW d, Scores(low, d) PROVE UNCHANGED Abstract!answer
    BY <2>1, <2>3 DEF Scores, Abstract!answer, AbstractState, Returned
  <2>4. CASE Ends(low) /\ overran
    BY <2>4 DEF Ends, Abstract!answer, AbstractState, Returned
  <2>5. CASE Ends(low) /\ ~overran
    <3>1. state' = "done" /\ ~overran' /\ ~overran
      BY <2>5 DEF Ends
    <3>2. IsBest(heap', Results(query)', query.top_k')
      <4>1. Safe'
        BY NextSafe
      <4>2. Answered'
        BY <4>1, AnswerIsBest, PTL
      <4> QED BY <3>1, <4>2 DEF Answered
    <3>3. query' = query /\ Results(query)' = Results(query) /\ state = "searching"
      BY <2>5 DEF Ends
    <3>4. \A e \in Results(query) : Finite(e.score)
      BY <2>1, FiniteAssumption, QueryTypes DEF Results, Entry, Inv
    <3>5. AbstractState = "searching" /\ AbstractState' = "done" /\ Returned' = heap'
      BY <3>1, <3>3 DEF AbstractState, Returned
    <3> QED BY <3>2, <3>3, <3>4, <3>5, SameRequests DEF Abstract!Return
  <2> QED BY <2>1, <2>2, <2>3, <2>4, <2>5
<1> QED BY <1>1, <1>2

\* Every pruning strategy implements the abstract retrieval: it returns the top_k best of
\* the accepted candidates, as the exhaustive executor does.  A search in which a skip of
\* block-max WAND went past the end of a block it relied on is excepted.
THEOREM Refinement == Spec => ImplementsRetrieval
<1>1. Spec => Abstract!Spec
  BY Invariance, InitRefines, NextRefines, PTL DEF Spec, Abstract!Spec
<1> QED BY <1>1 DEF ImplementsRetrieval

-----------------------------------------------------------------------------
\* Only block-max WAND skips by block bounds.
OnlySkipsOverrun == overran \in BOOLEAN /\ (strategy /= "BlockMaxWand" => ~overran)

LEMMA OnlyBlockMaxWandOverruns == Spec => []OnlySkipsOverrun
<1>1. Init => OnlySkipsOverrun
  BY DEF Init, Wand!Init, OnlySkipsOverrun
<1>2. OnlySkipsOverrun /\ [Next]_vars => OnlySkipsOverrun'
  <2> SUFFICES ASSUME OnlySkipsOverrun, [Next]_vars PROVE OnlySkipsOverrun'
    OBVIOUS
  <2>1. CASE UNCHANGED vars
    BY <2>1 DEF vars, OnlySkipsOverrun
  <2>2. CASE Next /\ UNCHANGED overran
    BY <2>2 DEF Next, OnlySkipsOverrun
  <2>3. ASSUME Next, strategy \in WandStrategies, NEW d \in Docs, Wand!SkipBlock(d)
        PROVE  OnlySkipsOverrun'
    <3>1. LoadBlockMax /\ overran' \in BOOLEAN /\ strategy' = strategy
      BY <2>3 DEF Wand!SkipBlock, Next, OnlySkipsOverrun
    <3>2. strategy = "BlockMaxWand"
      BY <2>3, <3>1 DEF LoadBlockMax, WandStrategies
    <3> QED BY <3>1, <3>2 DEF OnlySkipsOverrun
  <2>4. ASSUME Next, strategy \in WandStrategies, Wand!Next
        PROVE  UNCHANGED overran \/ \E d \in Docs : Wand!SkipBlock(d)
    BY <2>4 DEF Wand!Next, Wand!Stop, Wand!Iterate, Wand!ScorePivot, Wand!StepOverPivot,
                Wand!CatchUp
  <2> QED BY <2>1, <2>2, <2>3, <2>4 DEF Next
<1> QED BY <1>1, <1>2, PTL DEF Spec

\* WAND, MaxScore and BlockMax MaxScore return the top_k best, with no exception.  (Run
\* block_max_wand shows a search of block-max WAND that does not.)
THEOREM OthersAreExact == Spec => [](strategy /= "BlockMaxWand" => RankingUnchanged)
<1>1. Safe /\ OnlySkipsOverrun => (strategy /= "BlockMaxWand" => RankingUnchanged)
  BY AnswerIsBest DEF OnlySkipsOverrun, Answered, RankingUnchanged
<1> QED BY <1>1, Invariance, OnlyBlockMaxWandOverruns, PTL

-----------------------------------------------------------------------------
\* The work.  What every iteration does to the cursors, of which some stop at `moved` on
\* their way, and to the counters.
Reads(moved) ==
  /\ \A t \in Terms : moved[t] \subseteq rest[t] /\ rest'[t] \subseteq moved[t]
  /\ \E t \in Terms : rest'[t] /= rest[t]
  /\ stats'.advanced = stats.advanced + SumFunction([t \in Terms |-> Advanced(rest[t], rest'[t])])
  /\ stats'.skipped = stats.skipped + SumFunction([t \in Terms |-> Skipped(rest[t], moved[t])])

\* It scores a candidate that was not scored before, or none.
ScoresOne ==
  /\ stats'.evaluated = stats.evaluated + 1
  /\ \E d \in Candidates(query) \ scored : scored' = scored \union {d}

ScoresNone == stats'.evaluated = stats.evaluated /\ scored' = scored

\* A frontier that moves past a posting passes it.
LEMMA FrontierMoves ==
  ASSUME NEW q \in Queries, NEW low \in Nat, NEW next \in Nat, low <= next,
         NEW t \in Terms, NEW x \in Listed(q, t), low <= x, x < next
  PROVE  /\ \A u \in Terms : Frontier(q, next)[u] \subseteq Frontier(q, low)[u]
         /\ Frontier(q, next)[t] /= Frontier(q, low)[t]
<1>1. \A u \in Terms : /\ Frontier(q, low)[u] = {d \in Listed(q, u) : d >= low}
                      /\ Frontier(q, next)[u] = {d \in Listed(q, u) : d >= next}
  BY DEF Frontier, AdvanceTo
<1>2. \A d \in Nat : d >= next => d >= low
  OBVIOUS
<1>3. x \in Nat /\ \A u \in Terms : Listed(q, u) \subseteq Nat
  BY ListedAreNumbers
<1>4. ASSUME NEW u \in Terms PROVE Frontier(q, next)[u] \subseteq Frontier(q, low)[u]
  BY <1>1, <1>2, <1>3
<1>5. x >= low /\ ~ (x >= next)
  BY <1>3
<1> QED BY <1>1, <1>4, <1>5

\* What has been scored lies before the frontier.
LEMMA NotScoredYet ==
  ASSUME NEW low \in Nat, Inv(low), NEW d \in Nat, d >= low
  PROVE  d \notin scored
  BY DEF Inv

LEMMA SameCounts ==
  /\ \A f : Wand!SumFunction(f) = SumFunction(f) /\ MaxScore!SumFunction(f) = SumFunction(f)
  /\ \A b, a : Wand!Advanced(b, a) = Advanced(b, a) /\ MaxScore!Advanced(b, a) = Advanced(b, a)
  /\ \A b, a : Wand!Skipped(b, a) = Skipped(b, a) /\ MaxScore!Skipped(b, a) = Skipped(b, a)
  /\ Wand!Terms = Terms /\ MaxScore!Terms = Terms
<1>1. \A f : Wand!SumFunction(f) = SumFunction(f) /\ MaxScore!SumFunction(f) = SumFunction(f)
  BY DEF Wand!SumFunction, Wand!SumFunctionOnSet, Wand!FoldFunctionOnSet, Wand!MapThenFoldSet,
         MaxScore!SumFunction, MaxScore!SumFunctionOnSet, MaxScore!FoldFunctionOnSet,
         MaxScore!MapThenFoldSet,
         SumFunction, SumFunctionOnSet, FoldFunctionOnSet, MapThenFoldSet
<1>2. \A b, a : Wand!Advanced(b, a) = Advanced(b, a) /\ MaxScore!Advanced(b, a) = Advanced(b, a)
  BY DEF Wand!Advanced, MaxScore!Advanced, Advanced, Wand!Cardinality, MaxScore!Cardinality,
         Cardinality
<1>3. \A b, a : Wand!Skipped(b, a) = Skipped(b, a) /\ MaxScore!Skipped(b, a) = Skipped(b, a)
  BY <1>2 DEF Wand!Skipped, MaxScore!Skipped, Skipped
<1> QED BY <1>1, <1>2, <1>3, WandOperators, MaxScoreOperators

\* Every iteration of WAND passes a posting: the pivot's, or that of a cursor that lags.
LEMMA WandReads ==
  ASSUME NEW low \in Nat, Inv(low), NEW d \in Docs, Wand!Iterate(d), stats.evaluated \in Int
  PROVE  Reads(rest') /\ (ScoresOne \/ ScoresNone)
<1>1. query \in Queries /\ rest = Frontier(query, low)
  BY DEF Inv
<1>2. Wand!AtPivot(d)
  BY DEF Wand!Iterate, Wand!SkipBlock, Wand!ScorePivot, Wand!StepOverPivot, Wand!CatchUp,
         Wand!PastBlocks
<1>3. d \in Nat /\ d >= low /\ \E t \in Live(rest) : Current(rest, t) = d
  BY <1>2, BeforePivot
<1>4. \A t \in Live(rest) : /\ t \in Terms /\ Current(rest, t) \in Listed(query, t)
                           /\ Current(rest, t) \in Nat /\ Current(rest, t) >= low
  BY <1>1, OnFrontier DEF Live
<1>5. ASSUME NEW next \in Nat, next >= low, rest' = Frontier(query, next),
             NEW t \in Live(rest), Current(rest, t) < next,
             NEW evaluated, stats' = Wand!Count(rest', evaluated)
      PROVE  Reads(rest') /\ stats'.evaluated = stats.evaluated + evaluated
  <2>1. /\ \A u \in Terms : rest'[u] \subseteq rest[u]
        /\ rest'[t] /= rest[t] /\ t \in Terms
    BY <1>1, <1>4, <1>5, FrontierMoves
  <2>2. stats' = [evaluated |-> stats.evaluated + evaluated,
                  advanced |-> stats.advanced
                                 + SumFunction([u \in Terms |-> Advanced(rest[u], rest'[u])]),
                  skipped |-> stats.skipped
                                + SumFunction([u \in Terms |-> Skipped(rest[u], rest'[u])])]
    BY <1>5, SameCounts DEF Wand!Count
  <2> QED BY <2>1, <2>2 DEF Reads
<1>6. CASE Wand!SkipBlock(d)
  <2> DEFINE next == Wand!SkipTarget(d)
  <2>1. next \in Nat /\ next >= low /\ rest' = Frontier(query, next) /\ next >= d + 1
    BY <1>6, WandSkips DEF Passes
  <2>2. stats' = Wand!Count(rest', 0) /\ scored' = scored
    BY <1>6 DEF Wand!SkipBlock
  <2> HIDE DEF next
  <2>3. d < next
    BY <1>3, <2>1
  <2> QED BY <1>3, <1>5, <2>1, <2>2, <2>3 DEF ScoresNone
<1>7. CASE Wand!ScorePivot(d)
  <2>1. d \in Candidates(query) /\ rest' = Frontier(query, d + 1) /\ scored' = scored \union {d}
    BY <1>7, WandScores DEF Scores
  <2>2. stats' = Wand!Count(rest', 1)
    BY <1>7 DEF Wand!ScorePivot
  <2>3. d + 1 \in Nat /\ d + 1 >= low /\ d < d + 1
    BY <1>3
  <2>4. d \notin scored
    BY <1>3, NotScoredYet
  <2> QED BY <1>3, <1>5, <2>1, <2>2, <2>3, <2>4 DEF ScoresOne
<1>8. CASE Wand!StepOverPivot(d)
  <2>1. d + 1 \in Nat /\ d + 1 >= low /\ rest' = Frontier(query, d + 1)
    BY <1>8, WandStepsOver DEF Passes
  <2>2. stats' = Wand!Count(rest', 0) /\ scored' = scored
    BY <1>8 DEF Wand!StepOverPivot
  <2>3. d < d + 1
    BY <1>3
  <2> QED BY <1>3, <1>5, <2>1, <2>2, <2>3 DEF ScoresNone
<1>9. CASE Wand!CatchUp(d)
  <2>1. rest' = Frontier(query, d)
    BY <1>9, WandCatchesUp DEF Passes
  <2>2. stats' = Wand!Count(rest', 0) /\ scored' = scored
    BY <1>9 DEF Wand!CatchUp
  <2>3. PICK t \in Live(rest) : Current(rest, t) < d
    <3>1. \E t \in Live(rest) : ~ (Current(rest, t) >= d)
      BY <1>9, WandOperators DEF Wand!CatchUp, Wand!Aligned
    <3> QED BY <1>3, <1>4, <3>1
  <2> QED BY <1>3, <1>5, <2>1, <2>2, <2>3 DEF ScoresNone
<1> QED BY <1>6, <1>7, <1>8, <1>9 DEF Wand!Iterate

\* Every iteration of MaxScore passes the posting of the candidate in some list, and those
\* the cursors of the non-essential lists are brought past before.
LEMMA MaxScoreReads ==
  ASSUME NEW low \in Nat, Inv(low), query.operator = "Or", MaxScore!Iterate,
         stats.evaluated \in Int, stats.rejected \in Int
  PROVE  /\ \E moved : Reads(moved)
         /\ ScoresOne \/ ScoresNone
         /\ stats'.rejected \in Int
         /\ stats'.evaluated + stats'.rejected = stats.evaluated + stats.rejected + 1
<1> DEFINE weak == MaxScore!NonEssential
           d == MaxScore!Candidate(weak)
           moved == MaxScore!CaughtUp(weak, d)
<1>1. /\ weak = MaxScore!NonEssential /\ weak /= Live(rest) /\ d = MaxScore!Candidate(weak)
      /\ MaxScore!Reject(weak, d) \/ MaxScore!ScoreCandidate(weak, d)
  BY MaxScoreOperators DEF MaxScore!Iterate
<1> HIDE DEF weak, d
<1>2. /\ d \in Nat /\ d >= low /\ d \in Candidates(query)
      /\ MaxScore!On(moved, d) = Matching(query, d)
      /\ MaxScore!StepOff(moved, d) = Frontier(query, d + 1)
  BY <1>1, AtCandidate
<1>3. /\ rest' = MaxScore!StepOff(moved, d)
      /\ \/ stats' = MaxScore!Count(moved, rest', 0, 1) /\ scored' = scored
         \/ stats' = MaxScore!Count(moved, rest', 1, 0) /\ scored' = scored \union {d}
  BY <1>1 DEF MaxScore!Reject, MaxScore!ScoreCandidate
<1>4. ASSUME NEW t \in Terms PROVE moved[t] \subseteq rest[t] /\ rest'[t] \subseteq moved[t]
  <2>1. moved[t] = IF t \in weak THEN AdvanceTo(rest[t], d) ELSE rest[t]
    BY MaxScoreOperators DEF MaxScore!CaughtUp
  <2>2. moved[t] \subseteq rest[t]
    BY <2>1 DEF AdvanceTo
  <2> HIDE DEF moved
  <2>3. rest'[t] = IF t \in MaxScore!On(moved, d) THEN AdvanceOne(moved[t]) ELSE moved[t]
    BY <1>3, MaxScoreOperators DEF MaxScore!StepOff
  <2> QED BY <2>2, <2>3 DEF AdvanceOne
<1>5. \E t \in Terms : rest'[t] /= rest[t]
  <2>1. PICK t \in Terms : d \in Listed(query, t)
    BY <1>2 DEF Candidates, Matching
  <2>2. rest = Frontier(query, low) /\ rest' = Frontier(query, d + 1)
        /\ d + 1 \in Nat /\ low <= d + 1 /\ low <= d /\ d < d + 1
    BY <1>2, <1>3 DEF Inv
  <2> QED BY <2>1, <2>2, FrontierMoves DEF Inv
<1>6. ASSUME NEW evaluated, NEW rejected, stats' = MaxScore!Count(moved, rest', evaluated, rejected)
      PROVE  /\ Reads(moved)
             /\ stats'.evaluated = stats.evaluated + evaluated
             /\ stats'.rejected = stats.rejected + rejected
  <2> HIDE DEF moved
  <2>1. stats' = [evaluated |-> stats.evaluated + evaluated,
                  rejected |-> stats.rejected + rejected,
                  advanced |-> stats.advanced
                                 + SumFunction([u \in Terms |-> Advanced(rest[u], rest'[u])]),
                  skipped |-> stats.skipped
                                + SumFunction([u \in Terms |-> Skipped(rest[u], moved[u])])]
    BY <1>6, SameCounts DEF MaxScore!Count
  <2> QED BY <1>4, <1>5, <2>1 DEF Reads
<1>7. d \notin scored
  BY <1>2, NotScoredYet
<1>8. CASE stats' = MaxScore!Count(moved, rest', 0, 1) /\ scored' = scored
  <2> HIDE DEF moved
  <2>1. Reads(moved) /\ stats'.evaluated = stats.evaluated + 0 /\ stats'.rejected = stats.rejected + 1
    BY <1>6, <1>8
  <2> QED BY <1>8, <2>1 DEF ScoresNone
<1>9. CASE stats' = MaxScore!Count(moved, rest', 1, 0) /\ scored' = scored \union {d}
  <2> HIDE DEF moved
  <2>1. Reads(moved) /\ stats'.evaluated = stats.evaluated + 1 /\ stats'.rejected = stats.rejected + 0
    BY <1>6, <1>9
  <2> QED BY <1>2, <1>7, <1>9, <2>1 DEF ScoresOne
<1> QED BY <1>3, <1>8, <1>9

-----------------------------------------------------------------------------
\* What is left of a list, and the types of the other counters.
ReadOf(cursors) == [t \in Terms |-> Cardinality(Listed(query, t)) - Cardinality(cursors[t])]

Accounted ==
  /\ Safe
  /\ WorkIsAccounted
  /\ stats.skipped \in Int /\ turns \in Int
  /\ strategy \in MaxScoreStrategies => stats.rejected \in Int

LEMMA TermsAreFinite == IsFiniteSet(Terms)
<1>1. NumTerms \in Int /\ 1 \in Int
  BY SizesAssumption
<1> QED BY <1>1, FS_Interval DEF Terms

\* More postings are passed than are skipped.
LEMMA ReadsCount ==
  ASSUME NEW before, NEW moved, NEW after,
         \A t \in Terms : /\ IsFiniteSet(before[t])
                          /\ moved[t] \subseteq before[t] /\ after[t] \subseteq moved[t],
         \E t \in Terms : after[t] /= before[t]
  PROVE  LET advanced == SumFunction([t \in Terms |-> Advanced(before[t], after[t])])
             skipped == SumFunction([t \in Terms |-> Skipped(before[t], moved[t])])
         IN  advanced \in Nat /\ skipped \in Nat /\ skipped + 1 <= advanced
<1> DEFINE f == [t \in Terms |-> Skipped(before[t], moved[t])]
           g == [t \in Terms |-> Advanced(before[t], after[t])]
<1>1. ASSUME NEW t \in Terms
      PROVE  /\ f[t] \in Nat /\ g[t] \in Nat /\ f[t] <= g[t]
             /\ after[t] /= before[t] => f[t] < g[t]
  <2> DEFINE b == Cardinality(before[t])
             m == Cardinality(moved[t])
             a == Cardinality(after[t])
  <2>1. IsFiniteSet(before[t]) /\ moved[t] \in SUBSET before[t] /\ after[t] \in SUBSET moved[t]
    OBVIOUS
  <2>2. IsFiniteSet(moved[t]) /\ m <= b /\ (m = b => moved[t] = before[t])
    BY <2>1, FS_Subset
  <2>3. IsFiniteSet(after[t]) /\ a <= m /\ (a = m => after[t] = moved[t])
    BY <2>1, <2>2, FS_Subset
  <2>4. b \in Nat /\ m \in Nat /\ a \in Nat
    BY <2>1, <2>2, <2>3, FS_CardinalityType
  <2>5. g[t] = b - a /\ f[t] = IF b - m = 0 THEN 0 ELSE b - m - 1
    BY DEF Advanced, Skipped
  <2>6. after[t] /= before[t] => a < b
    <3> HIDE DEF a, b, m
    <3> QED BY <2>2, <2>3, <2>4
  <2> HIDE DEF a, b, m, f, g
  <2> QED BY <2>2, <2>3, <2>4, <2>5, <2>6
<1>2. DOMAIN f = Terms /\ DOMAIN g = Terms
  OBVIOUS
<1> HIDE DEF f, g
<1>3. SumFunction(f) \in Nat /\ SumFunction(g) \in Nat
  BY <1>1, <1>2, TermsAreFinite, SumOfNaturals
<1>4. SumFunction(f) + 1 <= SumFunction(g)
  BY <1>1, <1>2, TermsAreFinite, SumOfLess
<1> QED BY <1>3, <1>4 DEF f, g

\* An iteration keeps the accounts, and passes a posting.
LEMMA ReadsAccount ==
  ASSUME Accounted, NEW moved, Reads(moved), ScoresOne \/ ScoresNone, query' = query
  PROVE  /\ stats'.evaluated = Cardinality(scored')
         /\ scored' \subseteq Candidates(query)
         /\ stats'.advanced = SumFunction(ReadOf(rest'))
         /\ stats'.evaluated + stats'.skipped <= stats'.advanced
         /\ stats'.skipped \in Int
         /\ stats'.advanced > stats.advanced
<1> DEFINE passed == [t \in Terms |-> Advanced(rest[t], rest'[t])]
           jumped == [t \in Terms |-> Skipped(rest[t], moved[t])]
<1>1. query \in Queries /\ \A t \in Terms : rest[t] \subseteq Listed(query, t)
  <2>1. PICK low \in Nat : Inv(low)
    BY DEF Accounted, Safe
  <2> QED BY <2>1 DEF Inv, Frontier, AdvanceTo
<1>2. /\ stats.evaluated = Cardinality(scored)
      /\ scored \subseteq Candidates(query)
      /\ stats.advanced = SumFunction(ReadOf(rest))
      /\ stats.evaluated + stats.skipped <= stats.advanced
      /\ stats.skipped \in Int
  BY DEF Accounted, WorkIsAccounted, ReadOf
<1>3. \A t \in Terms : /\ IsFiniteSet(Listed(query, t))
                      /\ IsFiniteSet(rest[t]) /\ IsFiniteSet(rest'[t])
                      /\ moved[t] \subseteq rest[t] /\ rest'[t] \subseteq moved[t]
  <2>1. ASSUME NEW t \in Terms
        PROVE  /\ IsFiniteSet(Listed(query, t)) /\ rest[t] \in SUBSET Listed(query, t)
               /\ rest'[t] \in SUBSET Listed(query, t)
               /\ moved[t] \subseteq rest[t] /\ rest'[t] \subseteq moved[t]
    BY <1>1, QueryTypes DEF Reads
  <2> QED BY <2>1, FS_Subset
<1>4. \E t \in Terms : rest'[t] /= rest[t]
  BY DEF Reads
<1>5. SumFunction(passed) \in Nat /\ SumFunction(jumped) \in Nat
      /\ SumFunction(jumped) + 1 <= SumFunction(passed)
  BY <1>3, <1>4, ReadsCount
<1>6. /\ stats'.advanced = stats.advanced + SumFunction(passed)
      /\ stats'.skipped = stats.skipped + SumFunction(jumped)
  BY DEF Reads
<1>7. /\ SumFunction(ReadOf(rest)) \in Int
      /\ SumFunction(ReadOf(rest')) = SumFunction(ReadOf(rest)) + SumFunction(passed)
  <2>1. ASSUME NEW t \in Terms
        PROVE  /\ ReadOf(rest)[t] \in Nat /\ passed[t] \in Int
               /\ ReadOf(rest')[t] = ReadOf(rest)[t] + passed[t]
    <3> DEFINE l == Cardinality(Listed(query, t))
               b == Cardinality(rest[t])
               a == Cardinality(rest'[t])
    <3>1. l \in Nat /\ b \in Nat /\ a \in Nat
      BY <1>3, FS_CardinalityType
    <3>2. b <= l
      BY <1>1, <1>3, FS_Subset
    <3>3. ReadOf(rest)[t] = l - b /\ passed[t] = b - a /\ ReadOf(rest')[t] = l - a
      BY DEF ReadOf, Advanced
    <3> HIDE DEF l, b, a, passed
    <3> QED BY <3>1, <3>2, <3>3
  <2>2. DOMAIN ReadOf(rest) = Terms /\ DOMAIN passed = Terms /\ DOMAIN ReadOf(rest') = Terms
    BY DEF ReadOf
  <2> HIDE DEF passed
  <2>3. SumFunction(ReadOf(rest)) \in Nat
    BY <2>1, <2>2, TermsAreFinite, SumOfNaturals
  <2>4. \A t \in Terms : ReadOf(rest)[t] \in Int
    BY <2>1
  <2> QED BY <2>1, <2>2, <2>3, <2>4, TermsAreFinite, SumOfSums
<1> HIDE DEF passed, jumped
<1>8. IsFiniteSet(scored) /\ Cardinality(scored) \in Nat
  <2>1. scored \in SUBSET Docs
    BY <1>1, <1>2, QueryTypes
  <2> QED BY <2>1, DocsAssumption, FS_Subset, FS_CardinalityType
<1>9. /\ stats'.evaluated = Cardinality(scored')
      /\ scored' \subseteq Candidates(query)
      /\ stats'.evaluated \in Nat /\ stats'.evaluated <= stats.evaluated + 1
  <2>1. CASE ScoresOne
    <3>1. PICK d \in Candidates(query) \ scored : scored' = scored \union {d}
      BY <2>1 DEF ScoresOne
    <3>2. Cardinality(scored') = Cardinality(scored) + 1
      BY <1>8, <3>1, FS_AddElement
    <3> QED BY <1>2, <1>8, <2>1, <3>1, <3>2 DEF ScoresOne
  <2>2. CASE ScoresNone
    BY <1>2, <1>8, <2>2 DEF ScoresNone
  <2> QED BY <2>1, <2>2
<1>10. stats'.advanced = SumFunction(ReadOf(rest'))
  BY <1>2, <1>6, <1>7
<1>11. stats'.evaluated + stats'.skipped <= stats'.advanced /\ stats'.skipped \in Int
       /\ stats'.advanced > stats.advanced
  BY <1>2, <1>5, <1>6, <1>7, <1>8, <1>9
<1> QED BY <1>9, <1>10, <1>11

LEMMA InitAccounted == Init => Accounted
<1> SUFFICES ASSUME Init PROVE Accounted
  OBVIOUS
<1>1. /\ scored = {} /\ turns = 0 /\ stats.evaluated = 0 /\ stats.advanced = 0
      /\ stats.skipped = 0
      /\ strategy \in MaxScoreStrategies => stats.rejected = 0
      /\ rest = [t \in Terms |-> Listed(query, t)]
  BY WandOperators, MaxScoreOperators
     DEF Init, Wand!Init, MaxScore!Init, Wand!NoWork, MaxScore!NoWork,
         WandStrategies, MaxScoreStrategies
<1>2. query \in Queries
  BY InitSafe DEF Safe, Inv
<1>3. ReadOf(rest) = [t \in Terms |-> 0]
  <2>1. \A t \in Terms : Cardinality(Listed(query, t)) \in Nat
    BY <1>2, QueryTypes, FS_CardinalityType
  <2> QED BY <1>1, <2>1 DEF ReadOf
<1>4. SumFunction(ReadOf(rest)) = 0
  BY <1>3, TermsAreFinite, SumOfZeros
<1>5. WorkIsAccounted
  BY <1>1, <1>4, FS_EmptySet DEF WorkIsAccounted, ReadOf
<1> QED BY <1>1, <1>5, InitSafe DEF Accounted

\* What the counters do in a step.
LEMMA StepAccounts ==
  ASSUME Accounted, Next
  PROVE  Accounted' /\ (turns' = turns + 1 => stats'.advanced > stats.advanced)
<1>1. PICK low \in Nat : /\ Inv(low)
                         /\ \/ Ends(low)
                            \/ \E d \in Nat : Passes(low, d)
                            \/ \E d : Scores(low, d)
  BY StepKinds DEF Accounted
<1>2. query' = query /\ strategy' = strategy /\ Safe'
  BY <1>1, NextSafe DEF Ends, Passes, Scores, Next, Accounted
<1>3. turns \in Int /\ stats.evaluated \in Int
  <2>1. scored \in SUBSET Docs
    BY <1>1, QueryTypes DEF Inv
  <2>2. Cardinality(scored) \in Nat
    BY <2>1, DocsAssumption, FS_Subset, FS_CardinalityType
  <2> QED BY <2>2 DEF Accounted, WorkIsAccounted
<1>4. CASE UNCHANGED <<rest, stats, scored, turns>>
  BY <1>2, <1>3, <1>4 DEF Accounted, WorkIsAccounted
<1>5. CASE strategy \in WandStrategies /\ Wand!Next
  <2>1. CASE Wand!Stop
    BY <1>4, <2>1 DEF Wand!Stop
  <2>2. ASSUME NEW d \in Docs, Wand!Iterate(d)
        PROVE  Accounted' /\ stats'.advanced > stats.advanced
    <3>1. Reads(rest') /\ (ScoresOne \/ ScoresNone) /\ turns' = turns + 1
      BY <1>1, <1>3, <2>2, WandReads DEF Wand!Iterate
    <3>2. strategy' \notin MaxScoreStrategies
      BY <1>2, <1>5 DEF WandStrategies, MaxScoreStrategies
    <3> QED BY <1>2, <1>3, <3>1, <3>2, ReadsAccount DEF Accounted, WorkIsAccounted, ReadOf
  <2> QED BY <1>5, <2>1, <2>2 DEF Wand!Next
<1>6. CASE strategy \in MaxScoreStrategies /\ MaxScore!Next
  <2>1. CASE MaxScore!Stop
    BY <1>4, <2>1 DEF MaxScore!Stop
  <2>2. CASE MaxScore!Iterate
    <3>1. /\ query.operator = "Or" /\ stats.rejected \in Int
          /\ stats.evaluated + stats.rejected = turns
      BY <1>6 DEF Accounted, Safe, WorkIsAccounted
    <3>2. /\ \E moved : Reads(moved)
          /\ ScoresOne \/ ScoresNone
          /\ stats'.rejected \in Int
          /\ stats'.evaluated + stats'.rejected = stats.evaluated + stats.rejected + 1
      BY <1>1, <1>3, <2>2, <3>1, MaxScoreReads
    <3>3. turns' = turns + 1
      BY <2>2 DEF MaxScore!Iterate
    <3>4. stats'.evaluated + stats'.rejected = turns' /\ turns' \in Int
      BY <1>3, <3>1, <3>2, <3>3
    <3> QED BY <1>2, <3>2, <3>4, ReadsAccount DEF Accounted, WorkIsAccounted, ReadOf
  <2> QED BY <1>6, <2>1, <2>2 DEF MaxScore!Next
<1> QED BY <1>5, <1>6 DEF Next

LEMMA AlwaysAccounted == Spec => []Accounted
<1>1. Accounted /\ [Next]_vars => Accounted'
  <2>1. CASE UNCHANGED vars
    <3>1. Safe => Safe'
      BY <2>1, NextSafe
    <3> QED BY <2>1, <3>1 DEF vars, Accounted, WorkIsAccounted
  <2> QED BY <2>1, StepAccounts
<1> QED BY <1>1, InitAccounted, PTL DEF Spec

\* Every count of SearchStats is what it says, for every strategy: each document scored
\* once and a candidate, each posting read once, and none counted twice as both scored
\* and skipped.
THEOREM CountsAreTrue == Spec => []WorkIsAccounted
<1>1. Accounted => WorkIsAccounted
  BY DEF Accounted
<1> QED BY <1>1, AlwaysAccounted, PTL

\* No iteration of a search spins: each one reads a posting, so there are no more of them
\* than postings in its lists, whatever the scores and the bounds are.
THEOREM EveryTurnReads == Spec => EveryTurnAdvances
<1>1. Accounted /\ [Next]_vars => [turns' = turns + 1 => stats'.advanced > stats.advanced]_vars
  BY StepAccounts
<1> QED BY <1>1, AlwaysAccounted, PTL DEF Spec, EveryTurnAdvances
=============================================================================
