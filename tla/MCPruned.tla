------------------------------ MODULE MCPruned ------------------------------
(***************************************************************************)
(* The pruning strategies over three terms and five documents, with blocks *)
(* of two postings: one term takes every list over four documents, one six *)
(* lists of a middling impact, and the third covers the collection, evenly *)
(* or with a peak in its second block, or is sparse.  Cursors meet,        *)
(* overtake each other and cross blocks, and each term is essential to     *)
(* MaxScore in some request and not in another.                            *)
(***************************************************************************)
EXTENDS PrunedSearch

\* Exact arithmetic of quantized BM25.  A score is a multiple of Unit, and the next
\* representable score is one above: the outward roundings of a whole bound, two per
\* term, add up to less than a Unit, as they do to less than one impact in f64.
Unit == 16

ExactPlus(x, y) == x + y
ExactUp(x) == x + 1

\* Non-empty posting lists over the documents D with impacts in S: scorers
\* without postings never reach an executor.
PostingLists(D, S) == UNION {[L -> S] : L \in SUBSET D \ {{}}}

Request(postings, operator, top_k, accepts) ==
  [postings |-> postings, operator |-> operator, top_k |-> top_k, accepts |-> accepts]

MCDocs == 0 .. 4

FirstLists == PostingLists(0 .. 3, {Unit, 3 * Unit})
Middling(L) == [d \in L |-> 2 * Unit]
Even == [d \in MCDocs |-> Unit]
Sparse == [d \in {0, 3} |-> 2 * Unit]
Peaked == [d \in MCDocs |-> IF d = 3 THEN 3 * Unit ELSE Unit]

MCQuerySet ==
  {Request(<<a, Middling(L), c>>, operator, k, accepts) :
     a \in FirstLists, L \in {{2}, {1, 2}, {2, 3}, {1, 4}, {3, 4}, 1 .. 4},
     c \in {Even, Sparse}, operator \in Operators, k \in 1 .. 2, accepts \in {MCDocs, {1, 2, 4}}}
  \union
  {Request(<<a, Middling(L), Peaked>>, operator, k, MCDocs) :
     a \in FirstLists, L \in {{1, 2}, {3, 4}}, operator \in Operators, k \in 1 .. 2}

\* A frequent term whose first block has low impacts and whose second block has a high
\* one, and a rarer term that meets it there.  The bound of the frequent term is taken
\* from the block its cursor lags in, yet the skip of block-max WAND goes past the pivot,
\* in the next block: the best document, which holds both terms, is never scored.
LaggingBlock ==
  {Request(<<[d \in {0} |-> 3 * Unit], [d \in {3, 4} |-> 2 * Unit], Peaked>>,
           "Or", 1, MCDocs)}

AlwaysFinite(score) == TRUE
=============================================================================
