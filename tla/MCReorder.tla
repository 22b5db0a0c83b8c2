------------------------------ MODULE MCReorder ------------------------------
(***************************************************************************)
(* Bisection of every collection of up to four documents over three terms  *)
(* and five over two; shuffles of four; feature files that fit or not; and *)
(* mapping files of up to three lines with numbers in range, just out of   *)
(* range, and at the marker of an empty slot.                              *)
(***************************************************************************)
EXTENDS Reordering

MCTerms == {1, 2, 3}

\* 100 times the logarithm to base 2, rounded.
Log == <<0, 100, 158, 200, 232, 258, 281, 300, 317,
         332, 346, 358, 370, 381, 391, 400, 409>>
MCProxy(degree, size) == degree * (Log[size] - Log[degree + 1])

Input(terms, d, n, f, r) ==
  [termsOf |-> terms, depth |-> d, iterations |-> n, features |-> f, rows |-> r]

Plain(n) == [i \in 0 .. n - 1 |-> {}]

Rows(olds, news) == (olds \X news) \union {BadRow}

MCInputs(m) ==
  CASE m = "bp" ->
         {Input(terms, d, n, <<>>, <<>>) :
            terms \in UNION {[0 .. 3 -> SUBSET MCTerms], [0 .. 4 -> SUBSET {1, 2}],
                             [0 .. 1 -> SUBSET MCTerms], [0 .. 0 -> {{1}}], [1 .. 0 -> {{1}}]},
            d \in 1 .. 3, n \in {1, 3}}
    [] m = "random" -> {Input(Plain(n), 1, 1, <<>>, <<>>) : n \in 0 .. 4}
    [] m = "feature" ->
         {Input(Plain(n), 1, 1, f, <<>>) :
            n \in 0 .. 3, f \in UNION {[1 .. k -> 1 .. 2] : k \in 0 .. 3}}
    [] m = "mapping" ->
         {Input(Plain(2), 1, 1, <<>>, r) :
            r \in UNION {[1 .. k -> Rows({0, 1, 2}, {0, 1, 2, MaxId})] : k \in 0 .. 3}}
           \union
         {Input(Plain(3), 1, 1, <<>>, r) : r \in [1 .. 3 -> {0, 1, 2} \X {0, 1, 2, MaxId}]}
=============================================================================
