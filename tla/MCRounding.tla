----------------------------- MODULE MCRounding -----------------------------
(***************************************************************************)
(* MaxScore on a floating-point format of six significant bits, rounding   *)
(* to nearest even as f64 does with 53.  Document 1 holds one term of      *)
(* impact 2048, where representable scores are 64 apart, and nine terms of *)
(* impact 33, just over half of that; document 0 holds one other term.     *)
(*                                                                         *)
(* Added in ordinal order, the large impact first, each small one rounds   *)
(* up: document 1 scores 2048 + 9 * 64 = 2624.  Added in ascending order,  *)
(* the small bounds keep their precision, and one outward step at the end  *)
(* does not make up for it: the accumulated bound is 2496.                 *)
(***************************************************************************)
EXTENDS MaxScoreSearch

Request(postings, operator, top_k, accepts) ==
  [postings |-> postings, operator |-> operator, top_k |-> top_k, accepts |-> accepts]

SignificantBits == 6

\* The distance between x and the next representable number.
Ulp(x) == CHOOSE u \in {2 ^ e : e \in 0 .. 8} :
            /\ x < u * 2 ^ SignificantBits
            /\ u > 1 => x >= (u \div 2) * 2 ^ SignificantBits

RoundToEven(x) ==
  LET u == Ulp(x)
      low == (x \div u) * u
      roundUp == \/ 2 * (x - low) > u
                 \/ 2 * (x - low) = u /\ (x \div u) % 2 = 1
  IN  IF roundUp THEN low + u ELSE low

RoundedPlus(x, y) == RoundToEven(x + y)
NextUp(x) == x + Ulp(x)

MCDocs == {0, 1}

\* Ordinal 1 is the large impact, 2 to 10 the small ones, 11 the other document.
MCQuerySet ==
  {Request([t \in 1 .. 11 |-> IF t = 1 THEN [d \in {1} |-> 2048]
                              ELSE IF t < 11 THEN [d \in {1} |-> 33]
                              ELSE [d \in {0} |-> 2560]],
           "Or", 1, MCDocs)}

AlwaysFinite(score) == TRUE
=============================================================================
