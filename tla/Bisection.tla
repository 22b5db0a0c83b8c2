------------------------------ MODULE Bisection ------------------------------
(***************************************************************************)
(* recursive_graph_bisection of reorder.rs: an order of the documents is   *)
(* split in halves, documents are exchanged between the halves of a range  *)
(* while that lowers an estimate of the compressed size, and both halves   *)
(* are treated in the same way.  Degrees of terms are kept in one scratch  *)
(* table that all ranges share.  The estimate is an integer function of a  *)
(* degree and a size; the limits on the input are left out.                *)
(***************************************************************************)
EXTENDS Integers, Sequences, FiniteSetsExt

CONSTANTS
  TermIds,      \* term IDs
  Proxy(_, _)   \* bit_proxy of a degree in a half of some size

VARIABLES
  termsOf,     \* the distinct terms of every document, documents from 0
  depth,       \* BisectionOptions.depth
  iterations,  \* BisectionOptions.iterations
  order,       \* the order being built: new to old
  ranges,      \* index ranges [first, last, depth] to treat, the next one first
  step,        \* "descend", "pass", "pairs" or "leave"
  pass,        \* the pass over the current range
  pair,        \* the pair that is compared next
  changed,     \* the pass has exchanged a pair
  left, right, \* DegreeScratch: documents of each half that hold a term
  touched      \* DegreeScratch: terms that may have a degree

collection == <<termsOf, depth, iterations>>
scratch == <<left, right, touched>>
bisection == <<collection, order, ranges, step, pass, pair, changed, scratch>>

\* The current range and its halves; the first half is the smaller one.
First == Head(ranges).first
Last == Head(ranges).last
Size == Last - First + 1
LeftSize == Size \div 2
RightSize == Size - LeftSize
LeftHalf == First .. First + LeftSize - 1
RightHalf == First + LeftSize .. Last

\* order with the documents at an interval of indices sorted.
At(indices) == {order[i] : i \in indices}
Sorted(documents, Before(_, _)) ==
  [i \in 1 .. Cardinality(documents) |->
     CHOOSE d \in documents : Cardinality({e \in documents : Before(e, d)}) = i - 1]
BothSorted(Before(_, _)) ==
  LET leftDocs == Sorted(At(LeftHalf), Before)
      rightDocs == Sorted(At(RightHalf), Before)
  IN  [i \in DOMAIN order |->
         CASE i \in LeftHalf -> leftDocs[i - First + 1]
           [] i \in RightHalf -> rightDocs[i - First - LeftSize + 1]
           [] OTHER -> order[i]]

\* move_gain: what moving a document of a term saves.
MoveGain(from, to, fromSize, toSize) ==
  Proxy(from, fromSize) + Proxy(to, toSize) - Proxy(from - 1, fromSize) - Proxy(to + 1, toSize)

GainLeft(t) == MoveGain(left[t], right[t], LeftSize, RightSize)
GainRight(t) == MoveGain(right[t], left[t], RightSize, LeftSize)

\* Mutant of PairGain: terms of both documents are counted twice.
PairGainOfAll(a, b) ==
  MapThenSumSet(GainLeft, termsOf[a]) + MapThenSumSet(GainRight, termsOf[b])

\* pair_gain: terms that both documents hold stay where they are.
PairGain(a, b) ==
  MapThenSumSet(GainLeft, termsOf[a] \ termsOf[b]) + MapThenSumSet(GainRight, termsOf[b] \ termsOf[a])

Begin ==
  /\ order = [i \in 1 .. Cardinality(DOMAIN termsOf) |-> i - 1]
  /\ ranges = << [first |-> 1, last |-> Cardinality(DOMAIN termsOf), depth |-> depth] >>
  /\ step = "descend"
  /\ pass = 0 /\ pair = 0 /\ changed = FALSE
  /\ left = [t \in TermIds |-> 0] /\ right = [t \in TermIds |-> 0] /\ touched = {}

\* bisect_range: a range of one document is left alone.
SkipRange ==
  /\ step = "descend" /\ ranges /= <<>>
  /\ Size < 2
  /\ ranges' = Tail(ranges)
  /\ UNCHANGED <<collection, order, step, pass, pair, changed, scratch>>

\* bisect_range and process_bisection: sort by ID, count the degrees.
Holders(sequence, indices, t) == Cardinality({i \in indices : t \in termsOf[sequence[i]]})

EnterRange ==
  /\ step = "descend" /\ ranges /= <<>>
  /\ Size >= 2
  /\ LET ids == Sorted(At(First .. Last), <)
         sorted == [i \in DOMAIN order |-> IF i \in First .. Last THEN ids[i - First + 1] ELSE order[i]]
         inLeft == [t \in TermIds |-> Holders(sorted, LeftHalf, t)]
         inRight == [t \in TermIds |-> Holders(sorted, RightHalf, t)]
     IN  /\ order' = sorted
         /\ left' = [t \in TermIds |-> left[t] + inLeft[t]]
         /\ right' = [t \in TermIds |-> right[t] + inRight[t]]
         /\ touched' = touched \union
              {t \in TermIds : left[t] = 0 /\ right[t] = 0 /\ inLeft[t] + inRight[t] > 0}
  /\ step' = "pass"
  /\ pass' = 0
  /\ UNCHANGED <<collection, ranges, pair, changed>>

\* A pass: both halves are sorted by what moving a document would save.
BeginPass ==
  /\ step = "pass"
  /\ LET gain == [d \in At(First .. Last) |->
                    IF d \in At(LeftHalf) THEN MapThenSumSet(GainLeft, termsOf[d])
                                          ELSE MapThenSumSet(GainRight, termsOf[d])]
     IN  order' = BothSorted(LAMBDA a, b : gain[a] > gain[b] \/ (gain[a] = gain[b] /\ a < b))
  /\ step' = "pairs"
  /\ pair' = 0
  /\ changed' = FALSE
  /\ UNCHANGED <<collection, ranges, pass, scratch>>

LeftDoc == order[First + pair]
RightDoc == order[First + LeftSize + pair]

\* Exchange: the degrees follow the terms of both documents.
Degree(degrees, from, to) ==
  [t \in TermIds |-> degrees[t] - (IF t \in from THEN 1 ELSE 0) + (IF t \in to THEN 1 ELSE 0)]

ExchangePair ==
  /\ step = "pairs" /\ pair < LeftSize
  /\ PairGain(LeftDoc, RightDoc) > 0
  /\ left' = Degree(left, termsOf[LeftDoc], termsOf[RightDoc])
  /\ right' = Degree(right, termsOf[RightDoc], termsOf[LeftDoc])
  /\ order' = [order EXCEPT ![First + pair] = RightDoc, ![First + LeftSize + pair] = LeftDoc]
  /\ changed' = TRUE
  /\ pair' = pair + 1
  /\ UNCHANGED <<collection, ranges, step, pass, touched>>

KeepPair ==
  /\ step = "pairs" /\ pair < LeftSize
  /\ PairGain(LeftDoc, RightDoc) <= 0
  /\ pair' = pair + 1
  /\ UNCHANGED <<collection, order, ranges, step, pass, changed, scratch>>

EndPass ==
  /\ step = "pairs" /\ pair = LeftSize
  /\ IF changed /\ pass + 1 < iterations
     THEN step' = "pass" /\ pass' = pass + 1
     ELSE step' = "leave" /\ UNCHANGED pass
  /\ UNCHANGED <<collection, order, ranges, pair, changed, scratch>>

\* Mutant of Cleared: only the degrees of the first half are reset.
ClearedLeft ==
  /\ left' = [t \in TermIds |-> IF t \in touched THEN 0 ELSE left[t]]
  /\ touched' = {}
  /\ UNCHANGED right

\* clear_touched.
Cleared ==
  /\ left' = [t \in TermIds |-> IF t \in touched THEN 0 ELSE left[t]]
  /\ right' = [t \in TermIds |-> IF t \in touched THEN 0 ELSE right[t]]
  /\ touched' = {}

\* bisect_range after process_bisection: recurse, or sort both halves by ID.
LeaveRange ==
  /\ step = "leave"
  /\ Cleared
  /\ LET below == Head(ranges).depth - 1
     IN  IF below > 0 /\ Size > 2
         THEN /\ ranges' = << [first |-> First, last |-> First + LeftSize - 1, depth |-> below],
                              [first |-> First + LeftSize, last |-> Last, depth |-> below] >>
                             \o Tail(ranges)
              /\ UNCHANGED order
         ELSE /\ ranges' = Tail(ranges)
              /\ order' = BothSorted(<)
  /\ step' = "descend"
  /\ UNCHANGED <<collection, pass, pair, changed>>

Bisect ==
  \/ SkipRange \/ EnterRange \/ BeginPass \/ ExchangePair \/ KeepPair \/ EndPass \/ LeaveRange

-----------------------------------------------------------------------------
\* The scratch table holds the degrees of the current range, whatever was exchanged,
\* and is empty between two ranges: no range sees the degrees of another.
DegreesExact ==
  IF step \in {"pass", "pairs", "leave"}
  THEN \A t \in TermIds :
         /\ left[t] = Holders(order, LeftHalf, t)
         /\ right[t] = Holders(order, RightHalf, t)
         /\ left[t] + right[t] > 0 => t \in touched
  ELSE touched = {} /\ \A t \in TermIds : left[t] = 0 /\ right[t] = 0

\* The estimate for the current range, from the order itself.
Cost(sequence) ==
  MapThenSumSet(LAMBDA t : Proxy(Holders(sequence, LeftHalf, t), LeftSize)
                             + Proxy(Holders(sequence, RightHalf, t), RightSize), TermIds)

\* Each accepted exchange strictly reduces the estimate, though the gains that sorted
\* the halves are those of the beginning of the pass.
ExchangesPay ==
  [][step = "pairs" /\ order' /= order => Cost(order') < Cost(order)]_bisection
=============================================================================
