----------------------------- MODULE Reordering -----------------------------
(***************************************************************************)
(* DocIdMap of reorder.rs: the four ways to a new numbering of the         *)
(* documents - bisection, a random shuffle, a feature per document, a file *)
(* of pairs - and the maps built and checked from it.                      *)
(***************************************************************************)
EXTENDS Bisection

CONSTANTS
  Inputs(_),  \* per method, records [termsOf, depth, iterations, features, rows]
  MaxId,      \* u32::MAX, which also marks an empty slot of a map
  DrawBits    \* bits of a random draw: 64 in the code

BadRow == <<>>  \* a line that is not two u32 columns

ASSUME WidthsAssumption ==
  MaxId \in Nat /\ 2 ^ DrawBits \in Nat /\ MaxId < 2 ^ DrawBits /\ IsFiniteSet(TermIds)

\* The collection has fewer documents than there are numbers.
ASSUME InputsAssumption ==
  \A m \in {"bp", "random", "feature", "mapping"} : \A input \in Inputs(m) :
    /\ \E n \in 0 .. MaxId : input.termsOf \in [0 .. n - 1 -> SUBSET TermIds]
    /\ input.depth \in Nat /\ input.iterations \in Nat
    /\ input.features \in Seq(Int)
    /\ input.rows \in Seq({BadRow} \union (Nat \X (0 .. MaxId)))

\* The estimate is exact: the code has an f64, and ignores gains up to 1e-12.
ASSUME ProxyAssumption ==
  \A size \in 1 .. MaxId, degree \in 0 .. MaxId + 1 :
    degree <= size + 1 => Proxy(degree, size) \in Int

VARIABLES
  method,    \* "bp", "random", "feature" or "mapping"
  features,  \* the feature of every document
  rows,      \* the pairs <<old, new>> of the mapping file
  line,      \* rows read; for a shuffle, positions done
  slots,     \* from_mapping_reader: old to new, MaxId when empty
  outcome,   \* "ordering", "built" or "refused"
  oldToNew, newToOld  \* the map, once built

maps == <<oldToNew, newToOld>>
reorderVars == <<bisection, method, features, rows, line, slots, outcome, maps>>

Count == Cardinality(DOMAIN termsOf)
Ids == 0 .. Count - 1

ReorderInit ==
  /\ method \in {"bp", "random", "feature", "mapping"}
  /\ \E input \in Inputs(method) :
       /\ termsOf = input.termsOf
       /\ depth = input.depth
       /\ iterations = input.iterations
       /\ features = input.features
       /\ rows = input.rows
  /\ Begin
  /\ line = 0
  /\ slots = [d \in Ids |-> MaxId]
  /\ outcome = "ordering"
  /\ oldToNew = <<>> /\ newToOld = <<>>

BisectStep ==
  /\ outcome = "ordering" /\ method = "bp"
  /\ Bisect
  /\ UNCHANGED <<method, features, rows, line, slots, outcome, maps>>

\* random: draws below the threshold are rejected, the rest name a position.
Accepted(bound) == ((2 ^ DrawBits - bound) % bound) .. 2 ^ DrawBits - 1

Shuffle ==
  /\ outcome = "ordering" /\ method = "random"
  /\ line + 1 < Count
  /\ LET end == Count - line
     IN  \E draw \in Accepted(end) :
           order' = [order EXCEPT ![end] = order[(draw % end) + 1], ![(draw % end) + 1] = order[end]]
  /\ line' = line + 1
  /\ UNCHANGED <<collection, ranges, step, pass, pair, changed, scratch,
                 method, features, rows, slots, outcome, maps>>

\* by_feature: the number of lines is the number of documents.
Precedes(a, b) ==
  \/ features[a + 1] < features[b + 1]
  \/ features[a + 1] = features[b + 1] /\ a < b

SortByFeature ==
  /\ outcome = "ordering" /\ method = "feature" /\ line = 0
  /\ IF Len(features) /= Count
     THEN outcome' = "refused" /\ UNCHANGED <<order, line>>
     ELSE /\ order' = Sorted(Ids, Precedes)
          /\ line' = 1
          /\ UNCHANGED outcome
  /\ UNCHANGED <<collection, ranges, step, pass, pair, changed, scratch,
                 method, features, rows, slots, maps>>

\* from_mapping_reader: one line.
RowFits(row) == row /= BadRow /\ row[1] \in Ids /\ slots[row[1]] = MaxId

ReadRow ==
  /\ outcome = "ordering" /\ method = "mapping" /\ line < Len(rows)
  /\ LET row == rows[line + 1]
     IN  IF RowFits(row)
         THEN slots' = [slots EXCEPT ![row[1]] = row[2]] /\ line' = line + 1 /\ UNCHANGED outcome
         ELSE outcome' = "refused" /\ UNCHANGED <<slots, line>>
  /\ UNCHANGED <<bisection, method, features, rows, maps>>

\* Mutant of Invertible: a number may be assigned twice.
InvertibleOnto(map) == \A i \in Ids : map[i] \in Ids

\* from_old_to_new and from_new_to_old: every number is in range and free.
Invertible(map) ==
  \A i \in Ids : map[i] \in Ids /\ \A j \in 0 .. i - 1 : map[j] /= map[i]

\* The slots left by the assignments in order.
InverseOf(map) ==
  [i \in Ids |-> IF \E j \in Ids : map[j] = i
                 THEN CHOOSE j \in Ids : map[j] = i /\ \A k \in Ids : map[k] = i => k <= j
                 ELSE MaxId]

BuildFromOrder ==
  /\ outcome = "ordering"
  /\ \/ method = "bp" /\ step = "descend" /\ ranges = <<>>
     \/ method = "random" /\ line + 1 >= Count
     \/ method = "feature" /\ line = 1
  /\ LET map == [i \in Ids |-> order[i + 1]]
     IN  IF Invertible(map)
         THEN newToOld' = map /\ oldToNew' = InverseOf(map) /\ outcome' = "built"
         ELSE outcome' = "refused" /\ UNCHANGED maps
  /\ UNCHANGED <<bisection, method, features, rows, line, slots>>

BuildFromRows ==
  /\ outcome = "ordering" /\ method = "mapping" /\ line = Len(rows)
  /\ IF Len(rows) = Count /\ Invertible(slots)
     THEN oldToNew' = slots /\ newToOld' = InverseOf(slots) /\ outcome' = "built"
     ELSE outcome' = "refused" /\ UNCHANGED maps
  /\ UNCHANGED <<bisection, method, features, rows, line, slots>>

ReorderNext == BisectStep \/ Shuffle \/ SortByFeature \/ ReadRow \/ BuildFromOrder \/ BuildFromRows

ReorderSpec == ReorderInit /\ [][ReorderNext]_reorderVars
-----------------------------------------------------------------------------
\* A file of pairs that states a renumbering: each document once, and so each number.
Renumbers ==
  /\ Len(rows) = Count
  /\ BadRow \notin {rows[i] : i \in DOMAIN rows}
  /\ {rows[i][1] : i \in DOMAIN rows} = Ids
  /\ {rows[i][2] : i \in DOMAIN rows} = Ids

\* The draws accepted for a position name every document that is left equally often.
DrawsAreEven ==
  LET end == Count - line
      Naming(chosen) == {draw \in Accepted(end) : draw % end = chosen}
  IN  \A chosen \in 0 .. end - 1 : Cardinality(Naming(chosen)) = Cardinality(Naming(0))

\* A map is two inverse renumberings.  It is what the method promises: of a file exactly
\* those that renumber are accepted, features ascend with ties in the old order, a shuffle
\* draws evenly, and no computed order is refused.
MapIsExact ==
  /\ outcome = "built" =>
       /\ \A d \in Ids : oldToNew[d] \in Ids /\ newToOld[d] \in Ids
       /\ \A d \in Ids : newToOld[oldToNew[d]] = d /\ oldToNew[newToOld[d]] = d
       /\ method = "mapping" => Renumbers /\ \A i \in DOMAIN rows : oldToNew[rows[i][1]] = rows[i][2]
       /\ method = "feature" =>
            \A i, j \in Ids : i < j => Precedes(newToOld[i], newToOld[j])
  /\ outcome = "ordering" /\ method = "random" /\ line + 1 < Count => DrawsAreEven
  /\ outcome = "refused" =>
       \/ method = "mapping" /\ ~Renumbers
       \/ method = "feature" /\ Len(features) /= Count
=============================================================================
