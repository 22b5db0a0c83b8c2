------------------------------- MODULE SetProofs -------------------------------
(***************************************************************************)
(* Facts that several proofs rest on: about division, the k best entries   *)
(* of a heap, sums, and sorting.                                           *)
(***************************************************************************)
EXTENDS TopK, Sequences, FiniteSetsExt, Functions, FiniteSetTheorems, TLAPS

-----------------------------------------------------------------------------
\* Division with remainder.

LEMMA Division ==
  ASSUME NEW n \in Nat \ {0}, NEW g \in Nat
  PROVE  /\ g % n \in 0 .. n - 1
         /\ g \div n \in Nat
         /\ g = (g \div n) * n + (g % n)
OBVIOUS

LEMMA NotBelow ==
  ASSUME NEW n \in Nat \ {0}, NEW l \in Nat, NEW m \in Nat, NEW s \in 0 .. n - 1, NEW u \in 0 .. n - 1,
         l < m
  PROVE  l * n + s < m * n + u
<1>1. PICK k \in Nat : m = l + 1 + k
  <2>1. m - l - 1 \in Nat /\ m = l + 1 + (m - l - 1)
    OBVIOUS
  <2> QED BY <2>1
<1>2. m * n = l * n + n + k * n /\ k * n \in Nat /\ l * n \in Nat
  BY <1>1
<1> QED BY <1>2

LEMMA DivisionIsUnique ==
  ASSUME NEW n \in Nat \ {0}, NEW l \in Nat, NEW m \in Nat, NEW s \in 0 .. n - 1, NEW u \in 0 .. n - 1
  PROVE  /\ l * n + s = m * n + u => l = m /\ s = u
         /\ l * n + s < m * n + s <=> l < m
         /\ l * n + s \in Nat
<1>1. l * n + s \in Nat /\ m * n + u \in Nat /\ l * n \in Nat /\ m * n \in Nat /\ m * n + s \in Nat
  OBVIOUS
<1>2. CASE l < m
  BY <1>1, <1>2, NotBelow
<1>3. CASE m < l
  <2>1. m * n + u < l * n + s /\ m * n + s < l * n + s
    BY <1>3, NotBelow
  <2> QED BY <1>1, <1>3, <2>1
<1>4. CASE l = m
  BY <1>1, <1>4
<1> QED BY <1>2, <1>3, <1>4

-----------------------------------------------------------------------------
\* The bounded heap of retained hits.

HeapEntries == [doc : Int, score : Int]

\* The order of hits is a strict total order on entries of different documents.
LEMMA WorseIsTransitive ==
  ASSUME NEW e \in HeapEntries, NEW f \in HeapEntries, NEW g \in HeapEntries,
         Worse(e, f), Worse(f, g)
  PROVE  Worse(e, g)
  BY DEF HeapEntries, Worse

LEMMA WorseIsTotal ==
  ASSUME NEW e \in HeapEntries, NEW f \in HeapEntries, e.doc /= f.doc
  PROVE  Worse(e, f) \/ Worse(f, e)
  BY DEF HeapEntries, Worse

\* Offering a new document to a heap that holds the k best of the documents offered
\* before leaves the k best of all of them: TopK::consider never has to look again
\* at what it dropped.
LEMMA ConsiderKeepsBest ==
  ASSUME NEW offered \in SUBSET HeapEntries, IsFiniteSet(offered),
         NEW c \in HeapEntries, \A e \in offered : e.doc /= c.doc,
         NEW k \in Nat \ {0},
         NEW kept, NEW after,
         IsBest(kept, offered, k),
         Consider(c, kept, k, after)
  PROVE  IsBest(after, offered \union {c}, k)
<1>1. kept \subseteq offered /\ c \notin offered /\ c \notin kept
  BY DEF IsBest
<1>2. IsFiniteSet(kept) /\ Cardinality(kept) \in Nat
  BY <1>1, FS_Subset, FS_CardinalityType
<1>3. CASE ~IsFull(kept, k)
  <2>1. kept = offered /\ after = offered \union {c}
    BY <1>3 DEF IsBest, Consider
  <2>2. Cardinality(after) = Cardinality(kept) + 1
    BY <1>1, <1>2, <2>1, FS_AddElement
  <2>3. Cardinality(kept) <= k /\ Cardinality(kept) /= k
    BY <1>3 DEF IsBest, IsFull
  <2>4. Cardinality(after) <= k
    BY <1>2, <2>2, <2>3
  <2> QED BY <2>1, <2>4 DEF IsBest
<1>4. CASE IsFull(kept, k)
  <2>1. PICK worst \in kept :
          /\ IsWorst(worst, kept)
          /\ after = IF Worse(worst, c) THEN (kept \ {worst}) \union {c} ELSE kept
    BY <1>4 DEF Consider
  <2>2. \A f \in offered \ kept, e \in kept : Worse(f, e)
    BY DEF IsBest
  <2>3. \A e \in kept \ {worst} : Worse(worst, e)
    BY <2>1 DEF IsWorst
  <2>4. CASE Worse(worst, c)
    <3>1. after = (kept \ {worst}) \union {c}
      BY <2>1, <2>4
    <3>2. Cardinality(kept \ {worst}) = k - 1 /\ IsFiniteSet(kept \ {worst})
      BY <1>2, <1>4, <2>1, FS_RemoveElement DEF IsFull
    <3>3. Cardinality(after) = k
      <4>1. Cardinality(after) = Cardinality(kept \ {worst}) + 1
        BY <1>1, <3>1, <3>2, FS_AddElement
      <4> QED BY <3>2, <4>1
    <3>4. ASSUME NEW e \in after, NEW f \in (offered \union {c}) \ after
          PROVE  Worse(f, e)
      <4>1. f = worst \/ f \in offered \ kept
        BY <3>1, <3>4
      <4>2. CASE e = c
        BY <1>1, <2>1, <2>2, <2>4, <4>1, <4>2, WorseIsTransitive
      <4>3. CASE e \in kept \ {worst}
        BY <2>2, <2>3, <4>1, <4>3
      <4> QED BY <3>1, <3>4, <4>2, <4>3
    <3>5. after \subseteq offered \union {c}
      BY <1>1, <3>1
    <3> QED BY <3>3, <3>4, <3>5 DEF IsBest, IsFull
  <2>5. CASE ~Worse(worst, c)
    <3>1. after = kept /\ Worse(c, worst)
      BY <1>1, <2>1, <2>5, WorseIsTotal
    <3>2. \A e \in kept : Worse(c, e)
      BY <1>1, <2>1, <2>3, <3>1, WorseIsTransitive
    <3> QED BY <1>1, <1>4, <2>2, <3>1, <3>2 DEF IsBest, IsFull
  <2> QED BY <2>4, <2>5
<1> QED BY <1>3, <1>4

\* A score that is below the threshold stays below it, whatever is offered later: the
\* threshold never falls.
LEMMA ThresholdGrows ==
  ASSUME NEW kept \in SUBSET HeapEntries, IsFiniteSet(kept),
         NEW c \in HeapEntries, c \notin kept,
         NEW k \in Nat \ {0}, NEW bound \in Int, NEW after,
         BelowThreshold(bound, kept, k),
         Consider(c, kept, k, after)
  PROVE  BelowThreshold(bound, after, k)
<1>1. Cardinality(kept) = k /\ \A e \in kept : bound < e.score
  BY DEF BelowThreshold, IsFull
<1>2. PICK worst \in kept : after = IF Worse(worst, c) THEN (kept \ {worst}) \union {c} ELSE kept
  BY <1>1 DEF Consider, IsFull
<1>3. CASE Worse(worst, c)
  <2>1. bound < c.score
    BY <1>1, <1>2, <1>3 DEF Worse, HeapEntries
  <2>2. Cardinality(kept \ {worst}) = k - 1 /\ IsFiniteSet(kept \ {worst})
    BY <1>1, <1>2, FS_RemoveElement
  <2>3. Cardinality(after) = k
    <3>1. Cardinality(after) = Cardinality(kept \ {worst}) + 1
      BY <1>2, <1>3, <2>2, FS_AddElement
    <3> QED BY <2>2, <3>1
  <2> QED BY <1>1, <1>2, <1>3, <2>1, <2>3 DEF BelowThreshold, IsFull
<1>4. CASE ~Worse(worst, c)
  BY <1>2, <1>4
<1> QED BY <1>3, <1>4

\* The best of what was offered are the best of all, if the rest is below the threshold.
LEMMA BestWithoutLosers ==
  ASSUME NEW best, NEW offered, NEW more, NEW k \in Nat,
         IsBest(best, offered, k), offered \subseteq more,
         more \subseteq HeapEntries,
         \A f \in more \ offered : BelowThreshold(f.score, best, k)
  PROVE  IsBest(best, more, k)
<1>1. ASSUME NEW e \in best, NEW f \in more \ best PROVE Worse(f, e)
  BY <1>1 DEF IsBest, BelowThreshold, Worse
<1>2. best = more \/ IsFull(best, k)
  BY DEF IsBest, BelowThreshold
<1> QED BY <1>1, <1>2 DEF IsBest

\* HeapEntries renamed in an order-preserving way rank as they did.
Renames(name, offered, named) ==
  /\ name \in [offered -> named]
  /\ \A f \in named : \E e \in offered : name[e] = f
  /\ \A e, f \in offered : name[e] = name[f] => e = f
  /\ \A e, f \in offered : Worse(e, f) <=> Worse(name[e], name[f])

Renamed(name, entries) == {name[e] : e \in entries}

LEMMA BestOfRenamed ==
  ASSUME NEW offered, IsFiniteSet(offered), NEW named, NEW k \in Nat,
         NEW name, Renames(name, offered, named),
         NEW best, IsBest(best, offered, k)
  PROVE  IsBest(Renamed(name, best), named, k)
<1> USE DEF Renames, Renamed
<1> DEFINE after == Renamed(name, best)
           restricted == [e \in best |-> name[e]]
<1>1. best \subseteq offered /\ IsFiniteSet(best)
  BY FS_Subset DEF IsBest
<1>2. Cardinality(after) = Cardinality(best)
  <2>1. restricted \in Bijection(best, after)
    BY <1>1 DEF Bijection, Injection, Surjection, IsInjective
  <2>2. ExistsBijection(best, after)
    BY <2>1 DEF ExistsBijection
  <2> HIDE DEF after
  <2> QED BY <1>1, <2>2, FS_Bijection
<1>3. after \subseteq named
  BY <1>1
<1>4. Cardinality(after) <= k
  BY <1>2 DEF IsBest
<1>5. after = named \/ IsFull(after, k)
  BY <1>2 DEF IsBest, IsFull
<1>6. ASSUME NEW e \in after, NEW f \in named \ after PROVE Worse(f, e)
  <2>1. PICK x \in best : e = name[x]
    OBVIOUS
  <2>2. PICK y \in offered : f = name[y]
    OBVIOUS
  <2>3. y \in offered \ best
    BY <2>2
  <2> QED BY <1>1, <2>1, <2>2, <2>3 DEF IsBest
<1> QED BY <1>3, <1>4, <1>5, <1>6 DEF IsBest

\* A limit no smaller than the number of hits is no limit.
LEMMA BestUnderLimit ==
  ASSUME NEW offered, IsFiniteSet(offered), NEW k \in Nat, NEW m \in Nat,
         Cardinality(offered) <= m,
         NEW best, IsBest(best, offered, IF k <= m THEN k ELSE m)
  PROVE  IsBest(best, offered, k)
<1>1. CASE k <= m
  BY <1>1
<1>2. CASE ~ (k <= m)
  <2>1. IsBest(best, offered, m)
    BY <1>2
  <2>2. best \subseteq offered /\ IsFiniteSet(best) /\ Cardinality(best) \in Nat
        /\ Cardinality(offered) \in Nat
    BY <2>1, FS_Subset, FS_CardinalityType DEF IsBest
  <2>3. best = offered
    <3>1. CASE IsFull(best, m)
      <4>1. Cardinality(best) <= Cardinality(offered)
        BY <2>2, FS_Subset
      <4>2. Cardinality(best) = Cardinality(offered)
        BY <2>2, <3>1, <4>1 DEF IsFull
      <4> QED BY <2>2, <4>2, FS_Subset
    <3> QED BY <2>1, <3>1 DEF IsBest
  <2>4. Cardinality(best) <= k
    BY <1>2, <2>1, <2>2 DEF IsBest
  <2> QED BY <2>3, <2>4 DEF IsBest
<1> QED BY <1>1, <1>2

\* What the parts dropped needs no second look: the best of the entries kept are the
\* best of all when each entry dropped is worse than k entries kept.
LEMMA BestOfKept ==
  ASSUME NEW offered \in SUBSET HeapEntries, IsFiniteSet(offered), NEW kept \in SUBSET offered,
         NEW k \in Nat,
         \A f \in offered \ kept : \E B \in SUBSET kept :
            Cardinality(B) = k /\ \A e \in B : Worse(f, e),
         NEW best, IsBest(best, kept, k)
  PROVE  IsBest(best, offered, k)
<1>1. /\ IsFiniteSet(kept) /\ best \subseteq kept /\ IsFiniteSet(best)
      /\ Cardinality(best) \in Nat /\ Cardinality(kept) \in Nat
  BY FS_Subset, FS_CardinalityType DEF IsBest
<1>2. ASSUME NEW e \in best, NEW f \in offered \ best PROVE Worse(f, e)
  <2>1. CASE f \in kept
    BY <2>1 DEF IsBest
  <2>2. CASE f \notin kept
    <3>1. PICK B \in SUBSET kept : Cardinality(B) = k /\ \A b \in B : Worse(f, b)
      BY <2>2
    <3>2. CASE e \in B
      BY <3>1, <3>2
    <3>3. CASE e \notin B
      <4>1. ~ (B \subseteq best)
        <5> SUFFICES ASSUME B \subseteq best PROVE FALSE
          OBVIOUS
        <5>1. Cardinality(B) <= Cardinality(best) /\ (Cardinality(best) = Cardinality(B) => best = B)
          BY <1>1, FS_Subset
        <5>2. Cardinality(best) <= k
          BY DEF IsBest
        <5> QED BY <1>1, <3>1, <3>3, <5>1, <5>2
      <4>2. PICK b \in B : b \notin best
        BY <4>1
      <4>3. Worse(f, b) /\ Worse(b, e)
        BY <3>1, <4>2 DEF IsBest
      <4>4. f \in HeapEntries /\ b \in HeapEntries /\ e \in HeapEntries
        BY <1>1, <4>2
      <4> QED BY <4>3, <4>4, WorseIsTransitive
    <3> QED BY <3>2, <3>3
  <2> QED BY <2>1, <2>2
<1>3. best = offered \/ IsFull(best, k)
  <2>1. CASE kept = offered
    BY <2>1 DEF IsBest
  <2>2. CASE kept /= offered
    <3>1. PICK f \in offered : f \notin kept
      BY <2>2
    <3>2. PICK B \in SUBSET kept : Cardinality(B) = k
      BY <3>1
    <3>3. CASE best = kept
      <4>1. Cardinality(B) <= Cardinality(kept)
        BY <1>1, FS_Subset
      <4> QED BY <1>1, <3>2, <3>3, <4>1 DEF IsBest, IsFull
    <3> QED BY <3>3 DEF IsBest
  <2> QED BY <2>1, <2>2
<1> QED BY <1>1, <1>2, <1>3 DEF IsBest

-----------------------------------------------------------------------------
\* Least and greatest elements.

LEMMA MaxOfFinite ==
  ASSUME NEW S \in SUBSET Int, IsFiniteSet(S), S /= {}
  PROVE  Max(S) \in S /\ \A x \in S : x <= Max(S)
<1> DEFINE Bare == {T \in SUBSET S : T /= {} /\ ~ \E m \in T : \A x \in T : x <= m}
<1>1. CASE Bare = {}
  <2>1. \E m \in S : \A x \in S : x <= m
    BY <1>1
  <2> QED BY <2>1 DEF Max
<1>2. CASE Bare /= {}
  <2>1. Bare \subseteq FiniteSubsetsOf(S)
    BY FS_FiniteSubsetsOfFinite
  <2>2. PICK T \in Bare : \A U \in Bare : ~ (<<U, T>> \in StrictSubsetOrdering(S))
    BY <1>2, <2>1, FS_StrictSubsetOrderingWellFounded, WFMin
  <2>3. PICK x \in T : TRUE
    OBVIOUS
  <2>4. T \ {x} \in SUBSET S /\ T \ {x} /= T
    BY <2>3
  <2>5. T \ {x} \notin Bare
    BY <2>2, <2>3, <2>4 DEF StrictSubsetOrdering
  <2>6. CASE T \ {x} = {}
    <3>1. \A y \in T : y <= x
      BY <2>3, <2>6
    <3> QED BY <2>3, <3>1
  <2>7. CASE T \ {x} /= {}
    <3>1. PICK m \in T \ {x} : \A y \in T \ {x} : y <= m
      BY <2>4, <2>5, <2>7
    <3>2. CASE m <= x
      <4>1. \A y \in T : y <= x
        BY <2>3, <3>1, <3>2
      <4> QED BY <2>3, <4>1
    <3>3. CASE ~ (m <= x)
      <4>1. \A y \in T : y <= m
        BY <2>3, <3>1, <3>3
      <4> QED BY <3>1, <4>1
    <3> QED BY <3>2, <3>3
  <2> QED BY <2>6, <2>7
<1> QED BY <1>1, <1>2

LEMMA MinOfFinite ==
  ASSUME NEW S \in SUBSET Int, IsFiniteSet(S), S /= {}
  PROVE  Min(S) \in S /\ \A x \in S : Min(S) <= x
<1> DEFINE N == {0 - x : x \in S}
<1>1. N \in SUBSET Int /\ N /= {} /\ IsFiniteSet(N)
  <2>1. [x \in S |-> 0 - x] \in Surjection(S, N)
    BY DEF Surjection
  <2>2. IsFiniteSet(N)
    BY <2>1, FS_Surjection
  <2>3. N \in SUBSET Int
    OBVIOUS
  <2> QED BY <2>2, <2>3
<1>2. Max(N) \in N /\ \A y \in N : y <= Max(N)
  BY <1>1, MaxOfFinite
<1>3. PICK m \in S : Max(N) = 0 - m
  BY <1>2
<1>4. \A x \in S : m <= x
  <2>1. TAKE x \in S
  <2>2. 0 - x <= 0 - m /\ x \in Int /\ m \in Int
    BY <1>2, <1>3
  <2> QED BY <2>2
<1> QED BY <1>4 DEF Min

\* Every set of naturals that is not empty has a least element.
LEMMA LeastNatural ==
  ASSUME NEW S \in SUBSET Nat, S /= {}
  PROVE  \E n \in S : \A m \in S : n <= m
<1>1. PICK k \in S : TRUE
  OBVIOUS
<1> DEFINE T == S \intersect (0 .. k)
<1>2. IsFiniteSet(T)
  <2>1. IsFiniteSet(0 .. k)
    BY <1>1, FS_Interval
  <2> QED BY <2>1, FS_Subset
<1>3. T \in SUBSET Int /\ T /= {}
  BY <1>1
<1>4. Min(T) \in T /\ \A x \in T : Min(T) <= x
  BY <1>2, <1>3, MinOfFinite
<1>5. \A m \in S : Min(T) <= m
  <2>1. TAKE m \in S
  <2>2. CASE m <= k
    BY <1>4, <2>2
  <2>3. CASE ~(m <= k)
    <3>1. Min(T) <= k /\ Min(T) \in Nat
      BY <1>4
    <3> QED BY <2>3, <3>1
  <2> QED BY <2>2, <2>3
<1> QED BY <1>4, <1>5

-----------------------------------------------------------------------------
\* Sums over finite sets, in any order.

Picked(T) == CHOOSE x \in T : TRUE

\* The recursion of SumFunction.
AddsUp(sum, f, S) ==
  sum = [T \in SUBSET S |->
           IF T = {} THEN 0 ELSE f[Picked(T)] + sum[T \ {Picked(T)}]]

LEMMA SumIsRecursive ==
  ASSUME NEW f
  PROVE  SumFunction(f) = (CHOOSE sum : AddsUp(sum, f, DOMAIN f))[DOMAIN f]
BY DEF SumFunction, SumFunctionOnSet, FoldFunctionOnSet, MapThenFoldSet, AddsUp, Picked

\* A set of subsets of a finite set in which each has a smaller one is empty.
LEMMA NoLeast ==
  ASSUME NEW S, IsFiniteSet(S), NEW Bad \in SUBSET (SUBSET S),
         \A T \in Bad : \E U \in Bad : U \subseteq T /\ U /= T
  PROVE  Bad = {}
<1> SUFFICES ASSUME Bad /= {} PROVE FALSE
  OBVIOUS
<1>1. Bad \subseteq FiniteSubsetsOf(S)
  BY FS_FiniteSubsetsOfFinite
<1>2. PICK T \in Bad : \A U \in Bad : ~ (<<U, T>> \in StrictSubsetOrdering(S))
  BY <1>1, FS_StrictSubsetOrderingWellFounded, WFMin
<1>3. PICK U \in Bad : U \subseteq T /\ U /= T
  OBVIOUS
<1> QED BY <1>2, <1>3 DEF StrictSubsetOrdering

LEMMA OnlyOneSum ==
  ASSUME NEW S, IsFiniteSet(S), NEW f, NEW g, NEW A, NEW B,
         S \subseteq A, S \subseteq B, \A x \in S : f[x] = g[x],
         NEW sum, NEW total, AddsUp(sum, f, A), AddsUp(total, g, B)
  PROVE  sum[S] = total[S]
<1> DEFINE Bad == {T \in SUBSET S : sum[T] /= total[T]}
<1>1. ASSUME NEW T \in Bad PROVE T \ {Picked(T)} \in Bad /\ T \ {Picked(T)} /= T
  <2>1. T /= {}
    BY DEF AddsUp
  <2>2. Picked(T) \in T
    BY <2>1 DEF Picked
  <2>3. sum[T] = f[Picked(T)] + sum[T \ {Picked(T)}] /\ total[T] = g[Picked(T)] + total[T \ {Picked(T)}]
    BY <2>1 DEF AddsUp
  <2> QED BY <2>2, <2>3
<1>2. Bad = {}
  <2>1. Bad \in SUBSET (SUBSET S) /\ \A T \in Bad : \E U \in Bad : U \subseteq T /\ U /= T
    BY <1>1
  <2> HIDE DEF Bad
  <2> QED BY <2>1, NoLeast
<1> QED BY <1>2

LEMMA SumExists ==
  ASSUME NEW S, IsFiniteSet(S), NEW f
  PROVE  \E sum : AddsUp(sum, f, S)
<1> DEFINE Bad == {T \in SUBSET S : ~ \E sum : AddsUp(sum, f, T)}
           SumOf(T) == CHOOSE sum : AddsUp(sum, f, T)
<1>1. ASSUME NEW T \in Bad PROVE \E U \in Bad : U \subseteq T /\ U /= T
  <2> SUFFICES ASSUME \A U \in SUBSET T : U /= T => \E sum : AddsUp(sum, f, U)
               PROVE  \E sum : AddsUp(sum, f, T)
    OBVIOUS
  <2>1. \A U \in SUBSET T : U /= T => AddsUp(SumOf(U), f, U)
    OBVIOUS
  <2> DEFINE sum == [U \in SUBSET T |->
                      IF U = {} THEN 0
                      ELSE f[Picked(U)] + SumOf(U \ {Picked(U)})[U \ {Picked(U)}]]
  <2>2. ASSUME NEW U \in SUBSET T, U /= {} PROVE Picked(U) \in U
    BY <2>2 DEF Picked
  <2>3. ASSUME NEW U \in SUBSET T, U /= T PROVE sum[U] = SumOf(U)[U]
    <3>1. AddsUp(SumOf(U), f, U)
      BY <2>1, <2>3
    <3>2. CASE U = {}
      <4>1. SumOf(U)[U] = 0
        BY <3>1, <3>2 DEF AddsUp
      <4> QED BY <3>2, <4>1
    <3>3. CASE U /= {}
      <4> DEFINE V == U \ {Picked(U)}
      <4>1. V \in SUBSET T /\ V /= T /\ V \in SUBSET U
        BY <2>2, <3>3
      <4>2. AddsUp(SumOf(V), f, V)
        BY <2>1, <4>1
      <4>3. SumOf(U)[V] = SumOf(V)[V]
        <5>1. IsFiniteSet(V)
          BY <4>1, FS_Subset
        <5> HIDE DEF V, SumOf
        <5> QED BY <3>1, <4>1, <4>2, <5>1, OnlyOneSum
      <4>4. SumOf(U)[U] = f[Picked(U)] + SumOf(U)[V]
        <5> HIDE DEF SumOf
        <5> QED BY <3>1, <3>3 DEF AddsUp
      <4>5. sum[U] = f[Picked(U)] + SumOf(V)[V]
        BY <3>3
      <4> QED BY <4>3, <4>4, <4>5
    <3> QED BY <3>2, <3>3
  <2>4. ASSUME NEW U \in SUBSET T, U /= {}
        PROVE  sum[U \ {Picked(U)}] = SumOf(U \ {Picked(U)})[U \ {Picked(U)}]
    BY <2>2, <2>3, <2>4
  <2>5. AddsUp(sum, f, T)
    <3>1. sum = [U \in SUBSET T |->
                  IF U = {} THEN 0 ELSE f[Picked(U)] + sum[U \ {Picked(U)}]]
      <4> HIDE DEF SumOf
      <4> QED BY <2>4
    <3> HIDE DEF sum
    <3> QED BY <3>1 DEF AddsUp
  <2> QED BY <2>5
<1>2. Bad = {}
  <2>1. Bad \in SUBSET (SUBSET S) /\ \A T \in Bad : \E U \in Bad : U \subseteq T /\ U /= T
    BY <1>1
  <2> HIDE DEF Bad
  <2> QED BY <2>1, NoLeast
<1> QED BY <1>2

\* A sum is one of its summands and the sum of the others, whichever it is.
LEMMA SumTakesAny ==
  ASSUME NEW S, IsFiniteSet(S), NEW f, \A x \in S : f[x] \in Int, NEW A, S \subseteq A,
         NEW sum, AddsUp(sum, f, A)
  PROVE  /\ sum[S] \in Int
         /\ \A x \in S : sum[S] = f[x] + sum[S \ {x}]
<1> DEFINE Bad == {T \in SUBSET S : ~ (sum[T] \in Int /\ \A x \in T : sum[T] = f[x] + sum[T \ {x}])}
<1>1. ASSUME NEW T \in Bad PROVE \E U \in Bad : U \subseteq T /\ U /= T
  <2> SUFFICES ASSUME \A U \in SUBSET T : U /= T =>
                        sum[U] \in Int /\ \A x \in U : sum[U] = f[x] + sum[U \ {x}]
               PROVE  sum[T] \in Int /\ \A x \in T : sum[T] = f[x] + sum[T \ {x}]
    OBVIOUS
  <2>1. CASE T = {}
    <3>1. sum[T] = 0
      BY <2>1 DEF AddsUp
    <3> QED BY <2>1, <3>1
  <2>2. CASE T /= {}
    <3> DEFINE p == Picked(T)
    <3>1. p \in T
      BY <2>2 DEF Picked
    <3>2. sum[T] = f[p] + sum[T \ {p}]
      BY <2>2 DEF AddsUp
    <3> HIDE DEF p
    <3>3. sum[T \ {p}] \in Int /\ f[p] \in Int
      BY <3>1
    <3>4. ASSUME NEW x \in T, x /= p PROVE sum[T] = f[x] + sum[T \ {x}]
      <4> DEFINE W == (T \ {p}) \ {x}
      <4>1. W = (T \ {x}) \ {p}
        OBVIOUS
      <4>2. sum[T \ {p}] = f[x] + sum[W]
        BY <3>1, <3>4
      <4>3. sum[T \ {x}] = f[p] + sum[(T \ {x}) \ {p}]
        BY <3>1, <3>4
      <4>4. sum[W] \in Int /\ f[x] \in Int
        BY <3>1
      <4>5. sum[T \ {x}] = f[p] + sum[W]
        BY <4>1, <4>3
      <4> HIDE DEF W
      <4> QED BY <3>2, <3>3, <4>2, <4>4, <4>5
    <3>5. sum[T] \in Int
      BY <3>2, <3>3
    <3>6. ASSUME NEW x \in T PROVE sum[T] = f[x] + sum[T \ {x}]
      BY <3>2, <3>4
    <3> QED BY <3>5, <3>6
  <2> QED BY <2>1, <2>2
<1>2. Bad = {}
  <2>1. Bad \in SUBSET (SUBSET S) /\ \A T \in Bad : \E U \in Bad : U \subseteq T /\ U /= T
    BY <1>1
  <2> HIDE DEF Bad
  <2> QED BY <2>1, NoLeast
<1> QED BY <1>2

LEMMA SumOfMore ==
  ASSUME NEW S, IsFiniteSet(S), NEW x, x \notin S, NEW f,
         DOMAIN f = S \union {x}, \A y \in S \union {x} : f[y] \in Int,
         NEW g, DOMAIN g = S, \A y \in S : g[y] = f[y]
  PROVE  /\ SumFunction(g) \in Int
         /\ SumFunction(f) = SumFunction(g) + f[x]
<1> DEFINE A == S \union {x}
           sum == CHOOSE s : AddsUp(s, f, A)
           total == CHOOSE s : AddsUp(s, g, S)
<1>1. IsFiniteSet(A)
  BY FS_AddElement
<1>2. AddsUp(sum, f, A) /\ AddsUp(total, g, S)
  BY <1>1, SumExists
<1>3. SumFunction(f) = sum[A] /\ SumFunction(g) = total[S]
  BY SumIsRecursive
<1>4. A \ {x} = S /\ S \subseteq A /\ x \in A /\ \A y \in A : f[y] \in Int
  OBVIOUS
<1> HIDE DEF sum, total, A
<1>5. sum[A] = f[x] + sum[S]
  BY <1>1, <1>2, <1>4, SumTakesAny
<1>6. sum[S] = total[S]
  BY <1>2, <1>4, OnlyOneSum
<1>7. total[S] \in Int /\ f[x] \in Int
  BY <1>2, SumTakesAny
<1> QED BY <1>3, <1>5, <1>6, <1>7

\* Sums of sums, and sums in which some summands are zero.
LEMMA SumOfSums ==
  ASSUME NEW S, IsFiniteSet(S), NEW f, NEW g, NEW h, DOMAIN f = S, DOMAIN g = S, DOMAIN h = S,
         \A x \in S : f[x] \in Int /\ g[x] \in Int /\ h[x] = f[x] + g[x]
  PROVE  SumFunction(h) = SumFunction(f) + SumFunction(g)
<1> DEFINE s == CHOOSE t : AddsUp(t, f, S)
           u == CHOOSE t : AddsUp(t, g, S)
           v == CHOOSE t : AddsUp(t, h, S)
<1>1. AddsUp(s, f, S) /\ AddsUp(u, g, S) /\ AddsUp(v, h, S)
  BY SumExists
<1>2. SumFunction(f) = s[S] /\ SumFunction(g) = u[S] /\ SumFunction(h) = v[S]
  BY SumIsRecursive
<1> HIDE DEF s, u, v
<1>3. \A T \in SUBSET S : s[T] \in Int /\ u[T] \in Int
  <2> TAKE T \in SUBSET S
  <2>1. IsFiniteSet(T)
    BY FS_Subset
  <2> QED BY <1>1, <2>1, SumTakesAny
<1> DEFINE Bad == {T \in SUBSET S : v[T] /= s[T] + u[T]}
<1>4. ASSUME NEW T \in Bad PROVE T \ {Picked(T)} \in Bad /\ T \ {Picked(T)} /= T
  <2> DEFINE p == Picked(T)
             U == T \ {p}
  <2>1. T /= {}
    BY <1>1 DEF AddsUp
  <2>2. p \in T
    BY <2>1 DEF Picked
  <2>3. s[T] = f[p] + s[U] /\ u[T] = g[p] + u[U] /\ v[T] = h[p] + v[U]
    BY <1>1, <2>1 DEF AddsUp
  <2>4. U \in SUBSET S /\ U /= T /\ p \in S
    BY <2>2
  <2>5. f[p] \in Int /\ g[p] \in Int /\ h[p] = f[p] + g[p] /\ s[U] \in Int /\ u[U] \in Int
    BY <1>3, <2>4
  <2>6. v[T] /= s[T] + u[T]
    OBVIOUS
  <2> HIDE DEF p, U
  <2>7. v[U] /= s[U] + u[U]
    BY <2>3, <2>5, <2>6
  <2> QED BY <2>4, <2>7 DEF p, U
<1>5. Bad = {}
  <2>1. Bad \in SUBSET (SUBSET S) /\ \A T \in Bad : \E U \in Bad : U \subseteq T /\ U /= T
    BY <1>4
  <2> HIDE DEF Bad
  <2> QED BY <2>1, NoLeast
<1> QED BY <1>2, <1>5

LEMMA SumOfPart ==
  ASSUME NEW S, IsFiniteSet(S), NEW A \in SUBSET S, NEW f, NEW g, DOMAIN f = S, DOMAIN g = A,
         \A x \in S : f[x] \in Int,
         \A x \in A : f[x] = g[x],
         \A x \in S \ A : f[x] = 0
  PROVE  SumFunction(f) = SumFunction(g)
<1> DEFINE s == CHOOSE t : AddsUp(t, f, S)
           u == CHOOSE t : AddsUp(t, g, A)
<1>0. IsFiniteSet(A)
  BY FS_Subset
<1>1. AddsUp(s, f, S) /\ AddsUp(u, g, A)
  BY <1>0, SumExists
<1>2. SumFunction(f) = s[S] /\ SumFunction(g) = u[A]
  BY SumIsRecursive
<1> HIDE DEF s, u
<1>3. ASSUME NEW T \in SUBSET S
      PROVE  s[T] \in Int /\ \A x \in T : s[T] = f[x] + s[T \ {x}]
  <2>1. IsFiniteSet(T) /\ \A x \in T : f[x] \in Int
    BY FS_Subset
  <2> QED BY <1>1, <2>1, SumTakesAny
<1>4. ASSUME NEW T \in SUBSET A
      PROVE  u[T] \in Int /\ \A x \in T : u[T] = g[x] + u[T \ {x}]
  <2>1. IsFiniteSet(T) /\ \A x \in T : g[x] \in Int
    BY <1>0, FS_Subset
  <2> QED BY <1>1, <2>1, SumTakesAny
<1> DEFINE Bad == {T \in SUBSET S : s[T] /= u[T \intersect A]}
<1>5. ASSUME NEW T \in Bad PROVE \E U \in Bad : U \subseteq T /\ U /= T
  <2>1. T /= {}
    BY <1>1 DEF AddsUp
  <2>2. PICK x \in T : TRUE
    BY <2>1
  <2> DEFINE U == T \ {x}
  <2>3. s[T] = f[x] + s[U] /\ U \in SUBSET S /\ s[U] \in Int /\ U /= T /\ s[T] /= u[T \intersect A]
    BY <1>3
  <2>4. s[U] /= u[U \intersect A]
    <3>1. CASE x \in A
      <4>1. (T \intersect A) \ {x} = U \intersect A /\ x \in T \intersect A
        BY <3>1
      <4>2. u[T \intersect A] = g[x] + u[U \intersect A] /\ u[U \intersect A] \in Int
        <5> DEFINE W == T \intersect A
        <5>1. W \in SUBSET A /\ x \in W /\ W \ {x} \in SUBSET A /\ W \ {x} = U \intersect A
          BY <4>1
        <5> HIDE DEF W
        <5>2. u[W] = g[x] + u[W \ {x}] /\ u[W \ {x}] \in Int
          BY <1>4, <5>1
        <5> QED BY <5>1, <5>2 DEF W
      <4> HIDE DEF U
      <4> QED BY <2>3, <3>1, <4>2
    <3>2. CASE x \notin A
      <4>1. T \intersect A = U \intersect A /\ f[x] = 0
        BY <3>2
      <4> HIDE DEF U
      <4> QED BY <2>3, <4>1
    <3> QED BY <3>1, <3>2
  <2>5. U \in Bad /\ U \subseteq T
    BY <2>3, <2>4
  <2> QED BY <2>3, <2>5
<1>6. Bad = {}
  <2>1. Bad \in SUBSET (SUBSET S) /\ \A T \in Bad : \E U \in Bad : U \subseteq T /\ U /= T
    BY <1>5
  <2> HIDE DEF Bad
  <2> QED BY <2>1, NoLeast
<1>7. S \intersect A = A
  OBVIOUS
<1> QED BY <1>2, <1>6, <1>7

LEMMA SumOfNone ==
  ASSUME NEW f, DOMAIN f = {}
  PROVE  SumFunction(f) = 0
<1> DEFINE sum == CHOOSE s : AddsUp(s, f, {})
<1>1. AddsUp(sum, f, {})
  BY FS_EmptySet, SumExists
<1> HIDE DEF sum
<1>2. sum[{}] = 0
  BY <1>1 DEF AddsUp
<1> QED BY <1>2, SumIsRecursive DEF sum

\* Nothing but zeros add up to zero.
LEMMA SumOfZeros ==
  ASSUME NEW S, IsFiniteSet(S)
  PROVE  SumFunction([x \in S |-> 0]) = 0
<1> DEFINE f == [x \in S |-> 0]
           sum == CHOOSE s : AddsUp(s, f, S)
           Bad == {T \in SUBSET S : sum[T] /= 0}
<1>1. AddsUp(sum, f, S)
  <2> HIDE DEF f
  <2> QED BY SumExists
<1> HIDE DEF sum
<1>2. ASSUME NEW T \in Bad PROVE T \ {Picked(T)} \in Bad /\ T \ {Picked(T)} /= T
  <2>1. T /= {}
    BY <1>1 DEF AddsUp
  <2>2. Picked(T) \in T
    BY <2>1 DEF Picked
  <2>3. sum[T] = f[Picked(T)] + sum[T \ {Picked(T)}]
    BY <1>1, <2>1 DEF AddsUp
  <2>4. f[Picked(T)] = 0
    BY <2>2
  <2> QED BY <2>2, <2>3, <2>4
<1>3. Bad = {}
  <2>1. Bad \in SUBSET (SUBSET S) /\ \A T \in Bad : \E U \in Bad : U \subseteq T /\ U /= T
    BY <1>2
  <2> HIDE DEF Bad
  <2> QED BY <2>1, NoLeast
<1>4. sum[S] = 0
  BY <1>3
<1>5. DOMAIN f = S
  OBVIOUS
<1> HIDE DEF f
<1>6. SumFunction(f) = sum[S]
  BY <1>5, SumIsRecursive DEF sum
<1> QED BY <1>4, <1>6 DEF f

\* A summand that grows makes the sum grow by as much.
LEMMA SumOfUpdated ==
  ASSUME NEW S, IsFiniteSet(S), NEW x \in S, NEW v \in Int,
         NEW f, DOMAIN f = S, \A y \in S : f[y] \in Int,
         NEW g, DOMAIN g = S, \A y \in S \ {x} : g[y] = f[y], g[x] = f[x] + v
  PROVE  SumFunction(g) = SumFunction(f) + v
<1> DEFINE R == S \ {x}
           h == [y \in R |-> f[y]]
<1>1. IsFiniteSet(R) /\ x \notin R /\ R \union {x} = S
  BY FS_Subset
<1>2. SumFunction(h) \in Int /\ SumFunction(f) = SumFunction(h) + f[x]
  BY <1>1, SumOfMore
<1>3. SumFunction(g) = SumFunction(h) + g[x]
  BY <1>1, SumOfMore
<1> QED BY <1>2, <1>3

\* No summand is more than a sum of naturals, and a smaller summand makes a smaller sum.
LEMMA SumOfNaturals ==
  ASSUME NEW S, IsFiniteSet(S), NEW f, DOMAIN f = S, \A x \in S : f[x] \in Nat
  PROVE  /\ SumFunction(f) \in Nat
         /\ \A x \in S : f[x] <= SumFunction(f)
<1> DEFINE sum == CHOOSE s : AddsUp(s, f, S)
           Bad == {T \in SUBSET S : sum[T] \notin Nat}
<1>1. AddsUp(sum, f, S) /\ SumFunction(f) = sum[S]
  BY SumExists, SumIsRecursive
<1> HIDE DEF sum
<1>2. ASSUME NEW T \in Bad PROVE T \ {Picked(T)} \in Bad /\ T \ {Picked(T)} /= T
  <2>1. T /= {}
    BY <1>1 DEF AddsUp
  <2>2. Picked(T) \in T
    BY <2>1 DEF Picked
  <2>3. sum[T] = f[Picked(T)] + sum[T \ {Picked(T)}] /\ f[Picked(T)] \in Nat
    BY <1>1, <2>1, <2>2 DEF AddsUp
  <2> QED BY <2>2, <2>3
<1>3. Bad = {}
  <2>1. Bad \in SUBSET (SUBSET S) /\ \A T \in Bad : \E U \in Bad : U \subseteq T /\ U /= T
    BY <1>2
  <2> HIDE DEF Bad
  <2> QED BY <2>1, NoLeast
<1>4. \A T \in SUBSET S : sum[T] \in Nat
  BY <1>3
<1>5. ASSUME NEW x \in S PROVE f[x] <= sum[S]
  <2> HIDE DEF Bad
  <2>1. sum[S] = f[x] + sum[S \ {x}]
    <3>1. (\A y \in S : f[y] \in Int) /\ S \subseteq S
      OBVIOUS
    <3>2. AddsUp(sum, f, S)
      BY <1>1
    <3>3. \A y \in S : sum[S] = f[y] + sum[S \ {y}]
      BY ONLY <3>1, <3>2, SumTakesAny, IsFiniteSet(S)
    <3> QED BY <3>3
  <2>2. sum[S \ {x}] \in Nat /\ f[x] \in Nat
    BY <1>4
  <2> QED BY <2>1, <2>2
<1> QED BY <1>1, <1>4, <1>5

LEMMA SumOfLess ==
  ASSUME NEW S, IsFiniteSet(S), NEW f, NEW g, DOMAIN f = S, DOMAIN g = S,
         \A x \in S : f[x] \in Nat /\ g[x] \in Nat /\ f[x] <= g[x],
         NEW x \in S, f[x] < g[x]
  PROVE  SumFunction(f) + 1 <= SumFunction(g)
<1> DEFINE h == [y \in S |-> g[y] - f[y]]
<1>1. \A y \in S : h[y] \in Nat /\ g[y] = f[y] + h[y] /\ (y = x => h[y] >= 1)
  OBVIOUS
<1>2. DOMAIN h = S
  OBVIOUS
<1> HIDE DEF h
<1>3. SumFunction(g) = SumFunction(f) + SumFunction(h)
  BY <1>1, <1>2, SumOfSums
<1>4. SumFunction(f) \in Nat /\ SumFunction(h) \in Nat /\ SumFunction(h) >= 1
  BY <1>1, <1>2, SumOfNaturals
<1> QED BY <1>3, <1>4

\* A smaller function on fewer elements makes a sum that is not larger.
LEMMA SumOfFewer ==
  ASSUME NEW S, IsFiniteSet(S), NEW A \in SUBSET S, NEW f, NEW g, DOMAIN f = A, DOMAIN g = S,
         \A x \in S : g[x] \in Nat,
         \A x \in A : f[x] \in Nat /\ f[x] <= g[x]
  PROVE  SumFunction(f) <= SumFunction(g)
<1> DEFINE h == [x \in S |-> IF x \in A THEN f[x] ELSE 0]
           r == [x \in S |-> g[x] - h[x]]
<1>1. SumFunction(h) = SumFunction(f)
  <2>1. /\ DOMAIN h = S
        /\ \A x \in S : h[x] \in Int
        /\ \A x \in A : h[x] = f[x]
        /\ \A x \in S \ A : h[x] = 0
    OBVIOUS
  <2> HIDE DEF h
  <2> QED BY <2>1, SumOfPart
<1>2. \A x \in S : h[x] \in Nat /\ r[x] \in Nat /\ g[x] = h[x] + r[x]
  OBVIOUS
<1>3. DOMAIN h = S /\ DOMAIN r = S
  OBVIOUS
<1> HIDE DEF h, r
<1>4. SumFunction(g) = SumFunction(h) + SumFunction(r)
  BY <1>2, <1>3, SumOfSums
<1>5. SumFunction(h) \in Nat /\ SumFunction(r) \in Nat
  BY <1>2, <1>3, SumOfNaturals
<1> QED BY <1>1, <1>4, <1>5

-----------------------------------------------------------------------------
\* Sorting: the place of an element is the number of those before it.

StrictOrder(R, S) ==
  /\ \A a \in S : <<a, a>> \notin R
  /\ \A a, b, c \in S : <<a, b>> \in R /\ <<b, c>> \in R => <<a, c>> \in R
  /\ \A a, b \in S : a /= b => <<a, b>> \in R \/ <<b, a>> \in R

Place(R, S, d) == Cardinality({e \in S : <<e, d>> \in R})

LEMMA PlacesAscend ==
  ASSUME NEW S, IsFiniteSet(S), NEW R, StrictOrder(R, S)
  PROVE  /\ \A d \in S : Place(R, S, d) \in 0 .. Cardinality(S) - 1
         /\ \A a, b \in S : <<a, b>> \in R => Place(R, S, a) < Place(R, S, b)
<1> DEFINE before(d) == {e \in S : <<e, d>> \in R}
<1>1. \A d \in S : IsFiniteSet(before(d)) /\ Cardinality(before(d)) \in Nat
  BY FS_Subset, FS_CardinalityType
<1>2. Cardinality(S) \in Nat
  BY FS_CardinalityType
<1>3. ASSUME NEW d \in S PROVE Cardinality(before(d)) < Cardinality(S)
  <2>1. before(d) \in SUBSET S /\ before(d) /= S
    BY DEF StrictOrder
  <2> HIDE DEF before
  <2> QED BY <1>1, <1>2, <2>1, FS_Subset
<1>4. ASSUME NEW a \in S, NEW b \in S, <<a, b>> \in R
      PROVE  Cardinality(before(a)) < Cardinality(before(b))
  <2>1. before(a) \in SUBSET before(b) /\ before(a) /= before(b)
    BY <1>4 DEF StrictOrder
  <2> HIDE DEF before
  <2> QED BY <1>1, <2>1, FS_Subset
<1>5. \A d \in S : Place(R, S, d) = Cardinality(before(d))
  BY DEF Place
<1> HIDE DEF before
<1>6. \A d \in S : Place(R, S, d) \in 0 .. Cardinality(S) - 1
  BY <1>1, <1>2, <1>3, <1>5
<1>7. \A a, b \in S : <<a, b>> \in R => Place(R, S, a) < Place(R, S, b)
  BY <1>4, <1>5
<1> QED BY <1>6, <1>7

\* Every place is taken.
LEMMA PlaceTaken ==
  ASSUME NEW S, IsFiniteSet(S), NEW R, StrictOrder(R, S), NEW i \in 1 .. Cardinality(S)
  PROVE  \E d \in S : Place(R, S, d) = i - 1
<1> DEFINE n == Cardinality(S)
           rank == [d \in S |-> Place(R, S, d)]
<1>1. n \in Nat
  BY FS_CardinalityType
<1>2. rank \in [S -> 0 .. n - 1]
  BY PlacesAscend
<1>3. ASSUME NEW a \in S, NEW b \in S, rank[a] = rank[b] PROVE a = b
  <2>1. rank[a] \in Int /\ rank[b] \in Int /\ ~ (rank[a] < rank[b]) /\ ~ (rank[b] < rank[a])
    BY <1>1, <1>2, <1>3
  <2>2. <<a, b>> \notin R /\ <<b, a>> \notin R
    BY <2>1, PlacesAscend
  <2> QED BY <2>2 DEF StrictOrder
<1>4. rank \in Injection(S, 0 .. n - 1)
  BY <1>2, <1>3 DEF Injection, IsInjective
<1>5. IsFiniteSet(0 .. n - 1) /\ Cardinality(0 .. n - 1) = n
  <2> HIDE DEF n
  <2> QED BY <1>1, FS_Interval
<1>6. Cardinality(0 .. n - 1) = Cardinality(S) /\ i \in 1 .. n
  BY <1>5
<1> HIDE DEF rank, n
<1>7. rank \in Surjection(S, 0 .. n - 1) /\ i - 1 \in 0 .. n - 1
  BY <1>1, <1>4, <1>5, <1>6, FS_Injection
<1>8. PICK d \in S : rank[d] = i - 1
  BY <1>7 DEF Surjection
<1> QED BY <1>8 DEF rank, n

\* The same, for every place at once.
LEMMA EveryPlaceTaken ==
  ASSUME NEW S, IsFiniteSet(S), NEW R, StrictOrder(R, S)
  PROVE  \A i \in 1 .. Cardinality(S) : \E d \in S : Place(R, S, d) = i - 1
BY PlaceTaken

\* A sequence in which every element has its rank is the set in ascending order.
LEMMA RankedIsSorted ==
  ASSUME NEW S, IsFiniteSet(S), NEW R, StrictOrder(R, S), NEW n, n = Cardinality(S), NEW seq,
         \A i \in 1 .. n : seq[i] \in S /\ Place(R, S, seq[i]) = i - 1
  PROVE  /\ \A i, j \in 1 .. n : i < j => <<seq[i], seq[j]>> \in R
         /\ \A i, j \in 1 .. n : seq[i] = seq[j] => i = j
         /\ {seq[i] : i \in 1 .. n} = S
<1>1. n \in Nat
  BY FS_CardinalityType
<1>2. \A i, j \in 1 .. n : seq[i] = seq[j] => i = j
  BY <1>1
<1>3. ASSUME NEW i \in 1 .. n, NEW j \in 1 .. n, i < j PROVE <<seq[i], seq[j]>> \in R
  <2>1. seq[i] /= seq[j]
    BY <1>2, <1>3
  <2>2. ~ (<<seq[j], seq[i]>> \in R)
    <3> SUFFICES ASSUME <<seq[j], seq[i]>> \in R PROVE FALSE
      OBVIOUS
    <3>1. Place(R, S, seq[j]) < Place(R, S, seq[i])
      BY PlacesAscend
    <3> QED BY <1>1, <1>3, <3>1
  <2> QED BY <2>1, <2>2 DEF StrictOrder
<1>4. ASSUME NEW d \in S PROVE \E i \in 1 .. n : seq[i] = d
  <2>1. Place(R, S, d) \in 0 .. n - 1
    BY PlacesAscend
  <2>2. PICK i \in 1 .. n : i - 1 = Place(R, S, d)
    <3>1. Place(R, S, d) + 1 \in 1 .. n /\ (Place(R, S, d) + 1) - 1 = Place(R, S, d)
      BY <1>1, <2>1
    <3> QED BY <3>1
  <2>3. Place(R, S, seq[i]) = Place(R, S, d) /\ seq[i] \in S
    BY <2>2
  <2>4. ~ (<<seq[i], d>> \in R) /\ ~ (<<d, seq[i]>> \in R)
    <3>1. ~ (Place(R, S, d) < Place(R, S, d))
      BY <2>1
    <3> QED BY <2>3, <3>1, PlacesAscend
  <2> QED BY <2>3, <2>4 DEF StrictOrder
<1> QED BY <1>2, <1>3, <1>4


-----------------------------------------------------------------------------
\* Sums of integers, multiples, and sums of the sums of parts.

LEMMA SumOfIntegers ==
  ASSUME NEW S, IsFiniteSet(S), NEW f, DOMAIN f = S, \A x \in S : f[x] \in Int
  PROVE  SumFunction(f) \in Int
<1> DEFINE sum == CHOOSE s : AddsUp(s, f, S)
<1>1. AddsUp(sum, f, S) /\ SumFunction(f) = sum[S]
  BY SumExists, SumIsRecursive
<1> HIDE DEF sum
<1>2. sum[S] \in Int
  BY <1>1, SumTakesAny
<1> QED BY <1>1, <1>2

LEMMA SumOfMultiples ==
  ASSUME NEW S, IsFiniteSet(S), NEW b \in Int, NEW f, NEW g, DOMAIN f = S, DOMAIN g = S,
         \A x \in S : f[x] \in Int /\ g[x] = f[x] * b
  PROVE  SumFunction(g) = SumFunction(f) * b
<1> DEFINE s == CHOOSE t : AddsUp(t, f, S)
           u == CHOOSE t : AddsUp(t, g, S)
<1>1. AddsUp(s, f, S) /\ AddsUp(u, g, S)
  BY SumExists
<1>2. SumFunction(f) = s[S] /\ SumFunction(g) = u[S]
  BY SumIsRecursive
<1> HIDE DEF s, u
<1>3. \A T \in SUBSET S : s[T] \in Int
  <2> TAKE T \in SUBSET S
  <2>1. IsFiniteSet(T)
    BY FS_Subset
  <2> QED BY <1>1, <2>1, SumTakesAny
<1> DEFINE Bad == {T \in SUBSET S : u[T] /= s[T] * b}
<1>4. ASSUME NEW T \in Bad PROVE T \ {Picked(T)} \in Bad /\ T \ {Picked(T)} /= T
  <2> DEFINE p == Picked(T)
             U == T \ {p}
  <2>1. T /= {}
    BY <1>1 DEF AddsUp
  <2>2. p \in T
    BY <2>1 DEF Picked
  <2>3. s[T] = f[p] + s[U] /\ u[T] = g[p] + u[U]
    BY <1>1, <2>1 DEF AddsUp
  <2>4. U \in SUBSET S /\ U /= T /\ p \in S
    BY <2>2
  <2>5. f[p] \in Int /\ g[p] = f[p] * b /\ s[U] \in Int
    BY <1>3, <2>4
  <2>6. u[T] /= s[T] * b
    OBVIOUS
  <2> HIDE DEF p, U
  <2>7. (f[p] + s[U]) * b = f[p] * b + s[U] * b
    BY <2>5
  <2>8. u[U] /= s[U] * b
    BY <2>3, <2>5, <2>6, <2>7
  <2> QED BY <2>4, <2>8 DEF p, U
<1>5. Bad = {}
  <2>1. Bad \in SUBSET (SUBSET S) /\ \A T \in Bad : \E U \in Bad : U \subseteq T /\ U /= T
    BY <1>4
  <2> HIDE DEF Bad
  <2> QED BY <2>1, NoLeast
<1> QED BY <1>2, <1>5

\* What of T belongs to part i, and the sums of the parts.
PartOf(part, T, i) == {x \in T : part[x] = i}
SumOver(f, T) == SumFunction([x \in T |-> f[x]])
SumsOfParts(f, part, T, I) == [i \in I |-> SumOver(f, PartOf(part, T, i))]

LEMMA SumOfOneMore ==
  ASSUME NEW S, IsFiniteSet(S), NEW f, \A x \in S : f[x] \in Int, NEW x \in S
  PROVE  /\ SumOver(f, S \ {x}) \in Int
         /\ SumOver(f, S) = SumOver(f, S \ {x}) + f[x]
<1> DEFINE U == S \ {x}
           g == [y \in S |-> f[y]]
           h == [y \in U |-> f[y]]
<1>1. IsFiniteSet(U) /\ x \notin U /\ U \union {x} = S
  BY FS_Subset
<1>2. DOMAIN g = U \union {x} /\ DOMAIN h = U
  BY <1>1
<1>3. (\A y \in U \union {x} : g[y] \in Int) /\ \A y \in U : h[y] = g[y]
  BY <1>1
<1>4. g[x] = f[x]
  OBVIOUS
<1> HIDE DEF U, g, h
<1>5. SumFunction(h) \in Int /\ SumFunction(g) = SumFunction(h) + g[x]
  BY <1>1, <1>2, <1>3, SumOfMore
<1> QED BY <1>4, <1>5 DEF SumOver, U, g, h

\* A sum is the sum of the sums of its parts.
LEMMA SumByParts ==
  ASSUME NEW S, IsFiniteSet(S), NEW f, \A x \in S : f[x] \in Int,
         NEW I, IsFiniteSet(I), NEW part, \A x \in S : part[x] \in I
  PROVE  SumOver(f, S) = SumFunction(SumsOfParts(f, part, S, I))
<1> DEFINE Bad == {T \in SUBSET S : SumOver(f, T) /= SumFunction(SumsOfParts(f, part, T, I))}
<1>1. ASSUME NEW T \in Bad PROVE \E U \in Bad : U \subseteq T /\ U /= T
  <2>1. T /= {}
    <3> SUFFICES ASSUME T = {} PROVE FALSE
      OBVIOUS
    <3>1. \A i \in I : PartOf(part, T, i) = {}
      BY DEF PartOf
    <3>2. SumOver(f, {}) = 0
      <4> DEFINE g == [x \in {} |-> f[x]]
      <4>1. DOMAIN g = {}
        OBVIOUS
      <4> HIDE DEF g
      <4>2. SumFunction(g) = 0
        BY <4>1, SumOfNone
      <4> QED BY <4>2 DEF SumOver, g
    <3>3. SumsOfParts(f, part, T, I) = [i \in I |-> 0]
      BY <3>1, <3>2 DEF SumsOfParts
    <3> QED BY <3>2, <3>3, SumOfZeros
  <2>2. PICK x \in T : TRUE
    BY <2>1
  <2> DEFINE U == T \ {x}
             v == SumsOfParts(f, part, T, I)
             w == SumsOfParts(f, part, U, I)
  <2>3. IsFiniteSet(T) /\ IsFiniteSet(U) /\ x \in S /\ f[x] \in Int /\ part[x] \in I
    BY FS_Subset
  <2>4. \A y \in T : f[y] \in Int
    OBVIOUS
  <2>5. SumOver(f, U) \in Int /\ SumOver(f, T) = SumOver(f, U) + f[x]
    BY <2>3, <2>4, SumOfOneMore
  <2>6. ASSUME NEW i \in I PROVE IsFiniteSet(PartOf(part, U, i)) /\ w[i] \in Int
    <3> DEFINE P == PartOf(part, U, i)
               g == [y \in P |-> f[y]]
    <3>1. P \subseteq U
      BY DEF PartOf
    <3>2. IsFiniteSet(P)
      BY <2>3, <3>1, FS_Subset
    <3>3. DOMAIN g = P /\ \A y \in P : g[y] \in Int
      BY <3>1
    <3>4. w[i] = SumFunction(g)
      BY DEF SumsOfParts, SumOver
    <3> HIDE DEF P, g
    <3>5. SumFunction(g) \in Int
      BY <3>2, <3>3, SumOfIntegers
    <3> QED BY <3>2, <3>4, <3>5 DEF P
  <2>7. \A i \in I \ {part[x]} : v[i] = w[i]
    <3>1. \A i \in I \ {part[x]} : PartOf(part, T, i) = PartOf(part, U, i)
      BY DEF PartOf
    <3> QED BY <3>1 DEF SumsOfParts
  <2>8. v[part[x]] = w[part[x]] + f[x]
    <3> DEFINE P == PartOf(part, T, part[x])
    <3>1. P \subseteq T /\ x \in P /\ P \ {x} = PartOf(part, U, part[x])
      BY DEF PartOf
    <3>2. IsFiniteSet(P) /\ \A y \in P : f[y] \in Int
      BY <2>3, <2>4, <3>1, FS_Subset
    <3> HIDE DEF P
    <3>3. SumOver(f, P) = SumOver(f, P \ {x}) + f[x]
      BY <3>1, <3>2, SumOfOneMore
    <3> QED BY <2>3, <3>1, <3>3 DEF P, SumsOfParts
  <2>9. DOMAIN v = I /\ DOMAIN w = I
    BY DEF SumsOfParts
  <2>10. U \subseteq T /\ U /= T /\ U \in SUBSET S /\ SumOver(f, T) /= SumFunction(v)
    OBVIOUS
  <2> HIDE DEF v, w, U, Bad
  <2>11. SumFunction(v) = SumFunction(w) + f[x] /\ SumFunction(w) \in Int
    <3>1. \A i \in I : w[i] \in Int
      BY <2>6
    <3>2. SumFunction(v) = SumFunction(w) + f[x]
      BY <2>3, <2>7, <2>8, <2>9, <3>1, SumOfUpdated
    <3> QED BY <2>9, <3>1, <3>2, SumOfIntegers
  <2>12. SumOver(f, U) /= SumFunction(w)
    BY <2>3, <2>5, <2>10, <2>11
  <2> QED BY <2>10, <2>12 DEF Bad, w
<1>2. Bad = {}
  <2>1. Bad \in SUBSET (SUBSET S) /\ \A T \in Bad : \E U \in Bad : U \subseteq T /\ U /= T
    BY <1>1
  <2> HIDE DEF Bad
  <2> QED BY <2>1, NoLeast
<1> QED BY <1>2

-----------------------------------------------------------------------------
\* Sequences.

LEMMA FunctionIsSeq ==
  ASSUME NEW n \in Nat, NEW T, NEW f \in [1 .. n -> T]
  PROVE  f \in Seq(T) /\ Len(f) = n
OBVIOUS

LEMMA SeqElements ==
  ASSUME NEW T, NEW s \in Seq(T)
  PROVE  /\ Len(s) \in Nat
         /\ DOMAIN s = 1 .. Len(s)
         /\ \A i \in DOMAIN s : s[i] \in T
OBVIOUS

\* The sequences of a sequence in one.
Flattens(f, seqs, n) == f = [i \in 1 .. n |-> IF i = 1 THEN seqs[i] ELSE f[i - 1] \o seqs[i]]

LEMMA FlattenedExists ==
  ASSUME NEW n \in Nat \ {0}, NEW seqs
  PROVE  \E f : Flattens(f, seqs, n)
<1> DEFINE Bad == {m \in Nat \ {0} : ~ \E f : Flattens(f, seqs, m)}
<1>1. ASSUME NEW m \in Bad PROVE \E l \in Bad : ~(m <= l)
  <2>1. CASE m = 1
    <3> DEFINE f == [k \in 1 .. 1 |-> seqs[1]]
    <3>1. \A k \in 1 .. 1 : k = 1
      OBVIOUS
    <3>2. f = [k \in 1 .. 1 |-> IF k = 1 THEN seqs[k] ELSE f[k - 1] \o seqs[k]]
      BY <3>1
    <3> QED BY <2>1, <3>2 DEF Flattens
  <2>2. CASE m /= 1 /\ m - 1 \notin Bad
    <3>1. m - 1 \in Nat \ {0}
      BY <2>2
    <3>2. PICK g : Flattens(g, seqs, m - 1)
      BY <2>2, <3>1
    <3> DEFINE f == [k \in 1 .. m |-> IF k = 1 THEN seqs[k] ELSE g[k - 1] \o seqs[k]]
    <3>3. \A k \in 1 .. m - 1 : f[k] = g[k]
      <4>1. TAKE k \in 1 .. m - 1
      <4>2. k \in 1 .. m
        BY <3>1
      <4>3. g[k] = IF k = 1 THEN seqs[k] ELSE g[k - 1] \o seqs[k]
        BY <3>2 DEF Flattens
      <4> QED BY <4>2, <4>3
    <3>4. f = [k \in 1 .. m |-> IF k = 1 THEN seqs[k] ELSE f[k - 1] \o seqs[k]]
      <4>1. \A k \in 1 .. m : k /= 1 => k - 1 \in 1 .. m - 1
        BY <3>1
      <4>2. \A k \in 1 .. m : k /= 1 => f[k - 1] = g[k - 1]
        BY <3>3, <4>1
      <4> QED BY <4>2
    <3> QED BY <3>4 DEF Flattens
  <2>3. CASE m /= 1 /\ m - 1 \in Bad
    BY <2>3
  <2> QED BY <2>1, <2>2, <2>3
<1>2. Bad = {}
  <2>1. Bad \in SUBSET Nat
    OBVIOUS
  <2> HIDE DEF Bad
  <2> QED BY <1>1, <2>1, LeastNatural
<1> QED BY <1>2

-----------------------------------------------------------------------------
\* Powers of two.

\* The powers of two up to n.
Doubles(f, n) == f = [k \in 0 .. n |-> IF k = 0 THEN 1 ELSE 2 * f[k - 1]]

LEMMA DoublesExist ==
  ASSUME NEW n \in Nat
  PROVE  \E f : Doubles(f, n)
<1> DEFINE Bad == {m \in Nat : ~ \E f : Doubles(f, m)}
<1>1. ASSUME NEW m \in Bad PROVE \E l \in Bad : ~(m <= l)
  <2>1. CASE m = 0
    <3> DEFINE f == [k \in 0 .. 0 |-> 1]
    <3>1. \A k \in 0 .. 0 : f[k] = 1
      OBVIOUS
    <3>2. f = [k \in 0 .. 0 |-> IF k = 0 THEN 1 ELSE 2 * f[k - 1]]
      OBVIOUS
    <3> QED BY <2>1, <3>2 DEF Doubles
  <2>2. CASE m /= 0 /\ m - 1 \notin Bad
    <3>1. m - 1 \in Nat
      BY <2>2
    <3>2. PICK g : Doubles(g, m - 1)
      BY <2>2, <3>1
    <3> DEFINE f == [k \in 0 .. m |-> IF k = 0 THEN 1 ELSE 2 * g[k - 1]]
    <3>3. \A k \in 0 .. m - 1 : f[k] = g[k]
      BY <3>1, <3>2 DEF Doubles
    <3>4. f = [k \in 0 .. m |-> IF k = 0 THEN 1 ELSE 2 * f[k - 1]]
      <4>1. \A k \in 0 .. m : k /= 0 => k - 1 \in 0 .. m - 1
        BY <3>1
      <4>2. \A k \in 0 .. m : k /= 0 => f[k - 1] = g[k - 1]
        BY <3>3, <4>1
      <4> QED BY <4>2
    <3> QED BY <3>4 DEF Doubles
  <2>3. CASE m /= 0 /\ m - 1 \in Bad
    BY <2>3
  <2> QED BY <2>1, <2>2, <2>3
<1>2. Bad = {}
  <2>1. Bad \in SUBSET Nat
    OBVIOUS
  <2> HIDE DEF Bad
  <2> QED BY <1>1, <2>1, LeastNatural
<1> QED BY <1>2

LEMMA DoublesAgree ==
  ASSUME NEW m \in Nat, NEW n \in Nat, m <= n, NEW f, NEW g, Doubles(f, m), Doubles(g, n)
  PROVE  f[m] = g[m]
<1> DEFINE Bad == {k \in 0 .. m : f[k] /= g[k]}
<1>1. ASSUME NEW k \in Bad PROVE \E l \in Bad : ~(k <= l)
  <2>1. k /= 0
    BY DEF Doubles
  <2>2. k - 1 \in 0 .. m /\ k \in 0 .. n
    BY <2>1
  <2>3. f[k] = 2 * f[k - 1] /\ g[k] = 2 * g[k - 1]
    BY <2>1, <2>2 DEF Doubles
  <2> QED BY <2>2, <2>3
<1>2. Bad = {}
  <2>1. Bad \in SUBSET Nat
    OBVIOUS
  <2> HIDE DEF Bad
  <2> QED BY <1>1, <2>1, LeastNatural
<1> QED BY <1>2

LEMMA DoublesForever ==
  ASSUME NEW p, p = CHOOSE f : f = [n \in Nat |-> IF n = 0 THEN 1 ELSE 2 * f[n - 1]]
  PROVE  p[0] = 1 /\ \A n \in Nat \ {0} : p[n] = 2 * p[n - 1]
<1> DEFINE G(n) == CHOOSE g : Doubles(g, n)
           f == [n \in Nat |-> G(n)[n]]
<1>1. ASSUME NEW n \in Nat PROVE Doubles(G(n), n)
  BY DoublesExist
<1> HIDE DEF G
<1>2. f[0] = 1
  BY <1>1 DEF Doubles
<1>3. ASSUME NEW n \in Nat, n /= 0 PROVE f[n] = 2 * f[n - 1]
  <2>1. n - 1 \in Nat /\ n - 1 <= n
    BY <1>3
  <2>2. G(n)[n] = 2 * G(n)[n - 1]
    BY <1>1, <1>3 DEF Doubles
  <2>3. G(n)[n - 1] = G(n - 1)[n - 1]
    <3>1. Doubles(G(n), n) /\ Doubles(G(n - 1), n - 1)
      BY <1>1, <2>1
    <3> QED BY <2>1, <3>1, DoublesAgree
  <2> QED BY <2>1, <2>2, <2>3
<1>4. f = [n \in Nat |-> IF n = 0 THEN 1 ELSE 2 * f[n - 1]]
  <2>1. \A n \in Nat : f[n] = IF n = 0 THEN 1 ELSE 2 * f[n - 1]
    BY <1>2, <1>3
  <2>2. f = [n \in Nat |-> f[n]]
    OBVIOUS
  <2> HIDE DEF f
  <2> QED BY <2>1, <2>2
<1> HIDE DEF f
<1>5. p = [n \in Nat |-> IF n = 0 THEN 1 ELSE 2 * p[n - 1]]
  BY <1>4
<1> QED BY <1>5

LEMMA DoublesGrow ==
  ASSUME NEW p, p = CHOOSE f : f = [n \in Nat |-> IF n = 0 THEN 1 ELSE 2 * f[n - 1]], NEW n \in Nat
  PROVE  p[n] \in Nat /\ n < p[n]
<1> DEFINE Bad == {m \in Nat : ~(p[m] \in Nat /\ m < p[m])}
<1>0. p[0] = 1 /\ \A m \in Nat \ {0} : p[m] = 2 * p[m - 1]
  BY DoublesForever
<1>1. ASSUME NEW m \in Bad PROVE \E l \in Bad : ~(m <= l)
  <2>1. m /= 0
    BY ONLY <1>0, m \in Bad
  <2>2. m - 1 \in Nat /\ p[m] = 2 * p[m - 1]
    BY ONLY <1>0, <2>1, m \in Bad
  <2>3. m - 1 \in Bad
    BY ONLY <2>2, m \in Bad
  <2>4. ~(m <= m - 1)
    BY ONLY m \in Nat
  <2> HIDE DEF Bad
  <2> QED BY ONLY <2>3, <2>4
<1>2. Bad = {}
  <2>1. Bad \in SUBSET Nat
    OBVIOUS
  <2> HIDE DEF Bad
  <2> QED BY <1>1, <2>1, LeastNatural
<1> QED BY <1>2

-----------------------------------------------------------------------------
\* Sums of the first summands.

UpTo(f, k) == SumFunction([i \in 1 .. k |-> f[i]])

LEMMA UpToNext ==
  ASSUME NEW f, NEW n \in Nat, \A i \in 1 .. n : f[i] \in Int
  PROVE  /\ UpTo(f, 0) = 0
         /\ \A k \in 0 .. n : UpTo(f, k) \in Int
         /\ \A k \in 1 .. n : UpTo(f, k) = UpTo(f, k - 1) + f[k]
<1>1. UpTo(f, 0) = 0
  <2> DEFINE g == [i \in 1 .. 0 |-> f[i]]
  <2>1. DOMAIN g = {}
    OBVIOUS
  <2>2. UpTo(f, 0) = SumFunction(g)
    BY DEF UpTo
  <2> HIDE DEF g
  <2> QED BY <2>1, <2>2, SumOfNone
<1>2. ASSUME NEW k \in 0 .. n PROVE UpTo(f, k) \in Int
  <2> DEFINE g == [i \in 1 .. k |-> f[i]]
  <2>1. DOMAIN g = 1 .. k /\ IsFiniteSet(1 .. k) /\ \A i \in 1 .. k : g[i] \in Int
    BY FS_Interval
  <2>2. UpTo(f, k) = SumFunction(g)
    BY DEF UpTo
  <2> HIDE DEF g
  <2> QED BY <2>1, <2>2, SumOfIntegers
<1>3. ASSUME NEW k \in 1 .. n PROVE UpTo(f, k) = UpTo(f, k - 1) + f[k]
  <2> DEFINE S == 1 .. k - 1
             g == [i \in S |-> f[i]]
             h == [i \in 1 .. k |-> f[i]]
  <2>1. /\ IsFiniteSet(S) /\ k \notin S /\ 1 .. k = S \union {k} /\ \A i \in 1 .. k : i \in 1 .. n
    BY FS_Interval
  <2>2. /\ DOMAIN g = S /\ DOMAIN h = S \union {k} /\ h[k] = f[k]
        /\ \A i \in S \union {k} : h[i] \in Int
        /\ \A i \in S : g[i] = h[i]
    BY <2>1
  <2>3. UpTo(f, k) = SumFunction(h) /\ UpTo(f, k - 1) = SumFunction(g)
    BY DEF UpTo
  <2> HIDE DEF S, g, h
  <2>4. SumFunction(h) = SumFunction(g) + h[k]
    BY <2>1, <2>2, SumOfMore
  <2> QED BY <2>2, <2>3, <2>4
<1> QED BY <1>1, <1>2, <1>3

LEMMA UpToGrows ==
  ASSUME NEW f, NEW n \in Nat, \A i \in 1 .. n : f[i] \in Nat, NEW m \in 0 .. n
  PROVE  UpTo(f, m) \in Nat /\ UpTo(f, m) <= UpTo(f, n)
<1> DEFINE g == [i \in 1 .. m |-> f[i]]
           h == [i \in 1 .. n |-> f[i]]
<1>1. IsFiniteSet(1 .. n) /\ IsFiniteSet(1 .. m) /\ \A i \in 1 .. m : i \in 1 .. n
  BY FS_Interval
<1>2. 1 .. m \in SUBSET (1 .. n)
  BY <1>1
<1>3. /\ DOMAIN g = 1 .. m /\ DOMAIN h = 1 .. n
      /\ \A i \in 1 .. n : h[i] \in Nat
      /\ \A i \in 1 .. m : g[i] \in Nat /\ g[i] <= h[i]
  BY <1>1
<1>4. UpTo(f, m) = SumFunction(g) /\ UpTo(f, n) = SumFunction(h)
  BY DEF UpTo
<1> HIDE DEF g, h
<1>5. SumFunction(g) <= SumFunction(h)
  BY <1>1, <1>2, <1>3, SumOfFewer
<1>6. SumFunction(g) \in Nat
  BY <1>1, <1>3, SumOfNaturals
<1> QED BY <1>4, <1>5, <1>6

\* What is ahead after every number of summands is ahead when they are weighted, as long
\* as weights decrease.
LEMMA WeightedSums ==
  ASSUME NEW n \in Nat, NEW f, NEW g, NEW w, NEW u, NEW v,
         \A i \in 1 .. n : f[i] \in Nat /\ g[i] \in Nat /\ w[i] \in Nat,
         \A i \in 2 .. n : w[i] <= w[i - 1],
         \A i \in 1 .. n : u[i] = f[i] * w[i] /\ v[i] = g[i] * w[i],
         \A k \in 0 .. n : UpTo(f, k) <= UpTo(g, k)
  PROVE  UpTo(u, n) <= UpTo(v, n)
<1>1. \A i \in 1 .. n : u[i] \in Nat /\ v[i] \in Nat
  OBVIOUS
<1>2. ASSUME NEW k \in 0 .. n
      PROVE  UpTo(f, k) \in Int /\ UpTo(g, k) \in Int /\ UpTo(u, k) \in Int /\ UpTo(v, k) \in Int
  <2>1. \A i \in 1 .. n : f[i] \in Int /\ g[i] \in Int /\ u[i] \in Int /\ v[i] \in Int
    BY <1>1
  <2> QED BY ONLY <2>1, n \in Nat, k \in 0 .. n, UpToNext
<1>3. ASSUME NEW k \in 1 .. n
      PROVE  /\ UpTo(f, k) = UpTo(f, k - 1) + f[k] /\ UpTo(g, k) = UpTo(g, k - 1) + g[k]
             /\ UpTo(u, k) = UpTo(u, k - 1) + u[k] /\ UpTo(v, k) = UpTo(v, k - 1) + v[k]
  <2>1. /\ \A i \in 1 .. n : f[i] \in Int /\ g[i] \in Int /\ u[i] \in Int /\ v[i] \in Int
    BY <1>1
  <2> QED BY <2>1, UpToNext
<1>4. UpTo(f, 0) = 0 /\ UpTo(g, 0) = 0 /\ UpTo(u, 0) = 0 /\ UpTo(v, 0) = 0
  BY <1>1, UpToNext
<1> DEFINE Ahead(k) == UpTo(v, k) - UpTo(u, k)
           More(k) == UpTo(g, k) - UpTo(f, k)
           Bad == {k \in 1 .. n : ~(Ahead(k) >= w[k] * More(k))}
<1>5. \A k \in 0 .. n : Ahead(k) \in Int /\ More(k) \in Nat
  BY <1>2
<1>6. \A k \in 1 .. n : More(k) = More(k - 1) + (g[k] - f[k]) /\ Ahead(k) = Ahead(k - 1) + (g[k] * w[k] - f[k] * w[k])
  <2> TAKE k \in 1 .. n
  <2>1. k - 1 \in 0 .. n
    OBVIOUS
  <2>2. u[k] \in Int /\ v[k] \in Int /\ u[k] = f[k] * w[k] /\ v[k] = g[k] * w[k]
    BY <1>1
  <2> QED BY <1>2, <1>3, <2>1, <2>2
<1>7. More(0) = 0 /\ Ahead(0) = 0
  BY <1>4
<1> HIDE DEF Ahead, More
<1>8. ASSUME NEW k \in Bad PROVE \E l \in Bad : ~(k <= l)
  <2>1. PICK weight \in Nat : weight = w[k]
    OBVIOUS
  <2>2. PICK a \in Nat, b \in Nat : a = f[k] /\ b = g[k]
    OBVIOUS
  <2>3. /\ More(k) = More(k - 1) + (b - a)
        /\ Ahead(k) = Ahead(k - 1) + (b * weight - a * weight)
    BY <1>6, <2>1, <2>2
  <2>4. k - 1 \in 0 .. n /\ Ahead(k) \in Int /\ Ahead(k - 1) \in Int /\ More(k - 1) \in Nat
    BY <1>5
  <2>5. CASE Ahead(k - 1) >= weight * More(k - 1)
    <3>1. weight * More(k) = weight * More(k - 1) + (b * weight - a * weight)
      BY <2>3, <2>4
    <3>2. weight * More(k) \in Int /\ weight * More(k - 1) \in Int /\ b * weight - a * weight \in Int
      BY <2>3, <2>4
    <3>3. Ahead(k) >= weight * More(k)
      BY ONLY <2>3, <2>4, <2>5, <3>1, <3>2
    <3> QED BY <2>1, <3>3
  <2>6. CASE k = 1
    <3>1. Ahead(k - 1) = 0 /\ More(k - 1) = 0
      BY <1>7, <2>6
    <3>2. Ahead(k - 1) >= weight * More(k - 1)
      BY <3>1
    <3> QED BY <2>5, <3>2
  <2>7. CASE k /= 1 /\ k - 1 \notin Bad
    <3>1. k - 1 \in 1 .. n /\ k \in 2 .. n
      BY <2>7
    <3>2. PICK before \in Nat : before = w[k - 1]
      BY <3>1
    <3>3. Ahead(k - 1) >= before * More(k - 1)
      BY <2>7, <3>1, <3>2
    <3>4. weight <= before
      BY <2>1, <3>1, <3>2
    <3>5. weight * More(k - 1) <= before * More(k - 1)
      <4>1. PICK extra \in Nat : before = weight + extra
        <5>1. before - weight \in Nat /\ before = weight + (before - weight)
          BY <3>4
        <5> QED BY <5>1
      <4>2. PICK m \in Nat : m = More(k - 1)
        BY <2>4
      <4>3. before * m = weight * m + extra * m /\ extra * m \in Nat /\ weight * m \in Nat
        BY <4>1
      <4> QED BY <4>2, <4>3
    <3>6. weight * More(k - 1) \in Int /\ before * More(k - 1) \in Int
      BY <2>4
    <3>7. Ahead(k - 1) >= weight * More(k - 1)
      BY <2>4, <3>3, <3>5, <3>6
    <3> QED BY <2>5, <3>7
  <2>8. CASE k /= 1 /\ k - 1 \in Bad
    BY <2>8
  <2> QED BY <2>6, <2>7, <2>8
<1>9. Bad = {}
  <2>1. Bad \in SUBSET Nat
    OBVIOUS
  <2> HIDE DEF Bad
  <2> QED BY <1>8, <2>1, LeastNatural
<1>10. CASE n = 0
  BY <1>4, <1>10
<1>11. CASE n /= 0
  <2>1. n \in 1 .. n
    BY <1>11
  <2>2. Ahead(n) >= w[n] * More(n)
    BY <1>9, <2>1
  <2>3. w[n] * More(n) \in Nat /\ Ahead(n) \in Int
    BY <1>5, <2>1
  <2>4. Ahead(n) >= 0
    BY <2>2, <2>3
  <2> QED BY <1>2, <2>1, <2>4 DEF Ahead
<1> QED BY <1>10, <1>11


-----------------------------------------------------------------------------
\* Rankings: the best k are worth the most.

\* A set in descending order of v.
Sorts(order, v, S) ==
  /\ order \in [1 .. Cardinality(S) -> S]
  /\ IsInjective(order)
  /\ \A i, j \in DOMAIN order : i < j => v[order[i]] >= v[order[j]]

LEMMA SortedExists ==
  ASSUME NEW S, IsFiniteSet(S), NEW v, \A d \in S : v[d] \in Int
  PROVE  \E order : Sorts(order, v, S)
<1> DEFINE Bad == {T \in SUBSET S : ~ \E order : Sorts(order, v, T)}
<1>1. ASSUME NEW T \in Bad PROVE \E U \in Bad : U \subseteq T /\ U /= T
  <2>1. T \subseteq S /\ IsFiniteSet(T)
    BY FS_Subset
  <2>2. CASE T = {}
    <3>1. Cardinality(T) = 0
      BY <2>2, FS_EmptySet
    <3> DEFINE order == [i \in 1 .. 0 |-> i]
    <3>2. order \in [1 .. 0 -> {}] /\ DOMAIN order = {}
      OBVIOUS
    <3> HIDE DEF order
    <3>3. Sorts(order, v, T)
      BY <2>2, <3>1, <3>2 DEF Sorts, IsInjective
    <3> QED BY <3>3
  <2>3. CASE T /= {}
    <3> DEFINE values == {v[d] : d \in T}
    <3>1. PICK d \in T : \A e \in T : v[d] <= v[e]
      <4>1. IsFiniteSet(values)
        <5> DEFINE f == [e \in T |-> v[e]]
        <5>1. f \in Surjection(T, values)
          BY DEF Surjection
        <5> HIDE DEF f, values
        <5> QED BY <2>1, <5>1, FS_Surjection
      <4>2. values \in SUBSET Int /\ values /= {}
        BY <2>1, <2>3
      <4>3. Min(values) \in values /\ \A x \in values : Min(values) <= x
        <5> HIDE DEF values
        <5> QED BY <4>1, <4>2, MinOfFinite
      <4> QED BY <4>3
    <3> DEFINE U == T \ {d}
    <3>2. SUFFICES ASSUME U \notin Bad PROVE FALSE
      BY <3>1
    <3>3. PICK order : Sorts(order, v, U)
      BY <2>1, <3>2
    <3>4. PICK n \in Nat : n = Cardinality(U) /\ Cardinality(T) = n + 1
      <4>1. IsFiniteSet(U) /\ Cardinality(U) = Cardinality(T) - 1
        BY <2>1, <3>1, FS_RemoveElement
      <4>2. Cardinality(U) \in Nat /\ Cardinality(T) \in Nat
        BY <2>1, <4>1, FS_CardinalityType
      <4> QED BY <4>1, <4>2
    <3>5. /\ order \in [1 .. n -> U] /\ \A i, j \in 1 .. n : order[i] = order[j] => i = j
          /\ \A i, j \in 1 .. n : i < j => v[order[i]] >= v[order[j]]
      BY <3>3, <3>4 DEF Sorts, IsInjective
    <3> DEFINE longer == [i \in 1 .. n + 1 |-> IF i = n + 1 THEN d ELSE order[i]]
    <3>6. /\ longer \in [1 .. n + 1 -> T] /\ DOMAIN longer = 1 .. n + 1
          /\ longer[n + 1] = d /\ \A i \in 1 .. n : longer[i] = order[i] /\ longer[i] \in U
      BY <3>5
    <3> HIDE DEF longer
    <3>7. \A i \in 1 .. n + 1 : i = n + 1 \/ i \in 1 .. n
      OBVIOUS
    <3>8. \A i, j \in 1 .. n + 1 : longer[i] = longer[j] => i = j
      BY <3>5, <3>6, <3>7
    <3>9. \A i, j \in 1 .. n + 1 : i < j => v[longer[i]] >= v[longer[j]]
      <4> TAKE i \in 1 .. n + 1, j \in 1 .. n + 1
      <4> HAVE i < j
      <4>1. i \in 1 .. n
        OBVIOUS
      <4>2. CASE j = n + 1
        <5>1. v[d] <= v[longer[i]] /\ v[d] \in Int /\ v[longer[i]] \in Int
          BY <2>1, <3>1, <3>6, <4>1
        <5> QED BY <3>6, <4>2, <5>1
      <4>3. CASE j \in 1 .. n
        BY <3>5, <3>6, <4>1, <4>3
      <4> QED BY <3>7, <4>2, <4>3
    <3>10. Sorts(longer, v, T)
      BY <3>4, <3>6, <3>8, <3>9 DEF Sorts, IsInjective
    <3> QED BY <3>10
  <2> QED BY <2>2, <2>3
<1>2. Bad = {}
  <2>1. Bad \in SUBSET (SUBSET S) /\ \A T \in Bad : \E U \in Bad : U \subseteq T /\ U /= T
    BY <1>1
  <2> HIDE DEF Bad
  <2> QED BY <2>1, NoLeast
<1> QED BY <1>2

\* Whatever k elements are chosen, the first k of the order are worth as much.
LEMMA FirstAreBest ==
  ASSUME NEW D, IsFiniteSet(D), NEW R \in SUBSET D,
         NEW W, \A d \in D : W[d] \in Nat, \A d \in D \ R : W[d] = 0,
         NEW order, Sorts(order, W, R),
         NEW best, \A i \in Nat : best[i] = IF i \in 1 .. Cardinality(R) THEN W[order[i]] ELSE 0,
         NEW S \in SUBSET D
  PROVE  SumOver(W, S) <= UpTo(best, Cardinality(S))
<1>1. IsFiniteSet(R) /\ Cardinality(R) \in Nat
  BY FS_Subset, FS_CardinalityType
<1>2. PICK n \in Nat : n = Cardinality(R)
  BY <1>1
<1>3. /\ order \in [1 .. n -> R] /\ DOMAIN order = 1 .. n
      /\ \A i, j \in 1 .. n : i < j => W[order[i]] >= W[order[j]]
  BY <1>2 DEF Sorts
<1>4. \A d \in R : \E i \in 1 .. n : order[i] = d
  <2>1. order \in Injection(1 .. n, R)
    BY <1>2 DEF Sorts, Injection
  <2>2. Cardinality(1 .. n) = n
    BY FS_Interval
  <2>3. order \in Surjection(1 .. n, R)
    BY <1>1, <1>2, <2>1, <2>2, FS_Injection
  <2> QED BY <2>3 DEF Surjection
<1>5. \A i \in Nat : best[i] \in Nat /\ best[i] = IF i \in 1 .. n THEN W[order[i]] ELSE 0
  BY <1>2, <1>3
<1>6. ASSUME NEW i \in Nat \ {0}, NEW j \in Nat, i <= j PROVE best[j] <= best[i]
  <2>1. CASE j \in 1 .. n
    <3>1. i \in 1 .. n /\ best[i] = W[order[i]] /\ best[j] = W[order[j]]
      BY <1>5, <1>6, <2>1
    <3>2. CASE i = j
      BY <1>5, <3>2
    <3>3. CASE i < j
      <4>1. W[order[i]] >= W[order[j]]
        BY <1>3, <2>1, <3>1, <3>3
      <4>2. best[i] \in Nat /\ best[j] \in Nat
        BY <1>5
      <4> QED BY <3>1, <4>1, <4>2
    <3> QED BY <1>6, <3>2, <3>3
  <2>2. CASE j \notin 1 .. n
    BY <1>5, <2>2
  <2> QED BY <2>1, <2>2
<1>7. ASSUME NEW T \in SUBSET D, T /= {}
      PROVE  \E d \in T : W[d] <= best[Cardinality(T)]
  <2>1. IsFiniteSet(T) /\ Cardinality(T) \in Nat \ {0}
    BY <1>7, FS_Subset, FS_CardinalityType, FS_EmptySet
  <2>2. PICK k \in Nat \ {0} : k = Cardinality(T)
    BY <2>1
  <2>3. SUFFICES ASSUME \A d \in T : ~(W[d] <= best[k]) PROVE FALSE
    BY <2>2
  <2>4. \A d \in T : \E i \in 1 .. k - 1 : i \in 1 .. n /\ order[i] = d
    <3> TAKE d \in T
    <3>1. W[d] \in Nat /\ best[k] \in Nat /\ ~(W[d] <= best[k])
      BY <1>5, <2>3
    <3>2. d \in R
      BY <3>1
    <3>3. PICK i \in 1 .. n : order[i] = d
      BY <1>4, <3>2
    <3>4. best[i] = W[d] /\ i \in Nat \ {0}
      BY <1>5, <3>3
    <3>5. ~(k <= i)
      BY <1>6, <3>1, <3>4
    <3>6. i \in 1 .. k - 1
      BY <3>4, <3>5
    <3> QED BY <3>3, <3>6
  <2> DEFINE place == [d \in T |-> CHOOSE i \in 1 .. k - 1 : i \in 1 .. n /\ order[i] = d]
  <2>5. \A d \in T : place[d] \in 1 .. k - 1 /\ order[place[d]] = d
    BY <2>4
  <2>6. place \in [T -> 1 .. k - 1]
    BY <2>5
  <2>7. IsFiniteSet(1 .. k - 1) /\ Cardinality(1 .. k - 1) < Cardinality(T)
    <3> DEFINE l == k - 1
    <3>1. l \in Nat /\ l < k
      OBVIOUS
    <3> HIDE DEF l
    <3>2. IsFiniteSet(1 .. l) /\ Cardinality(1 .. l) = l
      BY <3>1, FS_Interval
    <3> QED BY <2>2, <3>1, <3>2 DEF l
  <2> HIDE DEF place
  <2>8. \E x, y \in T : x /= y /\ place[x] = place[y]
    BY <2>1, <2>6, <2>7, FS_PigeonHole
  <2> QED BY <2>5, <2>8
<1> DEFINE Bad == {T \in SUBSET D : ~(SumOver(W, T) <= UpTo(best, Cardinality(T)))}
<1>8. ASSUME NEW T \in Bad PROVE \E U \in Bad : U \subseteq T /\ U /= T
  <2>1. IsFiniteSet(T) /\ T \subseteq D
    BY FS_Subset
  <2>2. CASE T = {}
    <3>1. Cardinality(T) = 0
      BY <2>2, FS_EmptySet
    <3> DEFINE f == [x \in T |-> W[x]]
    <3>2. DOMAIN f = {} /\ SumOver(W, T) = SumFunction(f)
      BY <2>2 DEF SumOver
    <3> HIDE DEF f
    <3>3. SumOver(W, T) = 0
      BY <3>2, SumOfNone
    <3>4. UpTo(best, 0) = 0
      <4>1. \A i \in 1 .. 0 : best[i] \in Int
        OBVIOUS
      <4> QED BY <4>1, UpToNext
    <3> QED BY <3>1, <3>3, <3>4
  <2>3. CASE T /= {}
    <3>1. PICK d \in T : W[d] <= best[Cardinality(T)]
      BY <1>7, <2>1, <2>3
    <3> DEFINE U == T \ {d}
    <3>2. PICK k \in Nat : Cardinality(U) = k - 1 /\ Cardinality(T) = k /\ k /= 0
      BY <2>1, <2>3, FS_RemoveElement, FS_CardinalityType, FS_EmptySet
    <3>3. SumOver(W, U) \in Int /\ SumOver(W, T) = SumOver(W, U) + W[d]
      <4>1. \A x \in T : W[x] \in Int
        BY <2>1
      <4> QED BY <2>1, <4>1, SumOfOneMore
    <3>4. UpTo(best, k) = UpTo(best, k - 1) + best[k] /\ UpTo(best, k - 1) \in Int
      <4>1. \A i \in 1 .. k : best[i] \in Int
        BY <1>5
      <4>2. k \in 1 .. k /\ k - 1 \in 0 .. k
        BY <3>2
      <4> QED BY <4>1, <4>2, UpToNext
    <3>5. ~(SumOver(W, U) <= UpTo(best, k - 1))
      <4>1. W[d] \in Int /\ best[k] \in Int /\ W[d] <= best[k]
        BY <1>5, <2>1, <3>1, <3>2
      <4>2. ~(SumOver(W, T) <= UpTo(best, k))
        BY <3>2
      <4> QED BY <3>3, <3>4, <4>1, <4>2
    <3>6. U \in Bad
      BY <2>1, <3>2, <3>5
    <3> QED BY <3>6
  <2> QED BY <2>2, <2>3
<1>9. Bad = {}
  <2>1. Bad \in SUBSET (SUBSET D) /\ \A T \in Bad : \E U \in Bad : U \subseteq T /\ U /= T
    BY <1>8
  <2> HIDE DEF Bad
  <2> QED BY <2>1, NoLeast
<1> QED BY <1>9

\* Along a ranking without repetitions.
Heads(ranking, k) == {ranking[i] : i \in 1 .. k}

Along(f, ranking, W, D, n) ==
  /\ \A d \in D : W[d] \in Int
  /\ \A i \in 1 .. n : ranking[i] \in D /\ f[i] = W[ranking[i]]
  /\ \A i, j \in 1 .. n : ranking[i] = ranking[j] => i = j

LEMMA SumAlong ==
  ASSUME NEW n \in Nat, NEW ranking, NEW D, NEW W, NEW f, Along(f, ranking, W, D, n), NEW k \in 0 .. n
  PROVE  /\ IsFiniteSet(Heads(ranking, k)) /\ Cardinality(Heads(ranking, k)) = k
         /\ UpTo(f, k) = SumOver(W, Heads(ranking, k))
<1> DEFINE Fine(l) == /\ IsFiniteSet(Heads(ranking, l)) /\ Cardinality(Heads(ranking, l)) = l
                      /\ UpTo(f, l) = SumOver(W, Heads(ranking, l))
           Bad == {l \in 0 .. n : ~Fine(l)}
<1> USE DEF Along
<1>1. \A i \in 1 .. n : f[i] \in Int
  OBVIOUS
<1>2. UpTo(f, 0) = 0 /\ \A l \in 1 .. n : UpTo(f, l) = UpTo(f, l - 1) + f[l]
  BY <1>1, UpToNext
<1>3. ASSUME NEW l \in Bad PROVE \E m \in Bad : ~(l <= m)
  <2>1. CASE l = 0
    <3> DEFINE S == Heads(ranking, 0)
               g == [x \in S |-> W[x]]
    <3>1. S = {}
      BY DEF Heads
    <3>2. DOMAIN g = {} /\ SumOver(W, S) = SumFunction(g)
      BY <3>1 DEF SumOver
    <3> HIDE DEF g
    <3>3. SumOver(W, S) = 0
      BY <3>2, SumOfNone
    <3>4. IsFiniteSet(S) /\ Cardinality(S) = 0
      BY <3>1, FS_EmptySet
    <3> QED BY <1>2, <2>1, <3>3, <3>4
  <2>2. CASE l /= 0 /\ l - 1 \in Bad
    BY <2>2
  <2>3. CASE l /= 0 /\ l - 1 \notin Bad
    <3>1. l \in 1 .. n /\ l - 1 \in 0 .. n
      BY <2>3
    <3>2. Fine(l - 1)
      BY <2>3, <3>1
    <3> DEFINE S == Heads(ranking, l)
               U == Heads(ranking, l - 1)
    <3>3. S = U \union {ranking[l]} /\ ranking[l] \notin U
      BY <3>1 DEF Heads
    <3>4. S \ {ranking[l]} = U /\ ranking[l] \in S
      BY <3>3
    <3>5. \A x \in S : W[x] \in Int
      BY DEF Heads
    <3>6. IsFiniteSet(S) /\ Cardinality(S) = Cardinality(U) + 1
      <4>1. IsFiniteSet(U)
        BY <3>2
      <4> HIDE DEF S, U
      <4> QED BY ONLY <3>3, <4>1, FS_AddElement
    <3> HIDE DEF S, U
    <3>7. SumOver(W, S) = SumOver(W, U) + W[ranking[l]]
      BY <3>4, <3>5, <3>6, SumOfOneMore
    <3>8. Cardinality(S) = l /\ UpTo(f, l) = SumOver(W, S)
      BY <1>2, <3>1, <3>2, <3>6, <3>7 DEF U
    <3> QED BY <3>6, <3>8 DEF S
  <2> QED BY <2>1, <2>2, <2>3
<1>4. Bad = {}
  <2>1. Bad \in SUBSET Nat
    OBVIOUS
  <2> HIDE DEF Bad
  <2> QED BY <1>3, <2>1, LeastNatural
<1> QED BY <1>4


\* Summands that are all at least, or at most, c.
LEMMA UpToBounds ==
  ASSUME NEW n \in Nat, NEW f, NEW c \in Nat, \A i \in 1 .. n : f[i] \in Nat
  PROVE  /\ UpTo(f, n) \in Nat
         /\ (\A i \in 1 .. n : c <= f[i]) => c * n <= UpTo(f, n)
         /\ (\A i \in 1 .. n : f[i] <= c) => UpTo(f, n) <= c * n
<1>1. UpTo(f, 0) = 0 /\ \A k \in 1 .. n : UpTo(f, k) = UpTo(f, k - 1) + f[k]
  <2>1. \A i \in 1 .. n : f[i] \in Int
    OBVIOUS
  <2> QED BY <2>1, UpToNext
<1> DEFINE Fine(k) == /\ UpTo(f, k) \in Nat
                      /\ (\A i \in 1 .. n : c <= f[i]) => c * k <= UpTo(f, k)
                      /\ (\A i \in 1 .. n : f[i] <= c) => UpTo(f, k) <= c * k
           Bad == {k \in 0 .. n : ~Fine(k)}
<1>2. ASSUME NEW k \in Bad PROVE \E l \in Bad : ~(k <= l)
  <2>1. CASE k = 0
    <3>1. c * 0 = 0
      OBVIOUS
    <3> QED BY <1>1, <2>1, <3>1
  <2>2. CASE k /= 0 /\ k - 1 \in Bad
    BY <2>2
  <2>3. CASE k /= 0 /\ k - 1 \notin Bad
    <3>1. k \in 1 .. n /\ k - 1 \in 0 .. n /\ k - 1 \in Nat
      BY <2>3
    <3>2. Fine(k - 1)
      BY <2>3, <3>1
    <3>3. PICK l \in Nat, x \in Nat, s \in Nat : l = k - 1 /\ x = f[k] /\ s = UpTo(f, k - 1)
      BY <3>1, <3>2
    <3>4. UpTo(f, k) = s + x /\ c * k = c * l + c /\ c * l \in Nat
      <4>1. k = l + 1
        BY <3>1, <3>3
      <4>2. c * (l + 1) = c * l + c
        OBVIOUS
      <4> QED BY <1>1, <3>1, <3>3, <4>1, <4>2
    <3>5. ASSUME \A i \in 1 .. n : c <= f[i] PROVE c * k <= UpTo(f, k)
      <4>1. c <= x /\ c * l <= s
        BY <3>1, <3>2, <3>3, <3>5
      <4> QED BY <3>4, <4>1
    <3>6. ASSUME \A i \in 1 .. n : f[i] <= c PROVE UpTo(f, k) <= c * k
      <4>1. x <= c /\ s <= c * l
        BY <3>1, <3>2, <3>3, <3>6
      <4> QED BY <3>4, <4>1
    <3> QED BY <3>4, <3>5, <3>6
  <2> QED BY <2>1, <2>2, <2>3
<1>3. Bad = {}
  <2>1. Bad \in SUBSET Nat
    OBVIOUS
  <2> HIDE DEF Bad
  <2> QED BY <1>2, <2>1, LeastNatural
<1> QED BY <1>3
=============================================================================
