--------------------------- MODULE NumberingProofs ---------------------------
(***************************************************************************)
(* Proofs about what numbers documents anew.  A sharded index, in which    *)
(* each shard has numbers of its own, answers as one index does, for every *)
(* number of shards, every collection and every request.  Every way to     *)
(* reorder documents ends in a pair of inverse renumberings, the degree    *)
(* table that the ranges of a bisection share is exact, and exchanges      *)
(* lower the estimate, for every collection.                               *)
(***************************************************************************)
EXTENDS ShardedIndex, Reordering, SetProofs, SequenceTheorems

-----------------------------------------------------------------------------
\* The operators of Collection are the same in both of its instances.

LEMMA SameSums == \A f : C!SumFunction(f) = SumFunction(f) /\ Abstract!SumFunction(f) = SumFunction(f)
BY DEF C!SumFunction, C!SumFunctionOnSet, C!FoldFunctionOnSet, C!MapThenFoldSet,
       Abstract!SumFunction, Abstract!SumFunctionOnSet, Abstract!FoldFunctionOnSet,
       Abstract!MapThenFoldSet,
       SumFunction, SumFunctionOnSet, FoldFunctionOnSet, MapThenFoldSet

LEMMA SameCardinality ==
  \A S : C!Cardinality(S) = Cardinality(S) /\ Abstract!Cardinality(S) = Cardinality(S)
BY DEF C!Cardinality, Abstract!Cardinality, Cardinality

LEMMA SameOperators ==
  /\ \A d : Abstract!Length(d) = C!Length(d)
  /\ \A documents : Abstract!Statistics(documents) = C!Statistics(documents)
  /\ \A d, terms, statistics : Abstract!Score(d, terms, statistics) = C!Score(d, terms, statistics)
  /\ \A q, d : Abstract!Selects(q, d) <=> C!Selects(q, d)
  /\ \A q, documents, statistics :
       Abstract!Results(q, documents, statistics) = C!Results(q, documents, statistics)
<1>1. \A d : Abstract!Length(d) = C!Length(d)
  BY SameSums DEF C!Length, Abstract!Length
<1>2. \A documents : Abstract!Statistics(documents) = C!Statistics(documents)
  BY <1>1, SameSums, SameCardinality DEF C!Statistics, Abstract!Statistics
<1>3. \A d, terms, statistics : Abstract!Score(d, terms, statistics) = C!Score(d, terms, statistics)
  BY <1>1, SameSums DEF C!Score, Abstract!Score
<1>4. \A q, d : Abstract!Selects(q, d) <=> C!Selects(q, d)
  BY DEF C!Selects, Abstract!Selects
<1>5. \A q, documents, statistics :
        Abstract!Results(q, documents, statistics) = C!Results(q, documents, statistics)
  BY <1>3, <1>4 DEF C!Results, Abstract!Results
<1> QED BY <1>1, <1>2, <1>3, <1>4, <1>5

-----------------------------------------------------------------------------
\* Statistics grow with each document.

Grown(statistics, d) ==
  [count |-> statistics.count + 1,
   frequency |-> [t \in Terms |-> statistics.frequency[t] + (IF d.tf[t] > 0 THEN 1 ELSE 0)],
   tokens |-> statistics.tokens + C!Length(d)]

StatisticsUpTo(n) ==
  [count : {n}, frequency : [Terms -> 0 .. n], tokens : 0 .. n * MaxLength]

LEMMA StatisticsAre ==
  ASSUME NEW documents
  PROVE  C!Statistics(documents) =
           [count |-> Len(documents),
            frequency |-> [t \in Terms |->
                             Cardinality({i \in DOMAIN documents : documents[i].tf[t] > 0})],
            tokens |-> SumFunction([i \in DOMAIN documents |-> C!Length(documents[i])])]
BY SameSums, SameCardinality DEF C!Statistics

LEMMA StatisticsOfNone ==
  /\ C!Statistics(<<>>) = [count |-> 0, frequency |-> [t \in Terms |-> 0], tokens |-> 0]
  /\ C!Statistics(<<>>) \in StatisticsUpTo(0)
<1> DEFINE lengths == [i \in DOMAIN <<>> |-> C!Length(<<>>[i])]
           holders(t) == {i \in DOMAIN <<>> : <<>>[i].tf[t] > 0}
<1>1. DOMAIN <<>> = {} /\ Len(<<>>) = 0
  OBVIOUS
<1>2. SumFunction(lengths) = 0
  <2>1. DOMAIN lengths = {}
    BY <1>1
  <2> QED BY <2>1, SumOfNone
<1>3. \A t : Cardinality(holders(t)) = 0
  <2>1. \A t : holders(t) = {}
    BY <1>1
  <2> QED BY <2>1, FS_EmptySet
<1>4. C!Statistics(<<>>) = [count |-> 0, frequency |-> [t \in Terms |-> 0], tokens |-> 0]
  <2>1. C!Statistics(<<>>) =
          [count |-> Len(<<>>), frequency |-> [t \in Terms |-> Cardinality(holders(t))],
           tokens |-> SumFunction(lengths)]
    BY StatisticsAre
  <2> HIDE DEF lengths, holders
  <2> QED BY <1>1, <1>2, <1>3, <2>1
<1>5. 0 * MaxLength = 0
  BY ShardAssumption
<1> QED BY <1>4, <1>5 DEF StatisticsUpTo

LEMMA StatisticsOfMore ==
  ASSUME NEW documents \in Seq(Documents), NEW d \in Documents,
         C!Statistics(documents) \in StatisticsUpTo(Len(documents))
  PROVE  /\ C!Statistics(Append(documents, d)) = Grown(C!Statistics(documents), d)
         /\ C!Statistics(Append(documents, d)) \in StatisticsUpTo(Len(documents) + 1)
<1> DEFINE n == Len(documents)
           more == Append(documents, d)
           before == C!Statistics(documents)
<1>1. /\ n \in Nat /\ DOMAIN documents = 1 .. n /\ DOMAIN more = 1 .. n + 1
      /\ Len(more) = n + 1 /\ more[n + 1] = d
      /\ \A i \in 1 .. n : more[i] = documents[i] /\ documents[i] \in Documents
      /\ 1 .. n + 1 = (1 .. n) \union {n + 1} /\ n + 1 \notin 1 .. n
      /\ IsFiniteSet(1 .. n)
  <2>1. n \in Nat /\ DOMAIN documents = 1 .. n /\ \A i \in 1 .. n : documents[i] \in Documents
    OBVIOUS
  <2>2. more \in Seq(Documents) /\ Len(more) = n + 1
    OBVIOUS
  <2>3. more[n + 1] = d /\ \A i \in 1 .. n : more[i] = documents[i]
    BY <2>1
  <2>4. 1 .. n + 1 = (1 .. n) \union {n + 1} /\ n + 1 \notin 1 .. n
    BY <2>1
  <2>5. DOMAIN more = 1 .. n + 1
    BY <2>2
  <2>6. IsFiniteSet(1 .. n)
    <3>1. n \in Int
      BY <2>1
    <3> HIDE DEF n
    <3> QED BY <3>1, FS_Interval
  <2> HIDE DEF more, n
  <2> QED BY <2>1, <2>2, <2>3, <2>4, <2>5, <2>6
<1>2. before =
        [count |-> n,
         frequency |-> [t \in Terms |-> Cardinality({i \in 1 .. n : documents[i].tf[t] > 0})],
         tokens |-> SumFunction([i \in 1 .. n |-> C!Length(documents[i])])]
  BY <1>1, StatisticsAre
<1>3. C!Statistics(more) =
        [count |-> n + 1,
         frequency |-> [t \in Terms |-> Cardinality({i \in 1 .. n + 1 : more[i].tf[t] > 0})],
         tokens |-> SumFunction([i \in 1 .. n + 1 |-> C!Length(more[i])])]
  BY <1>1, StatisticsAre
<1>4. ASSUME NEW t \in Terms
      PROVE  Cardinality({i \in 1 .. n + 1 : more[i].tf[t] > 0})
             = before.frequency[t] + (IF d.tf[t] > 0 THEN 1 ELSE 0)
  <2> DEFINE holders == {i \in 1 .. n : documents[i].tf[t] > 0}
             holdersOfMore == {i \in 1 .. n + 1 : more[i].tf[t] > 0}
  <2>1. before.frequency[t] = Cardinality(holders)
    BY <1>2
  <2>2. IsFiniteSet(holders) /\ n + 1 \notin holders /\ Cardinality(holders) \in Nat
    BY <1>1, FS_Subset, FS_CardinalityType
  <2>3. holdersOfMore = IF d.tf[t] > 0 THEN holders \union {n + 1} ELSE holders
    BY <1>1
  <2> HIDE DEF holders, holdersOfMore
  <2>4. Cardinality(holders \union {n + 1}) = Cardinality(holders) + 1
    BY <2>2, FS_AddElement
  <2>5. Cardinality(holdersOfMore) = Cardinality(holders) + (IF d.tf[t] > 0 THEN 1 ELSE 0)
    BY <2>2, <2>3, <2>4
  <2> QED BY <2>1, <2>5 DEF holdersOfMore
<1>5. SumFunction([i \in 1 .. n + 1 |-> C!Length(more[i])]) = before.tokens + C!Length(d)
  <2> DEFINE lengths == [i \in 1 .. n |-> C!Length(documents[i])]
             lengthsOfMore == [i \in 1 .. n + 1 |-> C!Length(more[i])]
  <2>1. before.tokens = SumFunction(lengths)
    BY <1>2
  <2>2. \A i \in 1 .. n : lengths[i] = lengthsOfMore[i] /\ lengths[i] \in Int
    BY <1>1, DocumentsAssumption
  <2>3. lengthsOfMore[n + 1] = C!Length(d) /\ C!Length(d) \in Int
    BY <1>1, DocumentsAssumption
  <2>4. DOMAIN lengths = 1 .. n /\ DOMAIN lengthsOfMore = (1 .. n) \union {n + 1}
    BY <1>1
  <2> HIDE DEF lengths, lengthsOfMore
  <2>5. \A i \in (1 .. n) \union {n + 1} : lengthsOfMore[i] \in Int
    BY <2>2, <2>3
  <2>6. IsFiniteSet(1 .. n) /\ n + 1 \notin 1 .. n
    BY <1>1
  <2>7. SumFunction(lengthsOfMore) = SumFunction(lengths) + lengthsOfMore[n + 1]
    <3> DEFINE S == 1 .. n
               x == n + 1
    <3>1. /\ IsFiniteSet(S) /\ x \notin S
          /\ DOMAIN lengthsOfMore = S \union {x} /\ \A i \in S \union {x} : lengthsOfMore[i] \in Int
          /\ DOMAIN lengths = S /\ \A i \in S : lengths[i] = lengthsOfMore[i]
      BY <2>2, <2>4, <2>5, <2>6
    <3> HIDE DEF S, x
    <3>2. SumFunction(lengthsOfMore) = SumFunction(lengths) + lengthsOfMore[x]
      BY <3>1, SumOfMore
    <3> QED BY <3>2 DEF x
  <2> QED BY <2>1, <2>3, <2>7 DEF lengthsOfMore
<1>6. before.count = n
  BY <1>2
<1>7. C!Statistics(more) = Grown(before, d)
  <2> HIDE DEF more, before
  <2>1. [t \in Terms |-> Cardinality({i \in 1 .. n + 1 : more[i].tf[t] > 0})]
        = [t \in Terms |-> before.frequency[t] + (IF d.tf[t] > 0 THEN 1 ELSE 0)]
    BY <1>4
  <2> QED BY <1>3, <1>5, <1>6, <2>1 DEF Grown
<1>8. Grown(before, d) \in StatisticsUpTo(n + 1)
  <2>1. C!Length(d) \in 0 .. MaxLength /\ MaxLength \in Nat
    BY DocumentsAssumption, ShardAssumption
  <2>2. before \in StatisticsUpTo(n)
    OBVIOUS
  <2>3. (n + 1) * MaxLength = n * MaxLength + MaxLength /\ n * MaxLength \in Nat
    BY <1>1, <2>1
  <2> HIDE DEF n, before
  <2>4. before.tokens \in 0 .. n * MaxLength /\ before.frequency \in [Terms -> 0 .. n] /\ before.count = n
    BY <2>2 DEF StatisticsUpTo
  <2>5. before.tokens + C!Length(d) \in 0 .. (n + 1) * MaxLength
    BY <2>1, <2>3, <2>4
  <2>6. [t \in Terms |-> before.frequency[t] + (IF d.tf[t] > 0 THEN 1 ELSE 0)] \in [Terms -> 0 .. n + 1]
    BY <1>1, <2>4
  <2> QED BY <1>1, <2>4, <2>5, <2>6 DEF Grown, StatisticsUpTo
<1> QED BY <1>7, <1>8

-----------------------------------------------------------------------------
\* Dealing.

Types ==
  /\ shardCount \in ShardCounts
  /\ shards \in [ShardIds -> Seq(Documents)]
  /\ count \in 0 .. MaxDocuments

\* Shard s has the documents s, s + shardCount, s + 2 * shardCount, ... below count.
Dealt == \A s \in ShardIds, l \in Nat : l < Len(shards[s]) <=> GlobalOf(s, l) < count

LEMMA Numbers ==
  ASSUME Types
  PROVE  /\ shardCount \in Nat \ {0} /\ count \in Nat
         /\ \A g \in Nat : /\ ShardOf(g) \in ShardIds /\ LocalOf(g) \in Nat
                           /\ GlobalOf(ShardOf(g), LocalOf(g)) = g
         /\ \A s \in ShardIds, l \in Nat :
              /\ GlobalOf(s, l) \in Nat
              /\ ShardOf(GlobalOf(s, l)) = s /\ LocalOf(GlobalOf(s, l)) = l
         /\ \A s \in ShardIds, l, m \in Nat : GlobalOf(s, l) < GlobalOf(s, m) <=> l < m
<1>1. shardCount \in Nat \ {0} /\ count \in Nat
  BY ShardAssumption DEF Types
<1>2. ASSUME NEW g \in Nat
      PROVE  /\ ShardOf(g) \in ShardIds /\ LocalOf(g) \in Nat
             /\ GlobalOf(ShardOf(g), LocalOf(g)) = g
  BY <1>1, Division DEF ShardOf, LocalOf, GlobalOf, ShardIds
<1>3. ASSUME NEW s \in ShardIds, NEW l \in Nat
      PROVE  /\ GlobalOf(s, l) \in Nat
             /\ ShardOf(GlobalOf(s, l)) = s /\ LocalOf(GlobalOf(s, l)) = l
  <2> DEFINE g == GlobalOf(s, l)
  <2>1. s \in 0 .. shardCount - 1 /\ g = l * shardCount + s
    BY DEF ShardIds, GlobalOf
  <2>2. g \in Nat
    BY <1>1, <2>1, DivisionIsUnique
  <2>3. /\ g % shardCount \in 0 .. shardCount - 1 /\ g \div shardCount \in Nat
        /\ g = (g \div shardCount) * shardCount + (g % shardCount)
    BY <1>1, <2>2, Division
  <2> HIDE DEF g
  <2>4. l = g \div shardCount /\ s = g % shardCount
    BY <1>1, <2>1, <2>3, DivisionIsUnique
  <2> QED BY <2>2, <2>4 DEF g, ShardOf, LocalOf
<1>4. ASSUME NEW s \in ShardIds, NEW l \in Nat, NEW m \in Nat
      PROVE  GlobalOf(s, l) < GlobalOf(s, m) <=> l < m
  <2>1. s \in 0 .. shardCount - 1
    BY DEF ShardIds
  <2> QED BY <1>1, <2>1, DivisionIsUnique DEF GlobalOf
<1> QED BY <1>1, <1>2, <1>3, <1>4

LEMMA Lookups ==
  ASSUME Types, Dealt
  PROVE  /\ \A g \in 0 .. count - 1 : /\ LocalOf(g) + 1 \in DOMAIN shards[ShardOf(g)]
                                      /\ Lookup(g) \in Documents
         /\ Whole \in Seq(Documents) /\ Len(Whole) = count
         /\ \A s \in ShardIds : \A i \in DOMAIN shards[s] :
              /\ i - 1 \in Nat /\ GlobalOf(s, i - 1) \in 0 .. count - 1
              /\ Lookup(GlobalOf(s, i - 1)) = shards[s][i]
<1>1. ASSUME NEW s \in ShardIds
      PROVE  /\ shards[s] \in Seq(Documents) /\ Len(shards[s]) \in Nat
             /\ DOMAIN shards[s] = 1 .. Len(shards[s])
             /\ \A i \in DOMAIN shards[s] : shards[s][i] \in Documents
  BY DEF Types
<1>2. ASSUME NEW g \in 0 .. count - 1
      PROVE  LocalOf(g) + 1 \in DOMAIN shards[ShardOf(g)] /\ Lookup(g) \in Documents
  <2>1. /\ ShardOf(g) \in ShardIds /\ LocalOf(g) \in Nat /\ g \in Nat
        /\ GlobalOf(ShardOf(g), LocalOf(g)) < count
    BY Numbers
  <2>2. LocalOf(g) < Len(shards[ShardOf(g)])
    BY <2>1 DEF Dealt
  <2>3. LocalOf(g) + 1 \in 1 .. Len(shards[ShardOf(g)])
    BY <1>1, <2>1, <2>2
  <2> QED BY <1>1, <2>1, <2>3 DEF Lookup
<1>3. Whole \in Seq(Documents) /\ Len(Whole) = count
  <2>1. \A i \in 1 .. count : Lookup(i - 1) \in Documents
    BY <1>2, Numbers
  <2>2. count \in Nat
    BY Numbers
  <2> QED BY <2>1, <2>2 DEF Whole
<1>4. ASSUME NEW s \in ShardIds, NEW i \in DOMAIN shards[s]
      PROVE  /\ i - 1 \in Nat /\ GlobalOf(s, i - 1) \in 0 .. count - 1
             /\ Lookup(GlobalOf(s, i - 1)) = shards[s][i]
  <2>1. i - 1 \in Nat /\ i - 1 < Len(shards[s]) /\ (i - 1) + 1 = i
    BY <1>1
  <2>2. GlobalOf(s, i - 1) < count /\ GlobalOf(s, i - 1) \in Nat /\ count \in Nat
    BY <2>1, Numbers DEF Dealt
  <2>3. ShardOf(GlobalOf(s, i - 1)) = s /\ LocalOf(GlobalOf(s, i - 1)) = i - 1
    BY <2>1, Numbers
  <2> QED BY <2>1, <2>2, <2>3 DEF Lookup
<1> QED BY <1>2, <1>3, <1>4

LEMMA WholeAt ==
  ASSUME Types, NEW g \in 0 .. count - 1
  PROVE  g + 1 \in 1 .. count /\ Whole[g + 1] = Lookup(g)
<1>1. count \in Nat
  BY Numbers
<1>2. g + 1 \in 1 .. count /\ (g + 1) - 1 = g
  BY <1>1
<1> QED BY <1>2 DEF Whole

LEMMA AppendIs ==
  ASSUME NEW S, NEW seq \in Seq(S), NEW e \in S
  PROVE  Append(seq, e) = [i \in 1 .. Len(seq) + 1 |-> IF i = Len(seq) + 1 THEN e ELSE seq[i]]
<1>1. Append(seq, e) \in [1 .. Len(seq) + 1 -> S]
  BY AppendProperties, LenProperties
<1>2. \A i \in 1 .. Len(seq) + 1 :
        Append(seq, e)[i] = IF i = Len(seq) + 1 THEN e ELSE seq[i]
  BY LenProperties
<1> QED BY <1>1, <1>2

\* The next document goes to the end of its shard, and of the whole.
LEMMA AddDeals ==
  ASSUME Types, Dealt, NEW d \in Documents, AddDocument(d)
  PROVE  /\ Types' /\ Dealt'
         /\ Whole' = Append(Whole, d)
<1> DEFINE home == ShardOf(count)
           place == LocalOf(count)
<1>1. /\ home \in ShardIds /\ place \in Nat /\ GlobalOf(home, place) = count
      /\ count \in Nat /\ shardCount \in Nat \ {0}
  BY Numbers
<1>2. /\ shardCount' = shardCount /\ ShardIds' = ShardIds /\ count' = count + 1
      /\ shards' = [shards EXCEPT ![home] = Append(shards[home], d)]
      /\ count < MaxDocuments
  BY DEF AddDocument, ShardIds
<1>3. ASSUME NEW s \in ShardIds
      PROVE  shards[s] \in Seq(Documents) /\ Len(shards[s]) \in Nat
  BY DEF Types
<1>4. Len(shards[home]) = place
  <2>1. \A l \in Nat : l < Len(shards[home]) <=> l < place
    BY <1>1, Numbers DEF Dealt
  <2>2. Len(shards[home]) \in Nat
    BY <1>1, <1>3
  <2> QED BY <1>1, <2>1, <2>2
<1>5. /\ shards'[home] = Append(shards[home], d)
      /\ \A s \in ShardIds \ {home} : shards'[s] = shards[s]
  BY <1>1, <1>2 DEF Types
<1>6. Types'
  <2>1. Append(shards[home], d) \in Seq(Documents)
    BY <1>1, <1>3
  <2>2. shards' \in [ShardIds -> Seq(Documents)]
    BY <1>2, <2>1 DEF Types
  <2>3. count' \in 0 .. MaxDocuments
    BY <1>1, <1>2, ShardAssumption
  <2> QED BY <1>2, <2>2, <2>3 DEF Types
<1>7. \A s, l : GlobalOf(s, l)' = GlobalOf(s, l)
  BY <1>2 DEF GlobalOf
<1>8. ASSUME NEW s \in ShardIds, NEW l \in Nat
      PROVE  l < Len(shards'[s]) <=> GlobalOf(s, l) < count'
  <2>1. GlobalOf(s, l) \in Nat
    BY Numbers
  <2>2. CASE s = home
    <3>1. Len(shards'[s]) = place + 1
      BY <1>1, <1>3, <1>4, <1>5, <2>2
    <3>2. GlobalOf(home, l) < GlobalOf(home, place) <=> l < place
      BY <1>1, Numbers
    <3>3. l = place => GlobalOf(s, l) = count
      BY <1>1, <2>2
    <3>4. l > place => GlobalOf(s, l) > count
      BY <1>1, <2>2, Numbers
    <3> QED BY <1>1, <1>2, <2>1, <2>2, <3>1, <3>2, <3>3, <3>4
  <2>3. CASE s /= home
    <3>1. GlobalOf(s, l) /= count
      BY <2>3, Numbers
    <3>2. l < Len(shards[s]) <=> GlobalOf(s, l) < count
      BY DEF Dealt
    <3> QED BY <1>1, <1>2, <1>5, <2>1, <2>3, <3>1, <3>2
  <2> QED BY <2>2, <2>3
<1>9. Dealt'
  BY <1>2, <1>7, <1>8 DEF Dealt
<1>10. Whole' = Append(Whole, d)
  <2>2. Whole' = [i \in 1 .. count + 1 |-> shards'[ShardOf(i - 1)][LocalOf(i - 1) + 1]]
    BY <1>2 DEF Whole, Lookup, ShardOf, LocalOf
  <2>3. ASSUME NEW i \in 1 .. count
        PROVE  shards'[ShardOf(i - 1)][LocalOf(i - 1) + 1] = Whole[i]
    <3> DEFINE s == ShardOf(i - 1)
               l == LocalOf(i - 1)
    <3>1. i - 1 \in 0 .. count - 1 /\ i - 1 \in Nat
      BY <1>1
    <3>2. s \in ShardIds /\ l + 1 \in DOMAIN shards[s]
      BY <3>1, Numbers, Lookups
    <3>3. Whole[i] = shards[s][l + 1]
      BY DEF Whole, Lookup
    <3> HIDE DEF s, l
    <3>4. shards'[s][l + 1] = shards[s][l + 1]
      <4>1. CASE s = home
        <5>1. /\ shards[home] \in Seq(Documents) /\ d \in Documents /\ Len(shards[home]) \in Nat
              /\ l + 1 \in 1 .. Len(shards[home])
          BY <1>1, <1>3, <3>2, <4>1
        <5> HIDE DEF home
        <5> QED BY <1>5, <4>1, <5>1, AppendIs
      <4> QED BY <1>5, <3>2, <4>1
    <3> QED BY <3>3, <3>4 DEF s, l
  <2>4. shards'[ShardOf(count)][LocalOf(count) + 1] = d
    BY <1>1, <1>3, <1>4, <1>5
  <2>5. Whole \in Seq(Documents) /\ Len(Whole) = count
    BY Lookups
  <2>6. DOMAIN Whole' = 1 .. count + 1 /\ \A i \in 1 .. count + 1 :
          Whole'[i] = IF i = count + 1 THEN d ELSE Whole[i]
    <3>1. (count + 1) - 1 = count /\ 1 .. count + 1 = (1 .. count) \union {count + 1}
          /\ count + 1 \notin 1 .. count
      BY <1>1
    <3> QED BY <2>2, <2>3, <2>4, <3>1
  <2>7. Append(Whole, d) = [i \in 1 .. count + 1 |-> IF i = count + 1 THEN d ELSE Whole[i]]
    BY <2>5, AppendIs
  <2>8. Whole' = [i \in 1 .. count + 1 |-> Whole'[i]]
    BY <2>2
  <2> QED BY <2>6, <2>7, <2>8
<1> QED BY <1>6, <1>9, <1>10

-----------------------------------------------------------------------------
\* What the shards hold together.

\* No identifier is given twice, and the builder knows all of them.
Identified ==
  /\ externalIds = {Whole[i].id : i \in 1 .. count}
  /\ \A i, j \in 1 .. count : Whole[i].id = Whole[j].id => i = j

\* The statistics of the shards add up to those of the whole.
Summed ==
  /\ C!Statistics(Whole) \in StatisticsUpTo(count)
  /\ \A s \in ShardIds : C!Statistics(shards[s]) \in StatisticsUpTo(Len(shards[s]))
  /\ GlobalStatistics = C!Statistics(Whole)
  /\ state /= "building" => global = C!Statistics(Whole)

BuildInv ==
  /\ Types /\ Dealt /\ Identified /\ Summed
  /\ state \in {"building", "built", "searching", "done"}

LEMMA AddIdentifies ==
  ASSUME Types, Dealt, Identified, NEW d \in Documents, AddDocument(d)
  PROVE  /\ Identified'
         /\ \A i \in DOMAIN Whole : Whole[i].id /= d.id
<1>1. /\ count' = count + 1 /\ count \in Nat
      /\ externalIds' = externalIds \union {d.id} /\ d.id \notin externalIds
  BY Numbers DEF AddDocument
<1>2. /\ Whole \in Seq(Documents) /\ Len(Whole) = count /\ DOMAIN Whole = 1 .. count
      /\ Whole' = Append(Whole, d)
  BY Lookups, AddDeals DEF Whole
<1>3. Whole'[count + 1] = d /\ \A i \in 1 .. count : Whole'[i] = Whole[i]
  BY <1>1, <1>2, AppendIs
<1>4. 1 .. count + 1 = (1 .. count) \union {count + 1} /\ count + 1 \notin 1 .. count
  BY <1>1
<1>5. \A i \in 1 .. count : Whole[i].id /= d.id
  BY <1>1 DEF Identified
<1>6. externalIds' = {Whole'[i].id : i \in 1 .. count + 1}
  BY <1>1, <1>3, <1>4 DEF Identified
<1>7. \A i, j \in 1 .. count + 1 : Whole'[i].id = Whole'[j].id => i = j
  BY <1>3, <1>4, <1>5 DEF Identified
<1>8. Identified'
  BY <1>1, <1>6, <1>7 DEF Identified
<1> QED BY <1>2, <1>5, <1>8

LEMMA AddSums ==
  ASSUME Types, Dealt, Summed, NEW d \in Documents, AddDocument(d)
  PROVE  Summed'
<1> DEFINE home == ShardOf(count)
<1>1. /\ home \in ShardIds /\ count \in Nat /\ shardCount \in Nat \ {0}
      /\ shardCount' = shardCount /\ ShardIds' = ShardIds /\ count' = count + 1
      /\ shards' = [shards EXCEPT ![home] = Append(shards[home], d)]
      /\ state = "building" /\ state' = state
  BY Numbers DEF AddDocument, ShardIds
<1>2. \A s \in ShardIds : /\ shards[s] \in Seq(Documents) /\ Len(shards[s]) \in Nat
                          /\ C!Statistics(shards[s]) \in StatisticsUpTo(Len(shards[s]))
  BY DEF Types, Summed
<1>3. /\ shards'[home] = Append(shards[home], d)
      /\ \A s \in ShardIds \ {home} : shards'[s] = shards[s]
  BY <1>1 DEF Types
<1>4. /\ C!Statistics(Whole') = Grown(C!Statistics(Whole), d)
      /\ C!Statistics(Whole') \in StatisticsUpTo(count')
  BY <1>1, Lookups, AddDeals, StatisticsOfMore DEF Summed
<1>5. /\ C!Statistics(shards'[home]) = Grown(C!Statistics(shards[home]), d)
      /\ C!Statistics(shards'[home]) \in StatisticsUpTo(Len(shards[home]) + 1)
      /\ Len(shards'[home]) = Len(shards[home]) + 1
  <2> HIDE DEF home
  <2> QED BY <1>1, <1>2, <1>3, StatisticsOfMore, AppendProperties
<1>6. \A s \in ShardIds : C!Statistics(shards'[s]) \in StatisticsUpTo(Len(shards'[s]))
  BY <1>2, <1>3, <1>5
<1> DEFINE before == [s \in ShardIds |-> C!Statistics(shards[s])]
           after == [s \in ShardIds |-> C!Statistics(shards'[s])]
           Total(local) ==
             [count |-> SumFunction([s \in ShardIds |-> local[s].count]),
              frequency |-> [t \in Terms |-> SumFunction([s \in ShardIds |-> local[s].frequency[t]])],
              tokens |-> SumFunction([s \in ShardIds |-> local[s].tokens])]
<1>7. GlobalStatistics = Total(before) /\ GlobalStatistics' = Total(after)
  <2>1. GlobalStatistics = Total(before)
    BY DEF GlobalStatistics
  <2>2. GlobalStatistics' = Total(after)
    BY <1>1 DEF GlobalStatistics, ShardIds
  <2> QED BY <2>1, <2>2
<1>8. IsFiniteSet(ShardIds)
  BY <1>1, FS_Interval DEF ShardIds
<1>9. \A s \in ShardIds : /\ before[s].count \in Int /\ before[s].tokens \in Int
                          /\ \A t \in Terms : before[s].frequency[t] \in Int
  BY <1>2 DEF StatisticsUpTo
<1>10. \A s \in ShardIds \ {home} : after[s] = before[s]
  BY <1>3
<1>11. /\ after[home].count = before[home].count + 1
       /\ after[home].tokens = before[home].tokens + C!Length(d)
       /\ \A t \in Terms : after[home].frequency[t] =
                             before[home].frequency[t] + (IF d.tf[t] > 0 THEN 1 ELSE 0)
  BY <1>1, <1>5 DEF Grown
<1>12. C!Length(d) \in Int
  BY DocumentsAssumption
<1> HIDE DEF before, after, home
<1>13. Total(after).count = Total(before).count + 1
  <2> DEFINE f == [s \in ShardIds |-> before[s].count]
             g == [s \in ShardIds |-> after[s].count]
  <2>1. /\ DOMAIN f = ShardIds /\ DOMAIN g = ShardIds /\ g[home] = f[home] + 1
        /\ \A s \in ShardIds : f[s] \in Int
        /\ \A s \in ShardIds \ {home} : g[s] = f[s]
    BY <1>1, <1>9, <1>10, <1>11
  <2> HIDE DEF f, g
  <2>2. SumFunction(g) = SumFunction(f) + 1
    BY <1>1, <1>8, <2>1, SumOfUpdated
  <2> QED BY <2>2 DEF f, g
<1>14. Total(after).tokens = Total(before).tokens + C!Length(d)
  <2> DEFINE f == [s \in ShardIds |-> before[s].tokens]
             g == [s \in ShardIds |-> after[s].tokens]
  <2>1. /\ DOMAIN f = ShardIds /\ DOMAIN g = ShardIds /\ g[home] = f[home] + C!Length(d)
        /\ \A s \in ShardIds : f[s] \in Int
        /\ \A s \in ShardIds \ {home} : g[s] = f[s]
    BY <1>1, <1>9, <1>10, <1>11
  <2> HIDE DEF f, g
  <2>2. SumFunction(g) = SumFunction(f) + C!Length(d)
    BY <1>1, <1>8, <1>12, <2>1, SumOfUpdated
  <2> QED BY <2>2 DEF f, g
<1>15. ASSUME NEW t \in Terms
       PROVE  Total(after).frequency[t] = Total(before).frequency[t] + (IF d.tf[t] > 0 THEN 1 ELSE 0)
  <2> DEFINE f == [s \in ShardIds |-> before[s].frequency[t]]
             g == [s \in ShardIds |-> after[s].frequency[t]]
             v == IF d.tf[t] > 0 THEN 1 ELSE 0
  <2>1. /\ DOMAIN f = ShardIds /\ DOMAIN g = ShardIds /\ g[home] = f[home] + v
        /\ \A s \in ShardIds : f[s] \in Int
        /\ \A s \in ShardIds \ {home} : g[s] = f[s]
        /\ v \in Int
    BY <1>1, <1>9, <1>10, <1>11
  <2> HIDE DEF f, g, v
  <2>2. SumFunction(g) = SumFunction(f) + v
    BY <1>1, <1>8, <2>1, SumOfUpdated
  <2> QED BY <2>2 DEF f, g, v
<1>16. Total(after) = Grown(Total(before), d)
  BY <1>13, <1>14, <1>15 DEF Grown
<1>17. GlobalStatistics' = C!Statistics(Whole')
  BY <1>4, <1>7, <1>16 DEF Summed
<1> QED BY <1>1, <1>4, <1>6, <1>17 DEF Summed
-----------------------------------------------------------------------------
\* Searching.

\* The hits of the whole collection, and those of one shard among them.
All == C!Results(request, Whole, C!Statistics(Whole))

OfShard(entries, s) == {e \in entries : ShardOf(e.doc) = s}

Hit(g) == [doc |-> g, score |-> C!Score(Lookup(g), request.terms, C!Statistics(Whole))]

Hitting == {g \in 0 .. count - 1 : C!Selects(request, Lookup(g))}

LEMMA ScoresAreIntegers ==
  ASSUME Types, Summed, NEW d \in Documents, NEW q \in Requests
  PROVE  C!Score(d, q.terms, C!Statistics(Whole)) \in Int
<1> DEFINE statistics == C!Statistics(Whole)
<1>1. statistics \in StatisticsUpTo(count)
  BY DEF Summed
<1>2. count \in 0 .. MaxDocuments /\ MaxDocuments \in Nat /\ MaxLength \in Nat
  BY ShardAssumption DEF Types
<1>3. count * MaxLength \in Nat /\ count * MaxLength <= MaxDocuments * MaxLength
  <2>1. PICK k \in Nat : MaxDocuments = count + k
    <3>1. MaxDocuments - count \in Nat /\ MaxDocuments = count + (MaxDocuments - count)
      BY <1>2
    <3> QED BY <3>1
  <2>2. /\ MaxDocuments * MaxLength = count * MaxLength + k * MaxLength
        /\ count * MaxLength \in Nat /\ k * MaxLength \in Nat
    BY <1>2, <2>1
  <2> QED BY <2>2
<1> HIDE DEF statistics
<1>4. /\ statistics.count \in 0 .. MaxDocuments
      /\ statistics.frequency \in [Terms -> 0 .. MaxDocuments]
      /\ statistics.tokens \in 0 .. MaxDocuments * MaxLength
      /\ statistics = [count |-> statistics.count, frequency |-> statistics.frequency,
                       tokens |-> statistics.tokens]
  <2>1. /\ statistics.count = count
        /\ statistics.frequency \in [Terms -> 0 .. count]
        /\ statistics.tokens \in 0 .. count * MaxLength
        /\ statistics = [count |-> statistics.count, frequency |-> statistics.frequency,
                         tokens |-> statistics.tokens]
    BY <1>1 DEF StatisticsUpTo
  <2>2. statistics.frequency \in [Terms -> 0 .. MaxDocuments]
    BY <1>2, <2>1
  <2>3. statistics.tokens \in 0 .. MaxDocuments * MaxLength
    <3>1. \A t \in 0 .. count * MaxLength : t \in 0 .. MaxDocuments * MaxLength
      BY <1>2, <1>3
    <3> QED BY <2>1, <3>1
  <2> QED BY <1>2, <2>1, <2>2, <2>3
<1>5. q.terms \in {r.terms : r \in Requests}
  OBVIOUS
<1>6. C!Score(d, q.terms, [count |-> statistics.count, frequency |-> statistics.frequency,
                           tokens |-> statistics.tokens]) \in Int
  BY <1>4, <1>5, ScoresAssumption
<1> QED BY <1>4, <1>6 DEF statistics

LEMMA AllAre ==
  ASSUME Types, Dealt, Summed, request \in Requests
  PROVE  /\ All = {Hit(g) : g \in Hitting}
         /\ \A e \in All : e.doc \in 0 .. count - 1 /\ e = Hit(e.doc)
         /\ All \subseteq HeapEntries
         /\ IsFiniteSet(All)
<1>1. Whole \in Seq(Documents) /\ Len(Whole) = count /\ count \in Nat /\ DOMAIN Whole = 1 .. count
  BY Lookups, Numbers DEF Whole
<1>2. \A i \in 1 .. count : Whole[i] = Lookup(i - 1)
  BY DEF Whole
<1>3. All = {Hit(g) : g \in Hitting}
  <2>1. All = {[doc |-> i - 1, score |-> C!Score(Whole[i], request.terms, C!Statistics(Whole))] :
                 i \in {i \in 1 .. count : C!Selects(request, Whole[i])}}
    BY <1>1 DEF All, C!Results
  <2>2. ASSUME NEW i \in 1 .. count, C!Selects(request, Whole[i])
        PROVE  /\ i - 1 \in Hitting
               /\ [doc |-> i - 1, score |-> C!Score(Whole[i], request.terms, C!Statistics(Whole))]
                    = Hit(i - 1)
    <3>1. i - 1 \in 0 .. count - 1
      BY <1>1
    <3> QED BY <1>2, <2>2, <3>1 DEF Hitting, Hit
  <2>3. ASSUME NEW g \in Hitting
        PROVE  \E i \in 1 .. count : C!Selects(request, Whole[i]) /\ i - 1 = g
    <3>1. g + 1 \in 1 .. count /\ (g + 1) - 1 = g
      BY <1>1 DEF Hitting
    <3>2. C!Selects(request, Whole[g + 1])
      BY <1>2, <3>1 DEF Hitting
    <3> QED BY <3>1, <3>2
  <2>4. ASSUME NEW e \in All PROVE e \in {Hit(g) : g \in Hitting}
    BY <2>1, <2>2
  <2>5. ASSUME NEW g \in Hitting PROVE Hit(g) \in All
    <3>1. PICK i \in 1 .. count : C!Selects(request, Whole[i]) /\ i - 1 = g
      BY <2>3
    <3> QED BY <2>1, <2>2, <3>1
  <2> QED BY <2>4, <2>5
<1>4. \A e \in All : e.doc \in 0 .. count - 1 /\ e = Hit(e.doc)
  BY <1>3 DEF Hit, Hitting
<1>5. All \subseteq HeapEntries
  <2>1. \A g \in 0 .. count - 1 : Lookup(g) \in Documents
    BY Lookups
  <2>2. \A g \in Hitting : Hit(g) \in HeapEntries
    BY <1>1, <2>1, ScoresAreIntegers DEF Hit, Hitting, HeapEntries
  <2> QED BY <1>3, <2>2
<1>6. IsFiniteSet(All)
  <2>1. IsFiniteSet(Hitting)
    <3>1. IsFiniteSet(0 .. count - 1)
      BY <1>1, FS_Interval
    <3> QED BY <3>1, FS_Subset DEF Hitting
  <2>2. [g \in Hitting |-> Hit(g)] \in Surjection(Hitting, All)
    BY <1>3 DEF Surjection
  <2> QED BY <2>1, <2>2, FS_Surjection
<1> QED BY <1>3, <1>4, <1>5, <1>6

\* The limit of a shard.
LEMMA LimitIs ==
  ASSUME Types, NEW s \in ShardIds, request.top_k \in Nat
  PROVE  LocalLimit(s) = IF request.top_k <= Len(shards[s]) THEN request.top_k ELSE Len(shards[s])
<1>1. Len(shards[s]) \in Nat
  BY DEF Types
<1> QED BY <1>1 DEF LocalLimit, Min

\* What one shard is searched for, in its own numbers.
Local(s) == C!Results(request, shards[s], C!Statistics(Whole))

\* The answer of one shard, under global numbers, is the best of its share of all hits:
\* a limit of all its documents included.
LEMMA ShardAnswers ==
  ASSUME Types, Dealt, Summed, request \in Requests, NEW s \in ShardIds,
         NEW best, IsBest(best, Local(s), LocalLimit(s))
  PROVE  IsBest({[doc |-> GlobalOf(s, e.doc), score |-> e.score] : e \in best},
                OfShard(All, s), request.top_k)
<1> DEFINE local == Local(s)
           k == request.top_k
           m == Len(shards[s])
           LocalHit(i) == [doc |-> i - 1,
                           score |-> C!Score(shards[s][i], request.terms, C!Statistics(Whole))]
           places == {i \in 1 .. m : C!Selects(request, shards[s][i])}
           name == [e \in local |-> [doc |-> GlobalOf(s, e.doc), score |-> e.score]]
<1>1. shards[s] \in Seq(Documents) /\ m \in Nat /\ DOMAIN shards[s] = 1 .. m
  BY DEF Types
<1>2. k \in Nat \ {0}
  BY RequestsAssumption
<1>3. local = {LocalHit(i) : i \in places}
  BY <1>1 DEF Local, C!Results
<1>4. IsFiniteSet(local) /\ Cardinality(local) <= m
  <2>1. IsFiniteSet(1 .. m) /\ Cardinality(1 .. m) = m
    BY <1>1, FS_Interval
  <2>2. IsFiniteSet(places) /\ Cardinality(places) <= m /\ Cardinality(places) \in Nat
    BY <2>1, FS_Subset, FS_CardinalityType
  <2>3. [i \in places |-> LocalHit(i)] \in Surjection(places, local)
    BY <1>3 DEF Surjection
  <2> HIDE DEF local, places, m
  <2>4. IsFiniteSet(local) /\ Cardinality(local) <= Cardinality(places)
    BY <2>2, <2>3, FS_Surjection
  <2>5. Cardinality(local) \in Nat
    BY <2>4, FS_CardinalityType
  <2> QED BY <1>1, <2>2, <2>4, <2>5
<1>5. IsBest(best, local, k)
  <2>1. LocalLimit(s) = IF k <= m THEN k ELSE m
    BY <1>2, LimitIs
  <2>2. IsBest(best, local, IF k <= m THEN k ELSE m)
    BY <2>1
  <2> HIDE DEF local, k, m
  <2> QED BY <1>1, <1>2, <1>4, <2>2, BestUnderLimit
<1>6. ASSUME NEW i \in places
      PROVE  /\ GlobalOf(s, i - 1) \in Hitting /\ ShardOf(GlobalOf(s, i - 1)) = s
             /\ name[LocalHit(i)] = Hit(GlobalOf(s, i - 1))
             /\ i - 1 \in Nat /\ LocalHit(i).score \in Int
  <2>1. /\ i \in DOMAIN shards[s] /\ i - 1 \in Nat /\ GlobalOf(s, i - 1) \in 0 .. count - 1
        /\ Lookup(GlobalOf(s, i - 1)) = shards[s][i]
    BY <1>1, Lookups
  <2>2. GlobalOf(s, i - 1) \in Hitting
    BY <2>1 DEF Hitting
  <2>3. ShardOf(GlobalOf(s, i - 1)) = s
    BY <2>1, Numbers
  <2>4. LocalHit(i) \in local
    BY <1>3
  <2>5. name[LocalHit(i)] = Hit(GlobalOf(s, i - 1))
    <3>1. name[LocalHit(i)] = [doc |-> GlobalOf(s, LocalHit(i).doc), score |-> LocalHit(i).score]
      <4> HIDE DEF local, LocalHit
      <4> QED BY <2>4
    <3> QED BY <2>1, <3>1 DEF Hit
  <2>6. shards[s][i] \in Documents
    BY <1>1, <2>1
  <2> QED BY <2>1, <2>2, <2>3, <2>5, <2>6, ScoresAreIntegers
<1>7. \A e \in local : name[e] \in OfShard(All, s)
  <2>1. \A g \in Hitting : Hit(g) \in All /\ Hit(g).doc = g
    BY AllAre DEF Hit
  <2> HIDE DEF local, name, LocalHit
  <2> QED BY <1>3, <1>6, <2>1 DEF OfShard
<1>8. \A f \in OfShard(All, s) : \E e \in local : name[e] = f
  <2> SUFFICES ASSUME NEW f \in OfShard(All, s) PROVE \E i \in places : name[LocalHit(i)] = f
    BY <1>3
  <2>1. PICK g \in Hitting : f = Hit(g) /\ ShardOf(g) = s
    BY AllAre DEF OfShard, Hit
  <2>2. g \in 0 .. count - 1 /\ g \in Nat /\ C!Selects(request, Lookup(g))
    BY <2>1, Numbers DEF Hitting
  <2>3. LocalOf(g) + 1 \in DOMAIN shards[s] /\ Lookup(g) = shards[s][LocalOf(g) + 1]
    BY <2>1, <2>2, Lookups DEF Lookup
  <2>4. LocalOf(g) + 1 \in places
    BY <1>1, <2>2, <2>3
  <2>5. LocalOf(g) \in Nat /\ GlobalOf(s, LocalOf(g)) = g /\ (LocalOf(g) + 1) - 1 = LocalOf(g)
    BY <2>1, <2>2, Numbers
  <2>6. name[LocalHit(LocalOf(g) + 1)] = Hit(g)
    <3> HIDE DEF name, LocalHit, places
    <3> QED BY <1>6, <2>4, <2>5
  <2> QED BY <2>1, <2>4, <2>6
<1>9. \A e \in local : /\ e.doc \in Nat /\ e.score \in Int
                       /\ e = [doc |-> e.doc, score |-> e.score]
  <2> SUFFICES ASSUME NEW i \in places
               PROVE  /\ LocalHit(i).doc \in Nat /\ LocalHit(i).score \in Int
                      /\ LocalHit(i) = [doc |-> LocalHit(i).doc, score |-> LocalHit(i).score]
    <3> HIDE DEF local, LocalHit, places
    <3> QED BY <1>3
  <2> QED BY <1>6
<1>10. /\ \A e, f \in local : name[e] = name[f] => e = f
       /\ \A e, f \in local : Worse(e, f) <=> Worse(name[e], name[f])
  <2> SUFFICES ASSUME NEW e \in local, NEW f \in local
               PROVE  /\ name[e] = name[f] => e = f
                      /\ Worse(e, f) <=> Worse(name[e], name[f])
    OBVIOUS
  <2>1. /\ name[e].doc = GlobalOf(s, e.doc) /\ name[e].score = e.score
        /\ name[f].doc = GlobalOf(s, f.doc) /\ name[f].score = f.score
    <3> HIDE DEF local
    <3> QED OBVIOUS
  <2>2. e.doc \in Nat /\ f.doc \in Nat
    BY <1>9
  <2>3. /\ GlobalOf(s, e.doc) < GlobalOf(s, f.doc) <=> e.doc < f.doc
        /\ GlobalOf(s, f.doc) < GlobalOf(s, e.doc) <=> f.doc < e.doc
        /\ GlobalOf(s, e.doc) \in Nat /\ GlobalOf(s, f.doc) \in Nat
    BY <2>2, Numbers
  <2> HIDE DEF local, name
  <2>4. name[e] = name[f] => e.doc = f.doc /\ e.score = f.score
    BY <2>1, <2>2, <2>3
  <2> QED BY <1>9, <2>1, <2>2, <2>3, <2>4 DEF Worse
<1>11. name \in [local -> OfShard(All, s)]
  <2>1. name = [e \in local |-> name[e]]
    OBVIOUS
  <2> HIDE DEF name, local
  <2> QED BY <1>7, <2>1
<1>12. IsBest(Renamed(name, best), OfShard(All, s), k)
  <2> DEFINE share == OfShard(All, s)
  <2>1. k \in Nat /\ IsFiniteSet(local) /\ IsBest(best, local, k)
    BY <1>2, <1>4, <1>5
  <2>2. Renames(name, local, share)
    <3> HIDE DEF name, local
    <3> QED BY <1>8, <1>10, <1>11 DEF Renames
  <2> HIDE DEF name, local, k, share
  <2>3. IsBest(Renamed(name, best), share, k)
    BY <2>1, <2>2, BestOfRenamed
  <2> QED BY <2>3 DEF share
<1>13. Renamed(name, best) = {[doc |-> GlobalOf(s, e.doc), score |-> e.score] : e \in best}
  BY <1>5 DEF IsBest, Renamed
<1> QED BY <1>12, <1>13
-----------------------------------------------------------------------------
\* The inductive invariant.

\* While shards are searched: the candidates of each shard searched are the best of its
\* share of all hits, and nothing else is a candidate.
Ranked ==
  /\ request \in Requests
  /\ \A e \in candidates : e \in All /\ ShardOf(e.doc) < next
  /\ \A s \in ShardIds :
       s < next => IsBest(OfShard(candidates, s), OfShard(All, s), request.top_k)

SearchInv ==
  /\ next \in 0 .. shardCount
  /\ state \in {"building", "built"} =>
       candidates = {} /\ hits = {} /\ next = 0 /\ request = C!NoRequest
  /\ state = "searching" => Ranked /\ hits = {}
  /\ state = "done" => Ranked /\ hits \subseteq candidates /\ IsBest(hits, All, request.top_k)

Inv == BuildInv /\ SearchInv

Searched == {e \in All : ShardOf(e.doc) < next}

\* The candidates stand for all hits of the shards searched.
LEMMA KeptSuffice ==
  ASSUME BuildInv, next \in 0 .. shardCount, Ranked,
         NEW best, IsBest(best, candidates, request.top_k)
  PROVE  IsBest(best, Searched, request.top_k)
<1> DEFINE k == request.top_k
<1>1. k \in Nat
  BY RequestsAssumption DEF Ranked
<1>2. Searched \in SUBSET HeapEntries /\ IsFiniteSet(Searched) /\ candidates \in SUBSET Searched
  BY AllAre, FS_Subset DEF BuildInv, Ranked, Searched
<1>3. ASSUME NEW f \in Searched \ candidates
      PROVE  \E B \in SUBSET candidates : Cardinality(B) = k /\ \A e \in B : Worse(f, e)
  <2> DEFINE s == ShardOf(f.doc)
             B == OfShard(candidates, s)
  <2>1. s \in ShardIds /\ s < next
    <3>1. f.doc \in Nat
      BY AllAre, Numbers DEF BuildInv, Ranked, Searched
    <3> QED BY <3>1, Numbers DEF BuildInv, Searched
  <2>2. IsBest(B, OfShard(All, s), k)
    BY <2>1 DEF Ranked
  <2>3. f \in OfShard(All, s) /\ f \notin B
    BY DEF OfShard, Searched
  <2>4. Cardinality(B) = k /\ \A e \in B : Worse(f, e)
    <3> HIDE DEF B, k, s
    <3> QED BY <2>2, <2>3 DEF IsBest, IsFull
  <2>5. B \in SUBSET candidates
    BY DEF OfShard
  <2> QED BY <2>4, <2>5
<1> HIDE DEF k
<1>4. IsBest(best, candidates, k)
  BY DEF k
<1>5. IsBest(best, Searched, k)
  BY <1>1, <1>2, <1>3, <1>4, BestOfKept
<1> QED BY <1>5 DEF k

LEMMA InitInv == Init => Inv
<1> SUFFICES ASSUME Init PROVE Inv
  OBVIOUS
<1>1. /\ shardCount \in Nat \ {0} /\ count = 0 /\ MaxDocuments \in Nat
      /\ shards = [s \in ShardIds |-> <<>>] /\ state = "building"
  BY ShardAssumption DEF Init
<1>2. Types
  BY <1>1 DEF Types, Init
<1>3. Dealt
  <2>1. \A s \in ShardIds, l \in Nat : GlobalOf(s, l) \in Nat
    BY <1>2, Numbers
  <2>2. \A s \in ShardIds : Len(shards[s]) = 0
    BY <1>1
  <2> QED BY <1>1, <2>1, <2>2 DEF Dealt
<1>4. Whole = <<>>
  <2>1. Whole \in Seq(Documents) /\ Len(Whole) = 0
    BY <1>1, <1>2, <1>3, Lookups
  <2> QED BY <2>1
<1>5. Identified
  BY <1>1 DEF Identified, Init
<1>6. GlobalStatistics = C!Statistics(<<>>)
  <2> DEFINE local == [s \in ShardIds |-> C!Statistics(shards[s])]
             zero == [s \in ShardIds |-> 0]
  <2>1. \A s \in ShardIds : /\ local[s].count = 0 /\ local[s].tokens = 0
                            /\ \A t \in Terms : local[s].frequency[t] = 0
    BY <1>1, StatisticsOfNone
  <2> HIDE DEF local
  <2>2. /\ [s \in ShardIds |-> local[s].count] = zero
        /\ [s \in ShardIds |-> local[s].tokens] = zero
        /\ \A t \in Terms : [s \in ShardIds |-> local[s].frequency[t]] = zero
    BY <2>1
  <2>3. IsFiniteSet(ShardIds)
    BY <1>1, FS_Interval DEF ShardIds
  <2> HIDE DEF zero
  <2>4. SumFunction(zero) = 0
    BY <2>3, SumOfZeros DEF zero
  <2>5. GlobalStatistics =
          [count |-> SumFunction([s \in ShardIds |-> local[s].count]),
           frequency |-> [t \in Terms |-> SumFunction([s \in ShardIds |-> local[s].frequency[t]])],
           tokens |-> SumFunction([s \in ShardIds |-> local[s].tokens])]
    BY DEF GlobalStatistics, local
  <2>6. GlobalStatistics = [count |-> 0, frequency |-> [t \in Terms |-> 0], tokens |-> 0]
    BY <2>2, <2>4, <2>5
  <2> QED BY <2>6, StatisticsOfNone
<1>7. Summed
  <2>1. \A s \in ShardIds : shards[s] = <<>> /\ Len(shards[s]) = 0
    BY <1>1
  <2>2. C!Statistics(<<>>) \in StatisticsUpTo(0)
    BY StatisticsOfNone
  <2> QED BY <1>1, <1>4, <1>6, <2>1, <2>2 DEF Summed
<1>8. SearchInv
  BY <1>1 DEF SearchInv, Init
<1> QED BY <1>1, <1>2, <1>3, <1>5, <1>7, <1>8 DEF Inv, BuildInv

-----------------------------------------------------------------------------
\* Every step keeps it.

LEMMA SameWhole ==
  ASSUME UNCHANGED <<shardCount, shards, count>>
  PROVE  /\ Whole' = Whole /\ GlobalStatistics' = GlobalStatistics /\ ShardIds' = ShardIds
         /\ Types' = Types /\ Dealt' = Dealt
         /\ request' = request => All' = All
BY DEF Whole, Lookup, ShardOf, LocalOf, GlobalStatistics, ShardIds, Types, Dealt, GlobalOf, All

LEMMA SameBuild ==
  ASSUME BuildInv, UNCHANGED built,
         state' \in {"building", "built", "searching", "done"},
         state' = "building" <=> state = "building"
  PROVE  BuildInv'
<1>1. /\ Whole' = Whole /\ GlobalStatistics' = GlobalStatistics /\ ShardIds' = ShardIds
      /\ Types' /\ Dealt' /\ count' = count /\ shards' = shards /\ global' = global
      /\ externalIds' = externalIds
  BY SameWhole DEF BuildInv, built
<1>2. Identified'
  BY <1>1 DEF BuildInv, Identified
<1>3. Summed'
  BY <1>1 DEF BuildInv, Summed, StatisticsUpTo
<1> QED BY <1>1, <1>2, <1>3 DEF BuildInv

LEMMA AddKeeps ==
  ASSUME Inv, NEW d \in Documents, AddDocument(d)
  PROVE  Inv'
<1>1. Types /\ Dealt /\ Identified /\ Summed
  BY DEF Inv, BuildInv
<1>2. Types' /\ Dealt' /\ Identified' /\ Summed'
  BY <1>1, AddDeals, AddIdentifies, AddSums
<1>3. /\ state = "building" /\ state' = "building"
      /\ UNCHANGED <<shardCount, request, next, candidates, hits>>
  BY DEF AddDocument
<1>4. SearchInv'
  BY <1>3 DEF Inv, SearchInv
<1> QED BY <1>2, <1>3, <1>4 DEF Inv, BuildInv

LEMMA FinishKeeps ==
  ASSUME Inv, Finish
  PROVE  Inv'
<1>1. /\ state = "building" /\ state' = "built" /\ global' = GlobalStatistics
      /\ UNCHANGED <<shardCount, shards, externalIds, count, request, next, candidates, hits>>
  BY DEF Finish
<1>2. /\ Whole' = Whole /\ GlobalStatistics' = GlobalStatistics /\ ShardIds' = ShardIds
      /\ Types' /\ Dealt'
  BY <1>1, SameWhole DEF Inv, BuildInv
<1>3. Identified'
  BY <1>1, <1>2 DEF Inv, BuildInv, Identified
<1>4. Summed'
  BY <1>1, <1>2 DEF Inv, BuildInv, Summed, StatisticsUpTo
<1>5. SearchInv'
  BY <1>1 DEF Inv, SearchInv
<1> QED BY <1>1, <1>2, <1>3, <1>4, <1>5 DEF Inv, BuildInv

LEMMA BeginKeeps ==
  ASSUME Inv, NEW q \in Requests, BeginSearch(q)
  PROVE  Inv'
<1>1. /\ state = "built" /\ state' = "searching" /\ request' = q
      /\ UNCHANGED <<built, next, candidates, hits>>
  BY DEF BeginSearch
<1>2. BuildInv'
  BY <1>1, SameBuild DEF Inv
<1>3. candidates' = {} /\ hits' = {} /\ next' = 0 /\ shardCount' = shardCount
  BY <1>1 DEF Inv, SearchInv, built
<1>4. Ranked'
  BY <1>1, <1>3 DEF Ranked, ShardIds
<1> QED BY <1>1, <1>2, <1>3, <1>4 DEF Inv, SearchInv

\* The entries one shard adds.
LEMMA ShardAdds ==
  ASSUME Inv, SearchShard
  PROVE  \E added : /\ candidates' = candidates \union added
                    /\ IsBest(added, OfShard(All, next), request.top_k)
<1>1. state = "searching" /\ next < shardCount /\ next \in ShardIds /\ request \in Requests
  BY Numbers DEF SearchShard, Inv, BuildInv, SearchInv, Ranked, ShardIds
<1>2. global = C!Statistics(Whole) /\ Types /\ Dealt /\ Summed
  BY <1>1 DEF Inv, BuildInv, Summed
<1>3. PICK best \in SUBSET Local(next) :
        /\ IF shards[next] = <<>> THEN best = {} ELSE IsBest(best, Local(next), LocalLimit(next))
        /\ candidates' = candidates \union
             {[doc |-> GlobalOf(next, e.doc), score |-> e.score] : e \in best}
  BY <1>2 DEF SearchShard, Local
<1>4. IsBest(best, Local(next), LocalLimit(next))
  <2>1. CASE shards[next] = <<>>
    <3>1. best = {} /\ Len(shards[next]) = 0 /\ DOMAIN shards[next] = {}
      BY <1>3, <2>1
    <3>2. Local(next) = {}
      BY <3>1 DEF Local, C!Results
    <3>3. request.top_k \in Nat \ {0}
      BY <1>1, RequestsAssumption
    <3>4. LocalLimit(next) = 0
      BY <1>1, <1>2, <3>1, <3>3, LimitIs
    <3>5. Cardinality({}) = 0
      BY FS_EmptySet
    <3> QED BY <3>1, <3>2, <3>4, <3>5 DEF IsBest
  <2> QED BY <1>3, <2>1
<1>5. IsBest({[doc |-> GlobalOf(next, e.doc), score |-> e.score] : e \in best},
             OfShard(All, next), request.top_k)
  BY <1>1, <1>2, <1>4, ShardAnswers
<1> QED BY <1>3, <1>5

LEMMA SearchKeeps ==
  ASSUME Inv, SearchShard
  PROVE  Inv'
<1>1. /\ state = "searching" /\ state' = state /\ next' = next + 1 /\ next < shardCount
      /\ UNCHANGED <<built, request, hits>>
  BY DEF SearchShard
<1>2. BuildInv'
  BY <1>1, SameBuild DEF Inv, BuildInv
<1>3. PICK added : /\ candidates' = candidates \union added
                   /\ IsBest(added, OfShard(All, next), request.top_k)
  BY ShardAdds
<1>4. /\ All' = All /\ ShardIds' = ShardIds /\ shardCount' = shardCount /\ hits = {}
      /\ \A g : ShardOf(g)' = ShardOf(g)
      /\ next \in 0 .. shardCount /\ shardCount \in Nat /\ Ranked
  BY <1>1, SameWhole, Numbers DEF built, ShardOf, Inv, BuildInv, SearchInv
<1>5. added \subseteq OfShard(All, next)
  BY <1>3 DEF IsBest
<1>6. \A e \in candidates' : e \in All /\ ShardOf(e.doc) < next + 1
  <2>1. \A e \in candidates : ShardOf(e.doc) \in Int
    BY <1>4, AllAre, Numbers DEF Ranked, ShardIds, Inv, BuildInv
  <2> QED BY <1>3, <1>4, <1>5, <2>1 DEF Ranked, OfShard
<1>7. ASSUME NEW s \in ShardIds, s < next + 1
      PROVE  IsBest(OfShard(candidates', s), OfShard(All, s), request.top_k)
  <2>0. \A e \in candidates : ShardOf(e.doc) \in Int /\ ShardOf(e.doc) < next
    BY <1>4, AllAre, Numbers DEF Ranked, ShardIds, Inv, BuildInv
  <2>1. CASE s = next
    <3>1. OfShard(candidates', s) = added
      BY <1>3, <1>4, <1>5, <2>0, <2>1 DEF OfShard
    <3> QED BY <1>3, <2>1, <3>1
  <2>2. CASE s /= next
    <3>1. OfShard(candidates', s) = OfShard(candidates, s)
      BY <1>3, <1>5, <2>2 DEF OfShard
    <3>2. s < next
      BY <1>4, <1>7, <2>2 DEF ShardIds
    <3> QED BY <1>4, <3>1, <3>2 DEF Ranked
  <2> QED BY <2>1, <2>2
<1>8. Ranked'
  <2>1. \A s \in ShardIds : /\ OfShard(candidates, s)' = OfShard(candidates', s)
                            /\ OfShard(All, s)' = OfShard(All, s)
    BY <1>1, <1>4 DEF OfShard, ShardOf, built
  <2>2. request' \in Requests /\ request' = request
    BY <1>1, <1>4 DEF Ranked
  <2>3. \A e \in candidates' : e \in All' /\ ShardOf(e.doc)' < next'
    BY <1>1, <1>4, <1>6 DEF ShardOf
  <2>4. \A s \in ShardIds' :
          s < next' => IsBest(OfShard(candidates, s)', OfShard(All, s)', request'.top_k)
    BY <1>1, <1>4, <1>7, <2>1, <2>2
  <2> QED BY <2>2, <2>3, <2>4 DEF Ranked, OfShard, ShardOf
<1>9. next' \in 0 .. shardCount'
  BY <1>1, <1>4
<1> QED BY <1>1, <1>2, <1>4, <1>8, <1>9 DEF Inv, SearchInv

LEMMA MergeAnswers ==
  ASSUME Inv, Merge
  PROVE  hits' \subseteq candidates /\ IsBest(hits', All, request.top_k)
<1>1. /\ state = "searching" /\ next = shardCount
      /\ hits' \subseteq candidates /\ IsBest(hits', candidates, request.top_k)
  BY DEF Merge
<1>2. BuildInv /\ next \in 0 .. shardCount /\ Ranked
  BY <1>1 DEF Inv, SearchInv
<1>3. IsBest(hits', Searched, request.top_k)
  BY <1>1, <1>2, KeptSuffice
<1>4. Searched = All
  <2>1. \A e \in All : e.doc \in Nat
    BY <1>2, AllAre, Numbers DEF BuildInv, Ranked
  <2>2. \A e \in All : ShardOf(e.doc) \in 0 .. shardCount - 1 /\ shardCount \in Nat
    BY <1>2, <2>1, Numbers DEF BuildInv, ShardIds
  <2> QED BY <1>1, <2>2 DEF Searched
<1> QED BY <1>1, <1>3, <1>4

LEMMA MergeKeeps ==
  ASSUME Inv, Merge
  PROVE  Inv'
<1>1. /\ state = "searching" /\ state' = "done"
      /\ UNCHANGED <<built, request, next, candidates>>
  BY DEF Merge
<1>2. BuildInv'
  BY <1>1, SameBuild DEF Inv
<1>3. hits' \subseteq candidates /\ IsBest(hits', All, request.top_k)
  BY MergeAnswers
<1>4. /\ All' = All /\ ShardIds' = ShardIds /\ shardCount' = shardCount
      /\ next \in 0 .. shardCount /\ Ranked
  BY <1>1, SameWhole DEF built, Inv, SearchInv
<1>5. Ranked'
  BY <1>1, <1>4 DEF Ranked, OfShard, ShardOf, built
<1> QED BY <1>1, <1>2, <1>3, <1>4, <1>5 DEF Inv, SearchInv

LEMMA StutterKeeps ==
  ASSUME Inv, UNCHANGED vars
  PROVE  Inv'
<1>1. UNCHANGED <<built, state, request, next, candidates, hits>>
  BY DEF vars
<1>2. BuildInv'
  BY <1>1, SameBuild DEF Inv, BuildInv
<1>3. /\ All' = All /\ ShardIds' = ShardIds /\ shardCount' = shardCount
  BY <1>1, SameWhole DEF built
<1>4. Ranked => Ranked'
  BY <1>1, <1>3 DEF Ranked, OfShard, ShardOf, built
<1> QED BY <1>1, <1>2, <1>3, <1>4 DEF Inv, SearchInv

LEMMA NextInv == Inv /\ [Next]_vars => Inv'
<1> SUFFICES ASSUME Inv, [Next]_vars PROVE Inv'
  OBVIOUS
<1>1. ASSUME NEW d \in Documents, AddDocument(d) PROVE Inv'
  BY <1>1, AddKeeps
<1>2. CASE Finish
  BY <1>2, FinishKeeps
<1>3. ASSUME NEW q \in Requests, BeginSearch(q) PROVE Inv'
  BY <1>3, BeginKeeps
<1>4. CASE SearchShard
  BY <1>4, SearchKeeps
<1>5. CASE Merge
  BY <1>5, MergeKeeps
<1>6. CASE UNCHANGED vars
  BY <1>6, StutterKeeps
<1> QED BY <1>1, <1>2, <1>3, <1>4, <1>5, <1>6 DEF Next

THEOREM Invariant == Spec => []Inv
BY InitInv, NextInv, PTL DEF Spec
-----------------------------------------------------------------------------
\* What follows from it.

\* Every state is of the declared types, and the builder's identifiers are those of the
\* documents in the shards.
THEOREM TypeCorrect == Spec => []TypeOK
<1>1. ASSUME Inv PROVE TypeOK
  <2>1. /\ Types /\ Dealt /\ Identified /\ Summed /\ next \in 0 .. shardCount
        /\ state \in {"building", "built", "searching", "done"}
    BY <1>1 DEF Inv, BuildInv, SearchInv
  <2>2. \A e \in candidates : e.doc \in 0 .. count - 1
    BY <1>1, <2>1, AllAre DEF Inv, SearchInv, Ranked
  <2>3. hits \subseteq candidates
    BY <1>1, <2>1 DEF Inv, SearchInv
  <2>4. externalIds = {d.id : d \in UNION {Range(shards[s]) : s \in ShardIds}}
    <3>1. ASSUME NEW i \in 1 .. count
          PROVE  Whole[i] \in UNION {Range(shards[s]) : s \in ShardIds}
      <4>1. i - 1 \in 0 .. count - 1 /\ i - 1 \in Nat /\ Whole[i] = Lookup(i - 1)
        BY <2>1, Numbers DEF Whole
      <4>2. ShardOf(i - 1) \in ShardIds /\ LocalOf(i - 1) + 1 \in DOMAIN shards[ShardOf(i - 1)]
        BY <2>1, <4>1, Numbers, Lookups
      <4> QED BY <4>1, <4>2 DEF Lookup, Range
    <3>2. ASSUME NEW s \in ShardIds, NEW j \in DOMAIN shards[s]
          PROVE  \E i \in 1 .. count : Whole[i] = shards[s][j]
      <4>1. /\ GlobalOf(s, j - 1) \in 0 .. count - 1
            /\ Lookup(GlobalOf(s, j - 1)) = shards[s][j]
        BY <2>1, Lookups
      <4> QED BY <2>1, <4>1, WholeAt
    <3> QED BY <2>1, <3>1, <3>2 DEF Identified, Range
  <2> QED BY <2>1, <2>2, <2>3, <2>4 DEF TypeOK, Types
<1> QED BY <1>1, Invariant, PTL

\* The population of a shard as the loader computes it.
LEMMA Population ==
  ASSUME Types, Dealt, NEW s \in ShardIds
  PROVE  Len(shards[s]) = DocumentsInShard(count, s)
<1> DEFINE n == shardCount
           m == Len(shards[s])
<1>1. n \in Nat \ {0} /\ count \in Nat /\ s \in 0 .. n - 1 /\ m \in Nat
  <2>1. shardCount \in Nat \ {0} /\ count \in Nat
    BY Numbers
  <2>2. s \in 0 .. shardCount - 1
    BY DEF ShardIds
  <2>3. shards[s] \in Seq(Documents)
    BY DEF Types
  <2>4. Len(shards[s]) \in Nat
    BY <2>3
  <2> QED BY <2>1, <2>2, <2>4
<1>2. \A l \in Nat : l < m <=> l * n + s < count
  BY DEF Dealt, GlobalOf
<1>3. CASE s >= count
  <2>1. ~ (0 < m)
    <3>1. 0 * n + s = s
      BY <1>1
    <3> QED BY <1>1, <1>2, <1>3, <3>1
  <2> QED BY <1>1, <1>3, <2>1 DEF DocumentsInShard
<1>4. CASE ~ (s >= count)
  <2> DEFINE q == (count - 1 - s) \div n
             r == (count - 1 - s) % n
  <2>1. count - 1 - s \in Nat
    BY <1>1, <1>4
  <2>2. q \in Nat /\ r \in 0 .. n - 1 /\ count - 1 - s = q * n + r
    BY <1>1, <2>1, Division
  <2>3. DocumentsInShard(count, s) = q + 1
    BY <1>4 DEF DocumentsInShard
  <2> HIDE DEF q, r, m, n
  <2>4. (q + 1) * n = q * n + n /\ q * n \in Nat
    BY <1>1, <2>2
  <2>5. q * n + s < count /\ ~ ((q + 1) * n + s < count)
    BY <1>1, <2>2, <2>4
  <2>6. q < m /\ ~ (q + 1 < m)
    BY <1>2, <2>2, <2>5
  <2> QED BY <1>1, <2>2, <2>3, <2>6 DEF m
<1> QED BY <1>3, <1>4

\* BuiltIsLoadable: what finish builds passes the checks of from_loaded_shards.
THEOREM Loads == Spec => []BuiltIsLoadable
<1>1. ASSUME Inv PROVE BuiltIsLoadable
  <2> SUFFICES ASSUME state /= "building" PROVE Loadable
    BY DEF BuiltIsLoadable
  <2>1. Types /\ Dealt /\ Identified /\ Summed
    BY <1>1 DEF Inv, BuildInv
  <2>2. \A s \in ShardIds : Len(shards[s]) = DocumentsInShard(count, s)
    BY <2>1, Population
  <2>3. ASSUME NEW s \in ShardIds, NEW u \in ShardIds,
               NEW i \in DOMAIN shards[s], NEW j \in DOMAIN shards[u],
               shards[s][i].id = shards[u][j].id
        PROVE  s = u /\ i = j
    <3> DEFINE g == GlobalOf(s, i - 1)
               h == GlobalOf(u, j - 1)
    <3>1. /\ g \in 0 .. count - 1 /\ h \in 0 .. count - 1
          /\ i - 1 \in Nat /\ j - 1 \in Nat
          /\ Lookup(g) = shards[s][i] /\ Lookup(h) = shards[u][j]
      BY <2>1, Lookups
    <3>2. s = ShardOf(g) /\ i - 1 = LocalOf(g) /\ u = ShardOf(h) /\ j - 1 = LocalOf(h)
      BY <2>1, <3>1, Numbers
    <3> HIDE DEF g, h
    <3>3. /\ g + 1 \in 1 .. count /\ Whole[g + 1] = Lookup(g) /\ g \in Int
          /\ h + 1 \in 1 .. count /\ Whole[h + 1] = Lookup(h) /\ h \in Int
      BY <2>1, <3>1, WholeAt
    <3>5. g = h
      BY <2>1, <2>3, <3>1, <3>3 DEF Identified
    <3>6. i \in Int /\ j \in Int
      BY <2>1 DEF Types
    <3> QED BY <3>1, <3>2, <3>5, <3>6
  <2>4. global.count = count
    BY <2>1 DEF Summed, StatisticsUpTo
  <2> QED BY <2>2, <2>3, <2>4 DEF Loadable
<1> QED BY <1>1, Invariant, PTL

\* CandidatesSuffice: whatever the shards searched so far dropped, the best of the
\* candidates are the best of all their hits.
THEOREM NothingBetterIsDropped == Spec => []CandidatesSuffice
<1>1. ASSUME Inv PROVE CandidatesSuffice
  <2>1. state = "searching" => BuildInv /\ next \in 0 .. shardCount /\ Ranked
    BY <1>1 DEF Inv, SearchInv
  <2> QED BY <2>1, KeptSuffice DEF CandidatesSuffice, Searched, All
<1> QED BY <1>1, Invariant, PTL

\* ImplementsCollection: a sharded index numbers, scores and ranks as one index of the
\* whole collection does, whatever the number of shards.
THEOREM Refinement == Spec => ImplementsCollection
<1>1. Init => Abstract!Init
  <2> SUFFICES ASSUME Init PROVE Abstract!Init
    OBVIOUS
  <2>1. Whole \in Seq(Documents) /\ Len(Whole) = 0
    BY InitInv, Lookups DEF Init, Inv, BuildInv
  <2>2. Whole = <<>>
    BY <2>1
  <2> QED BY <2>2 DEF Init, Abstract!Init, AbstractState, C!NoRequest, Abstract!NoRequest
<1>2. Inv /\ [Next]_vars => [Abstract!Next]_(Abstract!answer)
  <2> SUFFICES ASSUME Inv, [Next]_vars PROVE [Abstract!Next]_(Abstract!answer)
    OBVIOUS
  <2>1. ASSUME NEW d \in Documents, AddDocument(d) PROVE Abstract!Add(d)
    <3>1. Types /\ Dealt /\ Identified
      BY DEF Inv, BuildInv
    <3>2. Whole' = Append(Whole, d) /\ \A i \in DOMAIN Whole : Whole[i].id /= d.id
      BY <2>1, <3>1, AddDeals, AddIdentifies
    <3>3. AbstractState = "open" /\ UNCHANGED <<AbstractState, request, hits>>
      BY <2>1 DEF AddDocument, AbstractState
    <3> QED BY <3>2, <3>3 DEF Abstract!Add
  <2>2. CASE Finish
    <3>1. Whole' = Whole
      BY <2>2, SameWhole DEF Finish
    <3> QED BY <2>2, <3>1 DEF Finish, AbstractState, Abstract!Close, Abstract!Next
  <2>3. ASSUME NEW q \in Requests, BeginSearch(q) PROVE Abstract!Ask(q)
    <3>1. Whole' = Whole
      BY <2>3, SameWhole DEF BeginSearch, built
    <3> QED BY <2>3, <3>1 DEF BeginSearch, AbstractState, Abstract!Ask
  <2>4. CASE SearchShard
    <3>1. Whole' = Whole
      BY <2>4, SameWhole DEF SearchShard, built
    <3>2. UNCHANGED <<Whole, AbstractState, request, hits>>
      BY <2>4, <3>1 DEF SearchShard, AbstractState
    <3> QED BY <3>2 DEF Abstract!answer
  <2>5. CASE Merge
    <3>1. Whole' = Whole
      BY <2>5, SameWhole DEF Merge, built
    <3>2. AbstractState = "asked" /\ AbstractState' = "answered" /\ UNCHANGED request
      BY <2>5 DEF Merge, AbstractState
    <3>3. IsBest(hits', Abstract!Results(request, Whole, Abstract!Statistics(Whole)), request.top_k)
      BY <2>5, MergeAnswers, SameOperators DEF All
    <3>4. Abstract!IsBest(hits', Abstract!Results(request, Whole, Abstract!Statistics(Whole)),
                          request.top_k)
      BY <3>3, SameCardinality
         DEF Abstract!IsBest, Abstract!IsFull, Abstract!Worse, IsBest, IsFull, Worse
    <3> QED BY <3>1, <3>2, <3>4 DEF Abstract!Answer, Abstract!Next
  <2>6. CASE UNCHANGED vars
    <3>1. Whole' = Whole
      BY <2>6, SameWhole DEF vars, built
    <3> QED BY <2>6, <3>1 DEF vars, AbstractState, Abstract!answer
  <2> QED BY <2>1, <2>2, <2>3, <2>4, <2>5, <2>6 DEF Next, Abstract!Next
<1> QED BY <1>1, <1>2, Invariant, PTL DEF Spec, ImplementsCollection, Abstract!Spec

-----------------------------------------------------------------------------
\* Orders of all documents.

\* The state of the inputs.
InputsFit ==
  /\ Count \in 0 .. MaxId
  /\ DOMAIN termsOf = Ids
  /\ \A d \in Ids : termsOf[d] \in SUBSET TermIds
  /\ features \in Seq(Int)
  /\ rows \in Seq({BadRow} \union (Nat \X (0 .. MaxId)))

\* seq has n elements of a set, each at most once.
Arranges(seq, n, S) ==
  /\ seq \in [1 .. n -> S]
  /\ \A i, j \in 1 .. n : seq[i] = seq[j] => i = j

\* seq has the elements of a set of n, each once.
Lists(seq, n, S) ==
  /\ \A i, j \in 1 .. n : seq[i] = seq[j] => i = j
  /\ {seq[i] : i \in 1 .. n} = S

LEMMA IdsAreFinite ==
  ASSUME InputsFit
  PROVE  /\ Count \in Nat /\ MaxId \in Nat /\ Count <= MaxId
         /\ IsFiniteSet(Ids) /\ Cardinality(Ids) = Count /\ Ids \subseteq Nat
         /\ IsFiniteSet(1 .. Count) /\ Cardinality(1 .. Count) = Count
<1>1. Count \in Nat /\ MaxId \in Nat /\ Count <= MaxId
  BY WidthsAssumption DEF InputsFit
<1>2. IsFiniteSet(0 .. Count - 1) /\ Cardinality(0 .. Count - 1) = Count
  <2> HIDE DEF Count
  <2> QED BY <1>1, FS_Interval
<1>3. IsFiniteSet(1 .. Count) /\ Cardinality(1 .. Count) = Count
  <2> HIDE DEF Count
  <2> QED BY <1>1, FS_Interval
<1> QED BY <1>1, <1>2, <1>3 DEF Ids

LEMMA SortedById ==
  ASSUME NEW S \in SUBSET Int, IsFiniteSet(S)
  PROVE  Lists(Sorted(S, <), Cardinality(S), S)
<1> DEFINE R == {p \in S \X S : p[1] < p[2]}
           n == Cardinality(S)
           seq == Sorted(S, <)
<1>1. StrictOrder(R, S)
  BY DEF StrictOrder
<1>2. \A d \in S : {e \in S : <<e, d>> \in R} = {e \in S : e < d}
  OBVIOUS
<1>3. \A d \in S : Place(R, S, d) = Cardinality({e \in S : e < d})
  BY <1>2 DEF Place
<1>4. \A i \in 1 .. n : seq[i] = CHOOSE d \in S : Cardinality({e \in S : e < d}) = i - 1
  BY DEF Sorted
<1>5. \A i \in 1 .. n : \E d \in S : Cardinality({e \in S : e < d}) = i - 1
  <2>1. \A i \in 1 .. Cardinality(S) : \E d \in S : Place(R, S, d) = i - 1
    <3> HIDE DEF R
    <3> QED BY <1>1, EveryPlaceTaken
  <2>2. n = Cardinality(S)
    OBVIOUS
  <2> QED BY <1>3, <2>1, <2>2
<1>6. \A i \in 1 .. n : seq[i] \in S /\ Cardinality({e \in S : e < seq[i]}) = i - 1
  <2> HIDE DEF seq
  <2> QED BY <1>4, <1>5
<1> HIDE DEF R, n, seq
<1>7. \A i \in 1 .. n : seq[i] \in S /\ Place(R, S, seq[i]) = i - 1
  BY <1>3, <1>6
<1>8. n = Cardinality(S)
  BY DEF n
<1>9. Lists(seq, n, S)
  BY <1>1, <1>7, <1>8, RankedIsSorted DEF Lists
<1> QED BY <1>9 DEF seq, n

\* The order of documents in a pass.
Gains(gain, T) == {p \in T \X T :
                     gain[p[1]] > gain[p[2]] \/ (gain[p[1]] = gain[p[2]] /\ p[1] < p[2])}

LEMMA SortedByGain ==
  ASSUME NEW T \in SUBSET Int, NEW gain \in [T -> Int], NEW S \in SUBSET T, IsFiniteSet(S)
  PROVE  Lists(Sorted(S, LAMBDA a, b : gain[a] > gain[b] \/ (gain[a] = gain[b] /\ a < b)),
               Cardinality(S), S)
<1> DEFINE R == Gains(gain, T)
           n == Cardinality(S)
           seq == Sorted(S, LAMBDA a, b : gain[a] > gain[b] \/ (gain[a] = gain[b] /\ a < b))
<1>0. \A a, b \in S : /\ <<a, b>> \in R <=> gain[a] > gain[b] \/ (gain[a] = gain[b] /\ a < b)
                      /\ a \in Int /\ gain[a] \in Int
  <2>1. \A a, b \in T : <<a, b>> \in R <=> gain[a] > gain[b] \/ (gain[a] = gain[b] /\ a < b)
    BY DEF Gains
  <2>2. \A a \in S : a \in T /\ a \in Int /\ gain[a] \in Int
    OBVIOUS
  <2> HIDE DEF R
  <2> QED BY <2>1, <2>2
<1>1. StrictOrder(R, S)
  <2> HIDE DEF R
  <2> QED BY <1>0 DEF StrictOrder
<1>2. \A d \in S : {e \in S : <<e, d>> \in R}
                    = {e \in S : gain[e] > gain[d] \/ (gain[e] = gain[d] /\ e < d)}
  <2> HIDE DEF R
  <2> QED BY <1>0
<1>3. \A d \in S : Place(R, S, d)
                    = Cardinality({e \in S : gain[e] > gain[d] \/ (gain[e] = gain[d] /\ e < d)})
  BY <1>2 DEF Place
<1>4. \A i \in 1 .. n :
        seq[i] = CHOOSE d \in S :
                   Cardinality({e \in S : gain[e] > gain[d] \/ (gain[e] = gain[d] /\ e < d)}) = i - 1
  BY DEF Sorted
<1>5. \A i \in 1 .. n : \E d \in S :
        Cardinality({e \in S : gain[e] > gain[d] \/ (gain[e] = gain[d] /\ e < d)}) = i - 1
  <2>1. \A i \in 1 .. Cardinality(S) : \E d \in S : Place(R, S, d) = i - 1
    <3> HIDE DEF R
    <3> QED BY <1>1, EveryPlaceTaken
  <2>2. n = Cardinality(S)
    OBVIOUS
  <2> QED BY <1>3, <2>1, <2>2
<1>6. \A i \in 1 .. n :
        /\ seq[i] \in S
        /\ Cardinality({e \in S : gain[e] > gain[seq[i]]
                                    \/ (gain[e] = gain[seq[i]] /\ e < seq[i])}) = i - 1
  <2> HIDE DEF seq
  <2> QED BY <1>4, <1>5
<1> HIDE DEF R, n, seq
<1>7. \A i \in 1 .. n : seq[i] \in S /\ Place(R, S, seq[i]) = i - 1
  BY <1>3, <1>6
<1>8. n = Cardinality(S)
  BY DEF n
<1>9. Lists(seq, n, S)
  BY <1>1, <1>7, <1>8, RankedIsSorted DEF Lists
<1> QED BY <1>9 DEF seq, n

LEMMA SortedByFeatures ==
  ASSUME InputsFit, Len(features) = Count
  PROVE  LET seq == Sorted(Ids, Precedes)
         IN  /\ Arranges(seq, Count, Ids)
             /\ \A i, j \in 1 .. Count : i < j => Precedes(seq[i], seq[j])
<1> DEFINE R == {p \in Ids \X Ids : Precedes(p[1], p[2])}
           seq == Sorted(Ids, Precedes)
           f == [d \in Ids |-> features[d + 1]]
<1>1. IsFiniteSet(Ids) /\ Cardinality(Ids) = Count /\ Count \in Nat /\ Ids = 0 .. Count - 1
  BY IdsAreFinite DEF Ids
<1>2. \A d \in Ids : features[d + 1] \in Int /\ d \in Int
  <2>1. \A d \in Ids : d + 1 \in 1 .. Len(features)
    BY <1>1
  <2> QED BY <1>1, <2>1 DEF InputsFit
<1>3. StrictOrder(R, Ids)
  <2>1. \A a, b \in Ids :
          <<a, b>> \in R <=> (f[a] < f[b]) \/ (f[a] = f[b] /\ a < b)
    BY DEF Precedes
  <2>2. \A a \in Ids : f[a] \in Int
    BY <1>2
  <2> HIDE DEF R, Ids, f
  <2> QED BY <1>2, <2>1, <2>2 DEF StrictOrder
<1>4. \A d \in Ids : Place(R, Ids, d) = Cardinality({e \in Ids : Precedes(e, d)})
  <2>1. \A d \in Ids : {e \in Ids : <<e, d>> \in R} = {e \in Ids : Precedes(e, d)}
    OBVIOUS
  <2> QED BY <2>1 DEF Place
<1>5. /\ DOMAIN seq = 1 .. Count
      /\ seq = [i \in 1 .. Count |->
                  CHOOSE d \in Ids : Cardinality({e \in Ids : Precedes(e, d)}) = i - 1]
  BY <1>1 DEF Sorted
<1>6. \A i \in 1 .. Count : \E d \in Ids : Cardinality({e \in Ids : Precedes(e, d)}) = i - 1
  <2>1. \A i \in 1 .. Cardinality(Ids) : \E d \in Ids : Place(R, Ids, d) = i - 1
    <3>1. IsFiniteSet(Ids)
      BY <1>1
    <3> HIDE DEF R, Ids
    <3> QED BY <3>1, <1>3, EveryPlaceTaken
  <2> QED BY <1>1, <1>4, <2>1
<1>7. \A i \in 1 .. Count :
        seq[i] \in Ids /\ Cardinality({e \in Ids : Precedes(e, seq[i])}) = i - 1
  <2>1. \A i \in 1 .. Count :
          seq[i] = CHOOSE d \in Ids : Cardinality({e \in Ids : Precedes(e, d)}) = i - 1
    BY <1>5
  <2> HIDE DEF seq
  <2> QED BY <1>6, <2>1
<1>8. seq = [i \in 1 .. Count |-> seq[i]]
  BY <1>5
<1> HIDE DEF seq
<1>9. \A i \in 1 .. Count : seq[i] \in Ids /\ Place(R, Ids, seq[i]) = i - 1
  BY <1>4, <1>7
<1>10. /\ \A i, j \in 1 .. Count : i < j => <<seq[i], seq[j]>> \in R
       /\ \A i, j \in 1 .. Count : seq[i] = seq[j] => i = j
  <2> DEFINE n == Count
             S == Ids
  <2>1. /\ n = Cardinality(S) /\ IsFiniteSet(S) /\ StrictOrder(R, S)
        /\ \A i \in 1 .. n : seq[i] \in S /\ Place(R, S, seq[i]) = i - 1
    BY <1>1, <1>3, <1>9
  <2> HIDE DEF R, S, n
  <2>2. /\ \A i, j \in 1 .. n : i < j => <<seq[i], seq[j]>> \in R
        /\ \A i, j \in 1 .. n : seq[i] = seq[j] => i = j
    BY <2>1, RankedIsSorted
  <2> QED BY <2>2 DEF n
<1>11. Arranges(seq, Count, Ids)
  BY <1>7, <1>8, <1>10 DEF Arranges
<1> QED BY <1>10, <1>11 DEF seq

-----------------------------------------------------------------------------
\* Arrangements of n elements of a set, each at most once.
Elements(seq, I) == {seq[i] : i \in I}

OneToOne(seq, I) == \A i, j \in I : seq[i] = seq[j] => i = j

\* Different indices have different elements.
LEMMA AsManyElements ==
  ASSUME NEW n \in Nat, NEW S, NEW seq, Arranges(seq, n, S), NEW I \in SUBSET (1 .. n)
  PROVE  /\ IsFiniteSet(I) /\ IsFiniteSet(Elements(seq, I))
         /\ Cardinality(Elements(seq, I)) = Cardinality(I)
         /\ Elements(seq, I) \subseteq S
<1> DEFINE B == Elements(seq, I)
           at == [i \in I |-> seq[i]]
<1>1. IsFiniteSet(I)
  <2>1. IsFiniteSet(1 .. n)
    BY FS_Interval
  <2> QED BY <2>1, FS_Subset
<1>2. at \in Bijection(I, B)
  <2>1. at \in [I -> B]
    BY DEF Elements
  <2>2. \A i, j \in I : at[i] = at[j] => i = j
    BY DEF Arranges
  <2>3. \A d \in B : \E i \in I : at[i] = d
    BY DEF Elements
  <2> HIDE DEF B, at
  <2> QED BY <2>1, <2>2, <2>3 DEF Bijection, Injection, Surjection, IsInjective
<1>3. IsFiniteSet(B) /\ Cardinality(B) = Cardinality(I)
  <2> HIDE DEF B, at
  <2> QED BY <1>1, <1>2, FS_Bijection DEF ExistsBijection
<1>4. B \subseteq S
  BY DEF Arranges, Elements
<1> QED BY <1>1, <1>3, <1>4

LEMMA SameElements ==
  ASSUME NEW f, NEW I, NEW g, NEW K,
         \A i \in I : \E k \in K : f[i] = g[k], \A k \in K : \E i \in I : f[i] = g[k]
  PROVE  {f[i] : i \in I} = {g[k] : k \in K}
<1>1. ASSUME NEW d \in {f[i] : i \in I} PROVE d \in {g[k] : k \in K}
  OBVIOUS
<1>2. ASSUME NEW d \in {g[k] : k \in K} PROVE d \in {f[i] : i \in I}
  OBVIOUS
<1> QED BY <1>1, <1>2

\* An interval of indices has as many elements.
LEMMA IntervalHas ==
  ASSUME NEW n \in Nat, NEW S, NEW seq, Arranges(seq, n, S),
         NEW a \in 1 .. n + 1, NEW b \in 0 .. n, a <= b + 1
  PROVE  /\ IsFiniteSet(Elements(seq, a .. b))
         /\ Cardinality(Elements(seq, a .. b)) = b - a + 1
         /\ Elements(seq, a .. b) \subseteq S
<1>1. Cardinality(a .. b) = b - a + 1
  <2>1. a \in Int /\ b \in Int
    OBVIOUS
  <2>2. Cardinality(a .. b) = IF a > b THEN 0 ELSE b - a + 1
    BY <2>1, FS_Interval
  <2> QED BY <2>1, <2>2
<1> DEFINE I == a .. b
<1>2. I \in SUBSET (1 .. n)
  OBVIOUS
<1> HIDE DEF I
<1>3. /\ IsFiniteSet(Elements(seq, I)) /\ Cardinality(Elements(seq, I)) = Cardinality(I)
      /\ Elements(seq, I) \subseteq S
  BY <1>2, AsManyElements
<1> QED BY <1>1, <1>3 DEF I

\* An interval filled from a list.
Takes(new, I, a, b, part, E) ==
  /\ a \in Int /\ b \in Int /\ I = a .. b
  /\ Lists(part, b - a + 1, E)
  /\ \A i \in a .. b : new[i] = part[i - a + 1]

LEMMA ListedInterval ==
  ASSUME NEW I, NEW a, NEW b, NEW E, NEW part, NEW new, Takes(new, I, a, b, part, E)
  PROVE  Elements(new, I) = E /\ OneToOne(new, I)
<1> DEFINE m == b - a + 1
           K == 1 .. m
<1>1. \A i \in I : i - a + 1 \in K /\ new[i] = part[i - a + 1]
  BY DEF Takes
<1>2. \A k \in K : k + a - 1 \in I /\ (k + a - 1) - a + 1 = k
  BY DEF Takes
<1>3. /\ \A k, l \in K : part[k] = part[l] => k = l
      /\ {part[k] : k \in K} = E
  BY DEF Lists, Takes
<1>4. a \in Int /\ b \in Int /\ I \subseteq Int
  BY DEF Takes
<1> HIDE DEF m, K
<1>5. Elements(new, I) = {part[k] : k \in K}
  <2>1. \A i \in I : \E k \in K : new[i] = part[k]
    BY <1>1
  <2>2. \A k \in K : \E i \in I : new[i] = part[k]
    <3> TAKE k \in K
    <3>1. k + a - 1 \in I /\ new[k + a - 1] = part[k]
      BY <1>1, <1>2
    <3> QED BY <3>1
  <2>3. {new[i] : i \in I} = {part[k] : k \in K}
    BY <2>1, <2>2, SameElements
  <2> QED BY <2>3 DEF Elements
<1>6. ASSUME NEW i \in I, NEW j \in I, new[i] = new[j] PROVE i = j
  <2>1. i - a + 1 = j - a + 1
    BY <1>1, <1>3, <1>6
  <2> QED BY <1>4, <2>1
<1> QED BY <1>3, <1>5, <1>6 DEF OneToOne

\* An arrangement in which the documents of two parts have moved within their part.
LEMMA PartsRearranged ==
  ASSUME NEW n \in Nat, NEW S, NEW seq, Arranges(seq, n, S),
         NEW L \in SUBSET (1 .. n), NEW R \in SUBSET (1 .. n), L \intersect R = {},
         NEW T, NEW new \in [1 .. n -> T],
         Elements(new, L) = Elements(seq, L), OneToOne(new, L),
         Elements(new, R) = Elements(seq, R), OneToOne(new, R),
         \A i \in (1 .. n) \ (L \union R) : new[i] = seq[i]
  PROVE  Arranges(new, n, S)
<1>1. /\ \A i \in L : \E k \in L : new[i] = seq[k]
      /\ \A i \in R : \E k \in R : new[i] = seq[k]
  <2>1. \A i \in L : new[i] \in Elements(seq, L)
    <3>1. \A i \in L : new[i] \in Elements(new, L)
      BY DEF Elements
    <3> QED BY <3>1
  <2>2. \A i \in R : new[i] \in Elements(seq, R)
    <3>1. \A i \in R : new[i] \in Elements(new, R)
      BY DEF Elements
    <3> QED BY <3>1
  <2> QED BY <2>1, <2>2 DEF Elements
<1> DEFINE N == 1 .. n
           M == N \ (L \union R)
<1>2. \A i, j \in N : seq[i] = seq[j] => i = j
  BY DEF Arranges
<1>3. \A i \in N : seq[i] \in S
  BY DEF Arranges
<1>4. \A i \in M : new[i] = seq[i]
  OBVIOUS
<1>5. L \subseteq N /\ R \subseteq N /\ M \subseteq N /\ N = L \union R \union M
      /\ L \intersect M = {} /\ R \intersect M = {}
  OBVIOUS
<1> HIDE DEF N, M
<1>6. \A i \in N : new[i] \in S
  BY <1>1, <1>3, <1>4, <1>5
<1>7. ASSUME NEW i \in N, NEW j \in N, new[i] = new[j] PROVE i = j
  <2>1. PICK k \in N : new[i] = seq[k] /\ (i \in L => k \in L) /\ (i \in R => k \in R) /\ (i \in M => k \in M)
    BY <1>1, <1>4, <1>5
  <2>2. PICK l \in N : new[j] = seq[l] /\ (j \in L => l \in L) /\ (j \in R => l \in R) /\ (j \in M => l \in M)
    BY <1>1, <1>4, <1>5
  <2>3. k = l
    BY <1>2, <1>7, <2>1, <2>2
  <2>4. (i \in L /\ j \in L) \/ (i \in R /\ j \in R) \/ (i \in M /\ j \in M)
    BY <1>5, <2>1, <2>2, <2>3
  <2>5. CASE i \in M /\ j \in M
    BY <1>2, <1>4, <1>5, <1>7, <2>5
  <2> QED BY <1>7, <2>4, <2>5 DEF OneToOne
<1> QED BY <1>6, <1>7 DEF Arranges, N

\* An arrangement with two elements exchanged.
LEMMA Exchanged ==
  ASSUME NEW n \in Nat, NEW S, NEW seq, Arranges(seq, n, S), NEW a \in 1 .. n, NEW b \in 1 .. n
  PROVE  Arranges([seq EXCEPT ![a] = seq[b], ![b] = seq[a]], n, S)
<1> DEFINE new == [seq EXCEPT ![a] = seq[b], ![b] = seq[a]]
<1>1. /\ new \in [1 .. n -> S]
      /\ \A i \in 1 .. n : new[i] = seq[IF i = b THEN a ELSE IF i = a THEN b ELSE i]
  BY DEF Arranges
<1> HIDE DEF new
<1>2. \A i, j \in 1 .. n : new[i] = new[j] => i = j
  BY <1>1 DEF Arranges
<1>3. Arranges(new, n, S)
  BY <1>1, <1>2 DEF Arranges
<1> QED BY <1>3 DEF new
-----------------------------------------------------------------------------
\* Gains are sums over terms.

LEMMA LeftGains ==
  ASSUME NEW S, IsFiniteSet(S)
  PROVE  MapThenSumSet(GainLeft, S) = SumFunction([t \in S |-> GainLeft(t)])
<1> DEFINE f == [t \in S |-> GainLeft(t)]
           Recursive(sum) ==
             sum = [T \in SUBSET S |->
                      IF T = {} THEN 0 ELSE GainLeft(Picked(T)) + sum[T \ {Picked(T)}]]
           total == CHOOSE sum : Recursive(sum)
           sum == CHOOSE s : AddsUp(s, f, S)
<1>1. MapThenSumSet(GainLeft, S) = total[S]
  BY DEF MapThenSumSet, MapThenFoldSet, Picked
<1>2. (\A T \in SUBSET S : T /= {} => f[Picked(T)] = GainLeft(Picked(T))) /\ DOMAIN f = S
  BY DEF Picked
<1> HIDE DEF f
<1>3. \A s : AddsUp(s, f, S) => Recursive(s)
  BY <1>2 DEF AddsUp
<1>4. \A s : Recursive(s) => AddsUp(s, f, S)
  BY <1>2 DEF AddsUp
<1>5. AddsUp(sum, f, S)
  BY SumExists
<1>6. AddsUp(total, f, S)
  BY <1>3, <1>4, <1>5
<1>7. SumFunction(f) = sum[S]
  BY <1>2, SumIsRecursive
<1> HIDE DEF total, sum
<1>8. total[S] = sum[S]
  BY <1>5, <1>6, OnlyOneSum
<1> QED BY <1>1, <1>7, <1>8 DEF f

LEMMA RightGains ==
  ASSUME NEW S, IsFiniteSet(S)
  PROVE  MapThenSumSet(GainRight, S) = SumFunction([t \in S |-> GainRight(t)])
<1> DEFINE f == [t \in S |-> GainRight(t)]
           Recursive(sum) ==
             sum = [T \in SUBSET S |->
                      IF T = {} THEN 0 ELSE GainRight(Picked(T)) + sum[T \ {Picked(T)}]]
           total == CHOOSE sum : Recursive(sum)
           sum == CHOOSE s : AddsUp(s, f, S)
<1>1. MapThenSumSet(GainRight, S) = total[S]
  BY DEF MapThenSumSet, MapThenFoldSet, Picked
<1>2. (\A T \in SUBSET S : T /= {} => f[Picked(T)] = GainRight(Picked(T))) /\ DOMAIN f = S
  BY DEF Picked
<1> HIDE DEF f
<1>3. \A s : AddsUp(s, f, S) => Recursive(s)
  BY <1>2 DEF AddsUp
<1>4. \A s : Recursive(s) => AddsUp(s, f, S)
  BY <1>2 DEF AddsUp
<1>5. AddsUp(sum, f, S)
  BY SumExists
<1>6. AddsUp(total, f, S)
  BY <1>3, <1>4, <1>5
<1>7. SumFunction(f) = sum[S]
  BY <1>2, SumIsRecursive
<1> HIDE DEF total, sum
<1>8. total[S] = sum[S]
  BY <1>5, <1>6, OnlyOneSum
<1> QED BY <1>1, <1>7, <1>8 DEF f

LEMMA SumIsInteger ==
  ASSUME NEW S, IsFiniteSet(S), NEW f, DOMAIN f = S, \A t \in S : f[t] \in Int
  PROVE  SumFunction(f) \in Int
<1> DEFINE sum == CHOOSE s : AddsUp(s, f, S)
<1>1. AddsUp(sum, f, S) /\ SumFunction(f) = sum[S]
  BY SumExists, SumIsRecursive
<1> HIDE DEF sum
<1> QED BY <1>1, SumTakesAny

-----------------------------------------------------------------------------
\* Shuffling.

\* Of the draws that are not rejected, as many leave one remainder as any other.
LEMMA RemaindersAreEven ==
  ASSUME NEW M \in Nat, NEW n \in Nat \ {0}, n <= M, NEW c \in 0 .. n - 1
  PROVE  LET least == (M - n) % n
             naming == {draw \in least .. M - 1 : draw % n = c}
             turns == (M - n) \div n
         IN  Cardinality(naming) = Cardinality(0 .. turns)
<1> DEFINE least == (M - n) % n
           turns == (M - n) \div n
           naming == {draw \in least .. M - 1 : draw % n = c}
           turn == [draw \in naming |-> (draw - least) \div n]
<1>1. least \in 0 .. n - 1 /\ turns \in Nat /\ M - n = turns * n + least
  <2>1. M - n \in Nat
    OBVIOUS
  <2> QED BY <2>1, Division
<1> HIDE DEF least, turns
<1>2. /\ \A d \in naming : d - least \in Nat /\ d \in Nat /\ d < M /\ d % n = c
      /\ turns * n \in Nat
  BY <1>1
<1>3. ASSUME NEW d \in naming
      PROVE  /\ turn[d] \in Nat
             /\ \E s \in 0 .. n - 1 : d - least = turn[d] * n + s
  BY <1>2, Division
<1>4. ASSUME NEW d \in naming
      PROVE  turn[d] \in 0 .. turns
  <2>1. PICK s \in 0 .. n - 1 : d - least = turn[d] * n + s
    BY <1>3
  <2>2. d - least < turns * n + n
    BY <1>1, <1>2
  <2>3. (turns + 1) * n + 0 = turns * n + n
    BY <1>1
  <2>4. turn[d] * n + s < (turns + 1) * n + 0
    BY <2>1, <2>2, <2>3
  <2>5. turn[d] \in Nat /\ turns + 1 \in Nat /\ 0 \in 0 .. n - 1
    BY <1>1, <1>3
  <2> HIDE DEF turn
  <2>6. turn[d] < turns + 1
    BY <2>4, <2>5, DivisionIsUnique
  <2> QED BY <1>1, <2>5, <2>6
<1>5. ASSUME NEW d \in naming, NEW e \in naming, turn[d] = turn[e]
      PROVE  d = e
  <2>1. PICK p \in Nat : d = p * n + c
    BY <1>2, Division
  <2>2. PICK q \in Nat : e = q * n + c
    BY <1>2, Division
  <2>3. PICK s \in 0 .. n - 1 : d - least = turn[d] * n + s
    BY <1>3
  <2>4. PICK u \in 0 .. n - 1 : e - least = turn[d] * n + u
    BY <1>3, <1>5
  <2>5. turn[d] \in Nat
    BY <1>3
  <2> HIDE DEF turn
  <2>6. ~ (p < q) /\ ~ (q < p)
    <3>1. turn[d] * n \in Nat /\ d - e = s - u
      BY <1>1, <1>2, <2>3, <2>4, <2>5
    <3>2. s - u < n /\ u - s < n
      OBVIOUS
    <3>3. ASSUME p < q PROVE FALSE
      <4>1. PICK k \in Nat : q = p + 1 + k
        <5>1. q - p - 1 \in Nat /\ q = p + 1 + (q - p - 1)
          BY <3>3
        <5> QED BY <5>1
      <4>2. q * n = p * n + n + k * n /\ k * n \in Nat /\ p * n \in Nat
        BY <4>1
      <4> QED BY <1>2, <2>1, <2>2, <3>1, <3>2, <4>2
    <3>4. ASSUME q < p PROVE FALSE
      <4>1. PICK k \in Nat : p = q + 1 + k
        <5>1. p - q - 1 \in Nat /\ p = q + 1 + (p - q - 1)
          BY <3>4
        <5> QED BY <5>1
      <4>2. p * n = q * n + n + k * n /\ k * n \in Nat /\ q * n \in Nat
        BY <4>1
      <4> QED BY <1>2, <2>1, <2>2, <3>1, <3>2, <4>2
    <3> QED BY <3>3, <3>4
  <2> QED BY <2>1, <2>2, <2>6
<1>6. ASSUME NEW q \in 0 .. turns
      PROVE  \E d \in naming : turn[d] = q
  <2> DEFINE p == IF least <= c THEN q ELSE q + 1
             d == p * n + c
             s == d - least - q * n
  <2>1. p \in Nat /\ q \in Nat /\ p * n \in Nat /\ q * n \in Nat /\ (q + 1) * n = q * n + n
    BY <1>1
  <2>2. s \in 0 .. n - 1 /\ d \in Nat /\ d - least = q * n + s
    <3>1. CASE least <= c
      <4>1. p * n = q * n
        BY <3>1
      <4> HIDE DEF p
      <4> QED BY <1>1, <2>1, <3>1, <4>1
    <3>2. CASE ~ (least <= c)
      <4>1. p * n = q * n + n
        BY <2>1, <3>2
      <4> HIDE DEF p
      <4> QED BY <1>1, <2>1, <3>2, <4>1
    <3> QED BY <3>1, <3>2
  <2>3. d % n = c
    <3>1. d % n \in 0 .. n - 1 /\ d \div n \in Nat /\ d = (d \div n) * n + (d % n)
      BY <2>2, Division
    <3>2. p * n + c = (d \div n) * n + (d % n)
      BY <3>1
    <3> DEFINE k == d \div n
               r == d % n
    <3>3. k \in Nat /\ r \in 0 .. n - 1 /\ p * n + c = k * n + r
      BY <3>1, <3>2
    <3> HIDE DEF p, d, k, r
    <3>4. c = r
      BY <2>1, <3>3, DivisionIsUnique
    <3> QED BY <3>4 DEF r
  <2>4. d \in least .. M - 1
    <3>1. q * n + n <= turns * n + n
      <4>1. CASE q = turns
        BY <4>1
      <4>2. CASE q < turns
        <5>1. q * n + 0 < turns * n + 0
          BY <1>1, <2>1, <4>2, NotBelow
        <5> QED BY <1>2, <2>1, <5>1
      <4> QED BY <1>1, <4>1, <4>2
    <3> HIDE DEF p, d, s
    <3>2. least \in Nat /\ M \in Nat /\ M = turns * n + least + n
      BY <1>1, <1>2
    <3> QED BY <1>2, <2>1, <2>2, <3>1, <3>2
  <2>5. d \in naming
    BY <2>3, <2>4
  <2>6. turn[d] = q
    <3>1. \E u \in 0 .. n - 1 : d - least = turn[d] * n + u
      BY <1>3, <2>5
    <3>2. turn[d] \in Nat
      BY <1>3, <2>5
    <3>3. PICK u \in 0 .. n - 1 : q * n + s = turn[d] * n + u
      BY <2>2, <3>1
    <3> HIDE DEF turn, d, s
    <3> QED BY <2>1, <2>2, <3>2, <3>3, DivisionIsUnique
  <2> HIDE DEF turn, naming
  <2> QED BY <2>5, <2>6
<1>7. turn \in Bijection(naming, 0 .. turns)
  <2>1. turn \in [naming -> 0 .. turns]
    BY <1>4
  <2> HIDE DEF turn, naming
  <2> QED BY <1>5, <1>6, <2>1 DEF Bijection, Injection, Surjection, IsInjective
<1>8. IsFiniteSet(naming)
  <2>1. IsFiniteSet(least .. M - 1)
    BY <1>1, FS_Interval
  <2>2. naming \in SUBSET (least .. M - 1)
    OBVIOUS
  <2> HIDE DEF naming
  <2> QED BY <2>1, <2>2, FS_Subset
<1> HIDE DEF turn, naming
<1>9. Cardinality(0 .. turns) = Cardinality(naming)
  BY <1>7, <1>8, FS_Bijection DEF ExistsBijection
<1> QED BY <1>9 DEF naming, least, turns
-----------------------------------------------------------------------------
\* Bisection: the order remains one, and the table has the degrees of the range.

Ranges == {r \in [first : 1 .. Count + 1, last : 0 .. Count, depth : Int] : r.first <= r.last + 1}

BisectionInv ==
  /\ Arranges(order, Count, Ids)
  /\ ranges \in Seq(Ranges)
  /\ step \in {"descend", "pass", "pairs", "leave"}
  /\ step /= "descend" => ranges /= <<>> /\ Size >= 2
  /\ step = "pairs" => pair \in 0 .. LeftSize
  /\ DegreesExact

LEMMA Halved ==
  ASSUME NEW n \in Nat, n >= 2
  PROVE  /\ n \div 2 \in Nat /\ n \div 2 >= 1
         /\ n - (n \div 2) \in Nat /\ n - (n \div 2) >= n \div 2
         /\ (n \div 2) + (n - (n \div 2)) = n
OBVIOUS

\* The range and its halves.
Middle == First + LeftSize

LEMMA RangeIs ==
  ASSUME InputsFit, BisectionInv, ranges /= <<>>
  PROVE  /\ Count \in Nat
         /\ First \in 1 .. Count + 1 /\ Last \in 0 .. Count /\ First <= Last + 1
         /\ Size \in Nat /\ Size = Last - First + 1
<1>1. Count \in Nat
  BY IdsAreFinite
<1>2. Head(ranges) \in Ranges
  BY DEF BisectionInv
<1>3. First \in 1 .. Count + 1 /\ Last \in 0 .. Count /\ First <= Last + 1
  BY <1>2 DEF Ranges, First, Last
<1> QED BY <1>1, <1>3 DEF Size

LEMMA HalvesAre ==
  ASSUME InputsFit, BisectionInv, ranges /= <<>>, Size >= 2
  PROVE  /\ First \in 1 .. Count /\ Middle \in 1 .. Count /\ Last \in 1 .. Count
         /\ First < Middle /\ Middle <= Last
         /\ LeftSize \in Nat /\ LeftSize >= 1 /\ RightSize \in Nat /\ RightSize >= LeftSize
         /\ LeftSize = (Middle - 1) - First + 1 /\ RightSize = Last - Middle + 1
         /\ Middle = First + LeftSize
         /\ LeftHalf = First .. Middle - 1 /\ RightHalf = Middle .. Last
<1>1. /\ Count \in Nat /\ First \in 1 .. Count + 1 /\ Last \in 0 .. Count
      /\ Size \in Nat /\ Size = Last - First + 1
  BY RangeIs
<1>2. /\ LeftSize \in Nat /\ LeftSize >= 1 /\ RightSize >= LeftSize /\ RightSize \in Nat
      /\ LeftSize + RightSize = Size
  BY <1>1, Halved DEF LeftSize, RightSize
<1>3. /\ First \in 1 .. Count /\ Middle \in 1 .. Count /\ Last \in 1 .. Count
      /\ First < Middle /\ Middle <= Last
      /\ LeftSize = (Middle - 1) - First + 1 /\ RightSize = Last - Middle + 1
  BY <1>1, <1>2 DEF Middle
<1>4. LeftHalf = First .. Middle - 1 /\ RightHalf = Middle .. Last
  BY <1>1, <1>2 DEF Middle, LeftHalf, RightHalf
<1> QED BY <1>2, <1>3, <1>4 DEF Middle

LEMMA HalvesPart ==
  ASSUME InputsFit, BisectionInv, ranges /= <<>>, Size >= 2
  PROVE  /\ LeftHalf \subseteq 1 .. Count /\ RightHalf \subseteq 1 .. Count
         /\ LeftHalf \intersect RightHalf = {}
         /\ First .. Last = LeftHalf \union RightHalf
<1>1. /\ First \in 1 .. Count /\ Middle \in 1 .. Count /\ Last \in 1 .. Count
      /\ First < Middle /\ Middle <= Last
      /\ LeftHalf = First .. Middle - 1 /\ RightHalf = Middle .. Last
  BY HalvesAre
<1>2. Count \in Nat
  BY IdsAreFinite
<1> QED BY <1>1, <1>2

\* Degrees depend on which documents are in a half, not on their order in it.
LEMMA HoldersAre ==
  ASSUME NEW n \in Nat, NEW S, NEW seq, Arranges(seq, n, S),
         NEW I \in SUBSET (1 .. n), NEW t
  PROVE  /\ Holders(seq, I, t) \in Nat
         /\ Holders(seq, I, t) = Cardinality({d \in Elements(seq, I) : t \in termsOf[d]})
<1> DEFINE A == {i \in I : t \in termsOf[seq[i]]}
<1>1. {d \in Elements(seq, I) : t \in termsOf[d]} = Elements(seq, A)
  BY DEF Elements
<1>2. A \in SUBSET (1 .. n)
  OBVIOUS
<1> HIDE DEF A
<1>3. IsFiniteSet(A) /\ Cardinality(Elements(seq, A)) = Cardinality(A)
  BY <1>2, AsManyElements
<1>4. Cardinality(A) \in Nat
  BY <1>3, FS_CardinalityType
<1> QED BY <1>1, <1>3, <1>4 DEF Holders, A
\* What a step may assume of the range.
LEMMA RangeHas ==
  ASSUME InputsFit, BisectionInv, ranges /= <<>>, Size >= 2
  PROVE  /\ Count \in Nat /\ Ids \subseteq Int /\ DOMAIN order = 1 .. Count
         /\ At(First .. Last) = Elements(order, First .. Last)
         /\ At(LeftHalf) = Elements(order, LeftHalf)
         /\ At(RightHalf) = Elements(order, RightHalf)
         /\ IsFiniteSet(At(First .. Last)) /\ Cardinality(At(First .. Last)) = Last - First + 1
         /\ IsFiniteSet(At(LeftHalf)) /\ Cardinality(At(LeftHalf)) = LeftSize
         /\ IsFiniteSet(At(RightHalf)) /\ Cardinality(At(RightHalf)) = RightSize
         /\ At(First .. Last) \subseteq Ids
         /\ At(LeftHalf) \subseteq At(First .. Last)
         /\ At(RightHalf) \subseteq At(First .. Last)
<1>1. Count \in Nat /\ Ids \subseteq Int /\ Arranges(order, Count, Ids)
  BY IdsAreFinite DEF BisectionInv
<1>2. /\ First \in 1 .. Count /\ Middle \in 1 .. Count /\ Last \in 1 .. Count
      /\ First < Middle /\ Middle <= Last
      /\ LeftHalf = First .. Middle - 1 /\ RightHalf = Middle .. Last
      /\ First .. Last = LeftHalf \union RightHalf
      /\ LeftSize = (Middle - 1) - First + 1 /\ RightSize = Last - Middle + 1
  BY HalvesAre, HalvesPart
<1>3. DOMAIN order = 1 .. Count
  BY <1>1 DEF Arranges
<1>4. \A I : At(I) = Elements(order, I)
  BY DEF At, Elements
<1>5. /\ IsFiniteSet(At(First .. Last)) /\ Cardinality(At(First .. Last)) = Last - First + 1
      /\ At(First .. Last) \subseteq Ids
  <2>1. First \in 1 .. Count + 1 /\ Last \in 0 .. Count /\ First <= Last + 1
    BY <1>1, <1>2
  <2> QED BY <1>1, <1>4, <2>1, IntervalHas
<1>6. IsFiniteSet(At(LeftHalf)) /\ Cardinality(At(LeftHalf)) = LeftSize
  <2>1. First \in 1 .. Count + 1 /\ Middle - 1 \in 0 .. Count /\ First <= (Middle - 1) + 1
    BY <1>1, <1>2
  <2>2. /\ IsFiniteSet(Elements(order, First .. Middle - 1))
        /\ Cardinality(Elements(order, First .. Middle - 1)) = (Middle - 1) - First + 1
    BY <1>1, <2>1, IntervalHas
  <2> QED BY <1>2, <1>4, <2>2
<1>7. IsFiniteSet(At(RightHalf)) /\ Cardinality(At(RightHalf)) = RightSize
  <2>1. Middle \in 1 .. Count + 1 /\ Last \in 0 .. Count /\ Middle <= Last + 1
    BY <1>1, <1>2
  <2>2. /\ IsFiniteSet(Elements(order, Middle .. Last))
        /\ Cardinality(Elements(order, Middle .. Last)) = Last - Middle + 1
    BY <1>1, <2>1, IntervalHas
  <2> QED BY <1>2, <1>4, <2>2
<1>8. At(LeftHalf) \subseteq At(First .. Last) /\ At(RightHalf) \subseteq At(First .. Last)
  BY <1>2 DEF At
<1> QED BY <1>1, <1>3, <1>4, <1>5, <1>6, <1>7, <1>8

\* Both halves of the range arranged anew.
Filled(new, p, q) ==
  \A i \in 1 .. Count : new[i] = CASE i \in LeftHalf -> p[i - First + 1]
                                  [] i \in RightHalf -> q[i - First - LeftSize + 1]
                                  [] OTHER -> order[i]

LEMMA HalvesRearranged ==
  ASSUME InputsFit, BisectionInv, ranges /= <<>>, Size >= 2,
         NEW p, Lists(p, LeftSize, At(LeftHalf)), NEW q, Lists(q, RightSize, At(RightHalf)),
         NEW T, NEW new \in [1 .. Count -> T], Filled(new, p, q)
  PROVE  /\ Arranges(new, Count, Ids)
         /\ Elements(new, LeftHalf) = Elements(order, LeftHalf)
         /\ Elements(new, RightHalf) = Elements(order, RightHalf)
<1>1. /\ Count \in Nat /\ First \in 1 .. Count /\ Middle \in 1 .. Count /\ Last \in 1 .. Count
      /\ LeftHalf = First .. Middle - 1 /\ RightHalf = Middle .. Last
      /\ LeftSize = (Middle - 1) - First + 1 /\ RightSize = Last - Middle + 1
      /\ Middle = First + LeftSize /\ LeftSize \in Nat
  BY HalvesAre, IdsAreFinite
<1>2. /\ LeftHalf \in SUBSET (1 .. Count) /\ RightHalf \in SUBSET (1 .. Count)
      /\ LeftHalf \intersect RightHalf = {}
  BY HalvesPart
<1>3. \A i \in LeftHalf : new[i] = p[i - First + 1]
  BY <1>2 DEF Filled
<1>4. \A i \in RightHalf : new[i] = q[i - First - LeftSize + 1]
  <2>1. \A i \in RightHalf : i \in 1 .. Count /\ i \notin LeftHalf
    BY <1>2
  <2> QED BY <2>1 DEF Filled
<1>5. \A i \in (1 .. Count) \ (LeftHalf \union RightHalf) : new[i] = order[i]
  BY DEF Filled
<1>6. /\ Elements(new, LeftHalf) = At(LeftHalf)
      /\ OneToOne(new, LeftHalf)
  <2>1. Takes(new, LeftHalf, First, Middle - 1, p, At(LeftHalf))
    BY <1>1, <1>3 DEF Takes
  <2> QED BY <2>1, ListedInterval
<1>7. /\ Elements(new, RightHalf) = At(RightHalf)
      /\ OneToOne(new, RightHalf)
  <2>1. Takes(new, RightHalf, Middle, Last, q, At(RightHalf))
    <3>1. \A i \in Middle .. Last : i - First - LeftSize + 1 = i - Middle + 1
      BY <1>1
    <3> QED BY <1>1, <1>4, <3>1 DEF Takes
  <2> QED BY <2>1, ListedInterval
<1>8. At(LeftHalf) = Elements(order, LeftHalf) /\ At(RightHalf) = Elements(order, RightHalf)
  BY DEF At, Elements
<1>9. Count \in Nat /\ Arranges(order, Count, Ids)
  BY <1>1 DEF BisectionInv
<1>10. Arranges(new, Count, Ids)
  BY <1>2, <1>5, <1>6, <1>7, <1>8, <1>9, PartsRearranged
<1> QED BY <1>6, <1>7, <1>8, <1>10
\* The sizes of degrees: of a term of a document they do not vanish.
LEMMA DegreesFit ==
  ASSUME InputsFit, BisectionInv, step /= "descend", NEW t \in TermIds
  PROVE  /\ left[t] \in 0 .. LeftSize /\ right[t] \in 0 .. RightSize
         /\ \A i \in LeftHalf : t \in termsOf[order[i]] => left[t] >= 1
         /\ \A i \in RightHalf : t \in termsOf[order[i]] => right[t] >= 1
<1>1. /\ ranges /= <<>> /\ Size >= 2 /\ Arranges(order, Count, Ids)
      /\ left[t] = Holders(order, LeftHalf, t) /\ right[t] = Holders(order, RightHalf, t)
  BY DEF BisectionInv, DegreesExact
<1>2. /\ Count \in Nat /\ LeftHalf \subseteq 1 .. Count /\ RightHalf \subseteq 1 .. Count
      /\ LeftSize \in Nat /\ RightSize \in Nat
  BY <1>1, HalvesPart, HalvesAre, IdsAreFinite
<1>3. /\ IsFiniteSet(LeftHalf) /\ Cardinality(LeftHalf) = LeftSize
      /\ IsFiniteSet(RightHalf) /\ Cardinality(RightHalf) = RightSize
  <2>1. /\ Count \in Nat /\ Arranges(order, Count, Ids)
        /\ LeftHalf \in SUBSET (1 .. Count) /\ RightHalf \in SUBSET (1 .. Count)
    BY <1>1, <1>2
  <2>2. IsFiniteSet(LeftHalf) /\ Cardinality(Elements(order, LeftHalf)) = Cardinality(LeftHalf)
    BY <2>1, AsManyElements
  <2>3. IsFiniteSet(RightHalf) /\ Cardinality(Elements(order, RightHalf)) = Cardinality(RightHalf)
    BY <2>1, AsManyElements
  <2> QED BY <1>1, <2>2, <2>3, RangeHas
<1>4. ASSUME NEW I, NEW size \in Nat, IsFiniteSet(I), Cardinality(I) = size
      PROVE  /\ Holders(order, I, t) \in 0 .. size
             /\ \A i \in I : t \in termsOf[order[i]] => Holders(order, I, t) >= 1
  <2> DEFINE H == {i \in I : t \in termsOf[order[i]]}
  <2>1. H \in SUBSET I
    OBVIOUS
  <2>2. Holders(order, I, t) = Cardinality(H)
    BY DEF Holders
  <2>3. \A i \in I : t \in termsOf[order[i]] => H /= {}
    OBVIOUS
  <2> HIDE DEF H
  <2>4. IsFiniteSet(H) /\ Cardinality(H) \in Nat /\ Cardinality(H) <= size
    BY <1>4, <2>1, FS_Subset, FS_CardinalityType
  <2>5. H /= {} => Cardinality(H) >= 1
    BY <2>4, FS_EmptySet
  <2> QED BY <2>2, <2>3, <2>4, <2>5
<1> QED BY <1>1, <1>2, <1>3, <1>4

\* What moving a document saves is an integer.
LEMMA GainsAreIntegers ==
  ASSUME InputsFit, BisectionInv, step /= "descend"
  PROVE  /\ \A i \in LeftHalf : \A t \in termsOf[order[i]] : GainLeft(t) \in Int
         /\ \A i \in RightHalf : \A t \in termsOf[order[i]] : GainRight(t) \in Int
         /\ \A d \in At(LeftHalf) : MapThenSumSet(GainLeft, termsOf[d]) \in Int
         /\ \A d \in At(RightHalf) : MapThenSumSet(GainRight, termsOf[d]) \in Int
<1>1. ranges /= <<>> /\ Size >= 2
  BY DEF BisectionInv
<1>2. /\ LeftSize \in 1 .. MaxId /\ RightSize \in 1 .. MaxId /\ MaxId \in Nat
      /\ LeftHalf \subseteq 1 .. Count /\ RightHalf \subseteq 1 .. Count
  <2>1. Count \in Nat /\ MaxId \in Nat /\ Count <= MaxId
    BY IdsAreFinite
  <2>2. /\ First \in 1 .. Count /\ Middle \in 1 .. Count /\ Last \in 1 .. Count
        /\ First < Middle /\ Middle <= Last
        /\ LeftSize = (Middle - 1) - First + 1 /\ RightSize = Last - Middle + 1
    BY <1>1, HalvesAre
  <2>3. LeftHalf \subseteq 1 .. Count /\ RightHalf \subseteq 1 .. Count
    BY <1>1, HalvesPart
  <2> QED BY <2>1, <2>2, <2>3
<1>3. \A d \in Ids : termsOf[d] \subseteq TermIds /\ IsFiniteSet(termsOf[d])
  BY FS_Subset, WidthsAssumption DEF InputsFit
<1>4. \A i \in 1 .. Count : order[i] \in Ids
  BY DEF BisectionInv, Arranges
<1>5. ASSUME NEW size \in 1 .. MaxId, NEW degree \in Nat, degree <= size + 1
      PROVE  Proxy(degree, size) \in Int
  <2>1. degree \in 0 .. MaxId + 1
    BY <1>2, <1>5
  <2> QED BY <1>5, <2>1, ProxyAssumption
<1>6. ASSUME NEW i \in LeftHalf, NEW t \in termsOf[order[i]]
      PROVE  GainLeft(t) \in Int
  <2>1. t \in TermIds
    BY <1>2, <1>3, <1>4
  <2>2. left[t] \in 0 .. LeftSize /\ right[t] \in 0 .. RightSize /\ left[t] >= 1
    BY <2>1, DegreesFit
  <2>3. /\ left[t] \in Nat /\ left[t] <= LeftSize + 1 /\ right[t] \in Nat /\ right[t] <= RightSize + 1
        /\ left[t] - 1 \in Nat /\ left[t] - 1 <= LeftSize + 1
        /\ right[t] + 1 \in Nat /\ right[t] + 1 <= RightSize + 1
    BY <1>2, <2>2
  <2>4. /\ Proxy(left[t], LeftSize) \in Int /\ Proxy(right[t], RightSize) \in Int
        /\ Proxy(left[t] - 1, LeftSize) \in Int /\ Proxy(right[t] + 1, RightSize) \in Int
    BY <1>2, <1>5, <2>3
  <2> QED BY <2>4 DEF GainLeft, MoveGain
<1>7. ASSUME NEW i \in RightHalf, NEW t \in termsOf[order[i]]
      PROVE  GainRight(t) \in Int
  <2>1. t \in TermIds
    BY <1>2, <1>3, <1>4
  <2>2. left[t] \in 0 .. LeftSize /\ right[t] \in 0 .. RightSize /\ right[t] >= 1
    BY <2>1, DegreesFit
  <2>3. /\ left[t] \in Nat /\ left[t] <= LeftSize + 1 /\ right[t] \in Nat /\ right[t] <= RightSize + 1
        /\ right[t] - 1 \in Nat /\ right[t] - 1 <= RightSize + 1
        /\ left[t] + 1 \in Nat /\ left[t] + 1 <= LeftSize + 1
    BY <1>2, <2>2
  <2>4. /\ Proxy(left[t], LeftSize) \in Int /\ Proxy(right[t], RightSize) \in Int
        /\ Proxy(right[t] - 1, RightSize) \in Int /\ Proxy(left[t] + 1, LeftSize) \in Int
    BY <1>2, <1>5, <2>3
  <2> QED BY <2>4 DEF GainRight, MoveGain
<1>8. ASSUME NEW d \in At(LeftHalf) PROVE MapThenSumSet(GainLeft, termsOf[d]) \in Int
  <2>1. PICK i \in LeftHalf : d = order[i]
    BY DEF At
  <2> DEFINE S == termsOf[d]
             f == [t \in S |-> GainLeft(t)]
  <2>2. IsFiniteSet(S) /\ DOMAIN f = S /\ \A t \in S : f[t] \in Int
    BY <1>2, <1>3, <1>4, <1>6, <2>1
  <2>3. MapThenSumSet(GainLeft, S) = SumFunction(f)
    BY <2>2, LeftGains
  <2> HIDE DEF S, f
  <2>4. SumFunction(f) \in Int
    BY <2>2, SumIsInteger
  <2> QED BY <2>3, <2>4 DEF S
<1>9. ASSUME NEW d \in At(RightHalf) PROVE MapThenSumSet(GainRight, termsOf[d]) \in Int
  <2>1. PICK i \in RightHalf : d = order[i]
    BY DEF At
  <2> DEFINE S == termsOf[d]
             f == [t \in S |-> GainRight(t)]
  <2>2. IsFiniteSet(S) /\ DOMAIN f = S /\ \A t \in S : f[t] \in Int
    BY <1>2, <1>3, <1>4, <1>7, <2>1
  <2>3. MapThenSumSet(GainRight, S) = SumFunction(f)
    BY <2>2, RightGains
  <2> HIDE DEF S, f
  <2>4. SumFunction(f) \in Int
    BY <2>2, SumIsInteger
  <2> QED BY <2>3, <2>4 DEF S
<1> QED BY <1>6, <1>7, <1>8, <1>9

\* A step that leaves the collection and the range alone.
LEMMA SameRange ==
  ASSUME UNCHANGED <<termsOf, ranges>>
  PROVE  /\ Count' = Count /\ Ids' = Ids /\ Ranges' = Ranges
         /\ Size' = Size /\ LeftSize' = LeftSize
         /\ LeftHalf' = LeftHalf /\ RightHalf' = RightHalf
         /\ \A t : /\ Holders(order, LeftHalf, t)' = Holders(order', LeftHalf, t)
                   /\ Holders(order, RightHalf, t)' = Holders(order', RightHalf, t)
BY DEF Count, Ids, Ranges, Size, First, Last, LeftSize, LeftHalf, RightHalf, Holders

LEMMA SkipKeeps ==
  ASSUME InputsFit, BisectionInv, SkipRange
  PROVE  BisectionInv'
<1> USE DEF SkipRange
<1>1. ranges' \in Seq(Ranges) /\ Ranges' = Ranges /\ Count' = Count /\ Ids' = Ids
  <2>1. ranges \in Seq(Ranges) /\ ranges /= <<>>
    BY DEF BisectionInv
  <2>2. Tail(ranges) \in Seq(Ranges)
    BY <2>1, HeadTailProperties
  <2>3. Count' = Count /\ Ids' = Ids /\ Ranges' = Ranges
    BY DEF collection, Count, Ids, Ranges
  <2> QED BY <2>2, <2>3
<1>2. DegreesExact'
  BY DEF BisectionInv, DegreesExact, scratch
<1> QED BY <1>1, <1>2 DEF BisectionInv

LEMMA EnterKeeps ==
  ASSUME InputsFit, BisectionInv, EnterRange
  PROVE  BisectionInv'
<1> DEFINE ids == Sorted(At(First .. Last), <)
           sorted == [i \in DOMAIN order |->
                        IF i \in First .. Last THEN ids[i - First + 1] ELSE order[i]]
<1>1. /\ step = "descend" /\ ranges /= <<>> /\ Size >= 2
      /\ order' = sorted
      /\ left' = [t \in TermIds |-> left[t] + Holders(sorted, LeftHalf, t)]
      /\ right' = [t \in TermIds |-> right[t] + Holders(sorted, RightHalf, t)]
      /\ touched' = touched \union
           {t \in TermIds : /\ left[t] = 0 /\ right[t] = 0
                            /\ Holders(sorted, LeftHalf, t) + Holders(sorted, RightHalf, t) > 0}
      /\ step' = "pass" /\ UNCHANGED <<termsOf, ranges>>
  BY DEF EnterRange, collection
<1>2. /\ Count \in Nat /\ DOMAIN order = 1 .. Count /\ At(First .. Last) \in SUBSET Int
      /\ IsFiniteSet(At(First .. Last)) /\ Cardinality(At(First .. Last)) = Last - First + 1
      /\ At(First .. Last) = Elements(order, First .. Last)
  BY <1>1, RangeHas
<1>3. /\ First \in Int /\ Last \in Int /\ First .. Last \in SUBSET (1 .. Count)
      /\ LeftHalf \in SUBSET (1 .. Count) /\ RightHalf \in SUBSET (1 .. Count)
  <2>1. First \in 1 .. Count /\ Last \in 1 .. Count
    BY <1>1, HalvesAre
  <2>2. /\ LeftHalf \subseteq 1 .. Count /\ RightHalf \subseteq 1 .. Count
        /\ First .. Last = LeftHalf \union RightHalf
    BY <1>1, HalvesPart
  <2>3. First .. Last \in SUBSET (1 .. Count)
    BY <2>2
  <2> QED BY <1>2, <2>1, <2>2, <2>3
<1>4. Lists(ids, Last - First + 1, At(First .. Last))
  <2> HIDE DEF ids
  <2>1. Lists(ids, Cardinality(At(First .. Last)), At(First .. Last))
    BY <1>2, SortedById DEF ids
  <2> QED BY <1>2, <2>1
<1> HIDE DEF ids
<1>5. Arranges(sorted, Count, Ids)
  <2> DEFINE I == First .. Last
             T == {sorted[i] : i \in 1 .. Count}
  <2>1. /\ sorted \in [1 .. Count -> T]
        /\ \A i \in I : sorted[i] = ids[i - First + 1]
        /\ \A i \in (1 .. Count) \ (I \union {}) : sorted[i] = order[i]
    BY <1>2, <1>3
  <2>2. Takes(sorted, I, First, Last, ids, At(I))
    <3> HIDE DEF sorted, T
    <3> QED BY <1>3, <1>4, <2>1 DEF Takes
  <2>3. I \in SUBSET (1 .. Count) /\ {} \in SUBSET (1 .. Count) /\ I \intersect {} = {}
    BY <1>3
  <2> HIDE DEF sorted, I, T
  <2>4. Elements(sorted, I) = At(I) /\ OneToOne(sorted, I)
    BY <2>2, ListedInterval
  <2>5. At(I) = Elements(order, I) /\ Elements(sorted, {}) = Elements(order, {}) /\ OneToOne(sorted, {})
    BY DEF At, Elements, OneToOne
  <2>6. Count \in Nat /\ Arranges(order, Count, Ids)
    BY <1>2 DEF BisectionInv
  <2>7. Elements(sorted, I) = Elements(order, I)
    BY <2>4, <2>5
  <2> QED BY <2>1, <2>3, <2>4, <2>5, <2>6, <2>7, PartsRearranged
<1> HIDE DEF sorted
<1>6. /\ Count' = Count /\ Ids' = Ids /\ Ranges' = Ranges /\ Size' = Size
      /\ \A t : /\ Holders(order, LeftHalf, t)' = Holders(order', LeftHalf, t)
                /\ Holders(order, RightHalf, t)' = Holders(order', RightHalf, t)
  BY <1>1, SameRange
<1>7. ASSUME NEW t \in TermIds
      PROVE  /\ left'[t] = Holders(order', LeftHalf, t)
             /\ right'[t] = Holders(order', RightHalf, t)
             /\ left'[t] + right'[t] > 0 => t \in touched'
  <2>1. left[t] = 0 /\ right[t] = 0
    BY <1>1 DEF BisectionInv, DegreesExact
  <2>2. Holders(sorted, LeftHalf, t) \in Nat /\ Holders(sorted, RightHalf, t) \in Nat
    BY <1>2, <1>3, <1>5, HoldersAre
  <2> QED BY <1>1, <2>1, <2>2
<1>8. DegreesExact'
  <2>1. \A t \in TermIds : /\ left'[t] = Holders(order, LeftHalf, t)'
                           /\ right'[t] = Holders(order, RightHalf, t)'
                           /\ left'[t] + right'[t] > 0 => t \in touched'
    BY <1>6, <1>7
  <2> QED BY <1>1, <2>1 DEF DegreesExact
<1> QED BY <1>1, <1>5, <1>6, <1>8 DEF BisectionInv
\* The documents of both halves have been arranged anew, the degrees are the same.
LEMMA RearrangedKeeps ==
  ASSUME InputsFit, BisectionInv, step /= "descend",
         UNCHANGED <<termsOf, ranges, scratch>>,
         Arranges(order', Count, Ids),
         Elements(order', LeftHalf) = Elements(order, LeftHalf),
         Elements(order', RightHalf) = Elements(order, RightHalf),
         step' \in {"pass", "pairs", "leave"}, step' = "pairs" => pair' \in 0 .. LeftSize
  PROVE  BisectionInv'
<1>1. /\ ranges /= <<>> /\ Size >= 2 /\ Arranges(order, Count, Ids) /\ ranges \in Seq(Ranges)
      /\ \A t \in TermIds : /\ left[t] = Holders(order, LeftHalf, t)
                            /\ right[t] = Holders(order, RightHalf, t)
                            /\ left[t] + right[t] > 0 => t \in touched
  BY DEF BisectionInv, DegreesExact
<1>2. Count \in Nat /\ LeftHalf \in SUBSET (1 .. Count) /\ RightHalf \in SUBSET (1 .. Count)
  BY <1>1, IdsAreFinite, HalvesPart
<1>3. /\ Count' = Count /\ Ids' = Ids /\ Ranges' = Ranges /\ Size' = Size /\ LeftSize' = LeftSize
      /\ \A t : /\ Holders(order, LeftHalf, t)' = Holders(order', LeftHalf, t)
                /\ Holders(order, RightHalf, t)' = Holders(order', RightHalf, t)
  BY SameRange
<1>4. ASSUME NEW t, NEW I \in SUBSET (1 .. Count), Elements(order', I) = Elements(order, I)
      PROVE  Holders(order', I, t) = Holders(order, I, t)
  <2>1. Holders(order', I, t) = Cardinality({d \in Elements(order', I) : t \in termsOf[d]})
    BY <1>2, HoldersAre
  <2>2. Holders(order, I, t) = Cardinality({d \in Elements(order, I) : t \in termsOf[d]})
    BY <1>1, <1>2, HoldersAre
  <2> QED BY <1>4, <2>1, <2>2
<1>5. \A t \in TermIds : /\ left'[t] = Holders(order, LeftHalf, t)'
                         /\ right'[t] = Holders(order, RightHalf, t)'
                         /\ left'[t] + right'[t] > 0 => t \in touched'
  BY <1>1, <1>2, <1>3, <1>4 DEF scratch
<1>6. DegreesExact'
  BY <1>5 DEF DegreesExact
<1> QED BY <1>1, <1>3, <1>6 DEF BisectionInv

LEMMA BeginPassKeeps ==
  ASSUME InputsFit, BisectionInv, BeginPass
  PROVE  BisectionInv'
<1> DEFINE docs == At(First .. Last)
           gain == [d \in docs |-> IF d \in At(LeftHalf) THEN MapThenSumSet(GainLeft, termsOf[d])
                                                         ELSE MapThenSumSet(GainRight, termsOf[d])]
           p == Sorted(At(LeftHalf), LAMBDA a, b : gain[a] > gain[b] \/ (gain[a] = gain[b] /\ a < b))
           q == Sorted(At(RightHalf), LAMBDA a, b : gain[a] > gain[b] \/ (gain[a] = gain[b] /\ a < b))
<1>1. /\ step = "pass" /\ step' = "pairs" /\ pair' = 0
      /\ UNCHANGED <<termsOf, ranges, scratch>>
  BY DEF BeginPass, collection
<1>2. order' = [i \in DOMAIN order |-> CASE i \in LeftHalf -> p[i - First + 1]
                                         [] i \in RightHalf -> q[i - First - LeftSize + 1]
                                         [] OTHER -> order[i]]
  BY DEF BeginPass, BothSorted
<1>3. ranges /= <<>> /\ Size >= 2
  BY <1>1 DEF BisectionInv
<1>4. /\ Count \in Nat /\ DOMAIN order = 1 .. Count /\ docs \in SUBSET Int
      /\ IsFiniteSet(At(LeftHalf)) /\ Cardinality(At(LeftHalf)) = LeftSize
      /\ IsFiniteSet(At(RightHalf)) /\ Cardinality(At(RightHalf)) = RightSize
      /\ At(LeftHalf) \in SUBSET docs /\ At(RightHalf) \in SUBSET docs
      /\ docs = At(LeftHalf) \union At(RightHalf)
  <2>1. First .. Last = LeftHalf \union RightHalf
    BY <1>3, HalvesPart
  <2>2. docs = At(LeftHalf) \union At(RightHalf)
    BY <2>1 DEF At
  <2> QED BY <1>3, <2>2, RangeHas
<1>5. gain \in [docs -> Int]
  <2>1. \A d \in At(LeftHalf) : MapThenSumSet(GainLeft, termsOf[d]) \in Int
    BY <1>1, GainsAreIntegers
  <2>2. \A d \in At(RightHalf) : MapThenSumSet(GainRight, termsOf[d]) \in Int
    BY <1>1, GainsAreIntegers
  <2>3. \A d \in docs : d \notin At(LeftHalf) => d \in At(RightHalf)
    BY <1>4
  <2> HIDE DEF docs
  <2> QED BY <2>1, <2>2, <2>3
<1> HIDE DEF docs, gain
<1>6. Lists(p, LeftSize, At(LeftHalf))
  <2>1. Lists(p, Cardinality(At(LeftHalf)), At(LeftHalf))
    BY <1>4, <1>5, SortedByGain
  <2> HIDE DEF p
  <2> QED BY <1>4, <2>1
<1>7. Lists(q, RightSize, At(RightHalf))
  <2>1. Lists(q, Cardinality(At(RightHalf)), At(RightHalf))
    BY <1>4, <1>5, SortedByGain
  <2> HIDE DEF q
  <2> QED BY <1>4, <2>1
<1> HIDE DEF p, q
<1>8. /\ order' \in [1 .. Count -> {order'[i] : i \in 1 .. Count}]
      /\ Filled(order', p, q)
  BY <1>2, <1>4 DEF Filled
<1>9. /\ Arranges(order', Count, Ids)
      /\ Elements(order', LeftHalf) = Elements(order, LeftHalf)
      /\ Elements(order', RightHalf) = Elements(order, RightHalf)
  BY <1>3, <1>6, <1>7, <1>8, HalvesRearranged
<1>10. pair' \in 0 .. LeftSize
  BY <1>1, <1>3, HalvesAre
<1> QED BY <1>1, <1>9, <1>10, RearrangedKeeps

LEMMA KeepPairKeeps ==
  ASSUME InputsFit, BisectionInv, KeepPair
  PROVE  BisectionInv'
<1>1. /\ step = "pairs" /\ pair < LeftSize /\ pair' = pair + 1 /\ step' = "pairs"
      /\ UNCHANGED <<termsOf, ranges, scratch>> /\ order' = order
  BY DEF KeepPair, collection
<1>2. ranges /= <<>> /\ Size >= 2 /\ Arranges(order, Count, Ids) /\ pair \in 0 .. LeftSize
  BY <1>1 DEF BisectionInv
<1>3. pair' \in 0 .. LeftSize
  BY <1>1, <1>2, HalvesAre
<1> QED BY <1>1, <1>2, <1>3, RearrangedKeeps

LEMMA EndPassKeeps ==
  ASSUME InputsFit, BisectionInv, EndPass
  PROVE  BisectionInv'
<1>1. /\ step = "pairs" /\ step' \in {"pass", "leave"}
      /\ UNCHANGED <<termsOf, ranges, scratch>> /\ order' = order
  BY DEF EndPass, collection
<1>2. Arranges(order, Count, Ids)
  BY DEF BisectionInv
<1> QED BY <1>1, <1>2, RearrangedKeeps
\* One document of a half has been replaced.
LEMMA HoldersOfReplaced ==
  ASSUME NEW I, IsFiniteSet(I), NEW k \in I, NEW seq, NEW new,
         \A i \in I \ {k} : new[i] = seq[i], NEW t
  PROVE  Holders(new, I, t) = Holders(seq, I, t) - (IF t \in termsOf[seq[k]] THEN 1 ELSE 0)
                                                 + (IF t \in termsOf[new[k]] THEN 1 ELSE 0)
<1> DEFINE R == {i \in I \ {k} : t \in termsOf[seq[i]]}
<1>1. /\ {i \in I : t \in termsOf[seq[i]]} = IF t \in termsOf[seq[k]] THEN R \union {k} ELSE R
      /\ {i \in I : t \in termsOf[new[i]]} = IF t \in termsOf[new[k]] THEN R \union {k} ELSE R
  OBVIOUS
<1>2. R \in SUBSET I /\ k \notin R
  OBVIOUS
<1> HIDE DEF R
<1>3. IsFiniteSet(R) /\ Cardinality(R) \in Nat /\ Cardinality(R \union {k}) = Cardinality(R) + 1
  BY <1>2, FS_Subset, FS_AddElement, FS_CardinalityType
<1>4. /\ Holders(seq, I, t) = IF t \in termsOf[seq[k]] THEN Cardinality(R) + 1 ELSE Cardinality(R)
      /\ Holders(new, I, t) = IF t \in termsOf[new[k]] THEN Cardinality(R) + 1 ELSE Cardinality(R)
  BY <1>1, <1>3 DEF Holders
<1> QED BY <1>3, <1>4

\* What an exchange does to the order.
LEMMA ExchangeIs ==
  ASSUME InputsFit, BisectionInv, ExchangePair
  PROVE  /\ step = "pairs" /\ step' = "pairs" /\ ranges /= <<>> /\ Size >= 2
         /\ UNCHANGED <<termsOf, ranges, touched>>
         /\ left' = Degree(left, termsOf[LeftDoc], termsOf[RightDoc])
         /\ right' = Degree(right, termsOf[RightDoc], termsOf[LeftDoc])
         /\ pair' \in 0 .. LeftSize
         /\ First + pair \in LeftHalf /\ First + LeftSize + pair \in RightHalf
         /\ LeftHalf \subseteq 1 .. Count /\ RightHalf \subseteq 1 .. Count
         /\ IsFiniteSet(LeftHalf) /\ IsFiniteSet(RightHalf)
         /\ Arranges(order', Count, Ids)
         /\ order'[First + pair] = RightDoc /\ order'[First + LeftSize + pair] = LeftDoc
         /\ \A i \in LeftHalf \ {First + pair} : order'[i] = order[i]
         /\ \A i \in RightHalf \ {First + LeftSize + pair} : order'[i] = order[i]
<1> DEFINE k == First + pair
           l == First + LeftSize + pair
<1>1. /\ step = "pairs" /\ step' = "pairs" /\ pair < LeftSize /\ pair' = pair + 1
      /\ UNCHANGED <<termsOf, ranges, touched>>
      /\ left' = Degree(left, termsOf[LeftDoc], termsOf[RightDoc])
      /\ right' = Degree(right, termsOf[RightDoc], termsOf[LeftDoc])
      /\ order' = [order EXCEPT ![k] = order[l], ![l] = order[k]]
  BY DEF ExchangePair, collection, LeftDoc, RightDoc
<1>2. ranges /= <<>> /\ Size >= 2 /\ Arranges(order, Count, Ids) /\ pair \in 0 .. LeftSize
  BY <1>1 DEF BisectionInv
<1>3. /\ Count \in Nat /\ LeftHalf \subseteq 1 .. Count /\ RightHalf \subseteq 1 .. Count
      /\ LeftHalf \intersect RightHalf = {}
  BY <1>2, HalvesPart, IdsAreFinite
<1>4. k \in LeftHalf /\ l \in RightHalf /\ pair' \in 0 .. LeftSize
  <2>1. /\ First \in Int /\ Middle \in Int /\ Last \in Int
        /\ LeftSize \in Nat /\ RightSize \in Nat /\ RightSize >= LeftSize
        /\ LeftSize = (Middle - 1) - First + 1 /\ RightSize = Last - Middle + 1
        /\ LeftHalf = First .. Middle - 1 /\ RightHalf = Middle .. Last
    <3>1. Count \in Nat /\ First \in 1 .. Count /\ Middle \in 1 .. Count /\ Last \in 1 .. Count
      BY <1>2, <1>3, HalvesAre
    <3> QED BY <1>2, <3>1, HalvesAre
  <2>2. l = Middle + pair
    BY DEF Middle
  <2>3. pair \in Nat /\ pair < LeftSize /\ pair' = pair + 1
    BY <1>1, <1>2, <2>1
  <2>4. First + pair \in First .. Middle - 1 /\ Middle + pair \in Middle .. Last /\ pair' \in 0 .. LeftSize
    BY <2>1, <2>3
  <2> QED BY <2>1, <2>2, <2>4
<1>5. IsFiniteSet(LeftHalf) /\ IsFiniteSet(RightHalf)
  <2>1. IsFiniteSet(1 .. Count)
    BY <1>3, FS_Interval
  <2> QED BY <1>3, <2>1, FS_Subset
<1>6. k \in 1 .. Count /\ l \in 1 .. Count /\ k /= l /\ k \notin RightHalf /\ l \notin LeftHalf
  <2> HIDE DEF k, l
  <2> QED BY <1>3, <1>4
<1>7. LeftDoc = order[k] /\ RightDoc = order[l]
  BY DEF LeftDoc, RightDoc
<1> HIDE DEF k, l
<1>8. Arranges(order', Count, Ids)
  BY <1>1, <1>2, <1>3, <1>6, Exchanged
<1>9. /\ order'[k] = RightDoc /\ order'[l] = LeftDoc
      /\ \A i \in 1 .. Count : i /= k /\ i /= l => order'[i] = order[i]
  BY <1>1, <1>2, <1>6, <1>7 DEF Arranges
<1>10. /\ \A i \in LeftHalf \ {k} : order'[i] = order[i]
       /\ \A i \in RightHalf \ {l} : order'[i] = order[i]
  BY <1>3, <1>6, <1>9
<1> QED BY <1>1, <1>2, <1>3, <1>4, <1>5, <1>8, <1>9, <1>10 DEF k, l

\* The degrees follow the documents.
LEMMA ExchangeMoves ==
  ASSUME InputsFit, BisectionInv, ExchangePair, NEW t \in TermIds
  PROVE  LET a == IF t \in termsOf[LeftDoc] THEN 1 ELSE 0
             b == IF t \in termsOf[RightDoc] THEN 1 ELSE 0
         IN  /\ Holders(order, LeftHalf, t) = left[t] /\ Holders(order, RightHalf, t) = right[t]
             /\ left[t] \in 0 .. LeftSize /\ right[t] \in 0 .. RightSize
             /\ a = 1 => left[t] >= 1
             /\ b = 1 => right[t] >= 1
             /\ left'[t] = left[t] - a + b /\ Holders(order', LeftHalf, t) = left[t] - a + b
             /\ right'[t] = right[t] - b + a /\ Holders(order', RightHalf, t) = right[t] - b + a
<1> DEFINE a == IF t \in termsOf[LeftDoc] THEN 1 ELSE 0
           b == IF t \in termsOf[RightDoc] THEN 1 ELSE 0
<1>1. /\ step = "pairs"
      /\ left[t] = Holders(order, LeftHalf, t) /\ right[t] = Holders(order, RightHalf, t)
  BY ExchangeIs DEF BisectionInv, DegreesExact
<1>2. LeftDoc = order[First + pair] /\ RightDoc = order[First + LeftSize + pair]
  BY DEF LeftDoc, RightDoc
<1>3. /\ left[t] \in 0 .. LeftSize /\ right[t] \in 0 .. RightSize
      /\ a = 1 => left[t] >= 1
      /\ b = 1 => right[t] >= 1
  <2>1. /\ left[t] \in 0 .. LeftSize /\ right[t] \in 0 .. RightSize
        /\ \A i \in LeftHalf : t \in termsOf[order[i]] => left[t] >= 1
        /\ \A i \in RightHalf : t \in termsOf[order[i]] => right[t] >= 1
    BY <1>1, DegreesFit
  <2>2. First + pair \in LeftHalf /\ First + LeftSize + pair \in RightHalf
    BY ExchangeIs
  <2> QED BY <1>2, <2>1, <2>2
<1>4. left'[t] = left[t] - a + b /\ right'[t] = right[t] - b + a
  <2>1. /\ left' = Degree(left, termsOf[LeftDoc], termsOf[RightDoc])
        /\ right' = Degree(right, termsOf[RightDoc], termsOf[LeftDoc])
    BY ExchangeIs
  <2> QED BY <2>1 DEF Degree
<1>5. Holders(order', LeftHalf, t) = Holders(order, LeftHalf, t) - a + b
  <2>1. /\ IsFiniteSet(LeftHalf) /\ First + pair \in LeftHalf
        /\ order'[First + pair] = RightDoc
        /\ \A i \in LeftHalf \ {First + pair} : order'[i] = order[i]
    BY ExchangeIs
  <2>2. Holders(order', LeftHalf, t) = Holders(order, LeftHalf, t)
          - (IF t \in termsOf[order[First + pair]] THEN 1 ELSE 0)
          + (IF t \in termsOf[order'[First + pair]] THEN 1 ELSE 0)
    BY <2>1, HoldersOfReplaced
  <2> QED BY <1>2, <2>1, <2>2
<1>6. Holders(order', RightHalf, t) = Holders(order, RightHalf, t) - b + a
  <2>1. /\ IsFiniteSet(RightHalf) /\ First + LeftSize + pair \in RightHalf
        /\ order'[First + LeftSize + pair] = LeftDoc
        /\ \A i \in RightHalf \ {First + LeftSize + pair} : order'[i] = order[i]
    BY ExchangeIs
  <2>2. Holders(order', RightHalf, t) = Holders(order, RightHalf, t)
          - (IF t \in termsOf[order[First + LeftSize + pair]] THEN 1 ELSE 0)
          + (IF t \in termsOf[order'[First + LeftSize + pair]] THEN 1 ELSE 0)
    BY <2>1, HoldersOfReplaced
  <2> QED BY <1>2, <2>1, <2>2
<1> QED BY <1>1, <1>3, <1>4, <1>5, <1>6

LEMMA ExchangeKeeps ==
  ASSUME InputsFit, BisectionInv, ExchangePair
  PROVE  BisectionInv'
<1>1. /\ step = "pairs" /\ step' = "pairs" /\ ranges /= <<>> /\ Size >= 2
      /\ UNCHANGED <<termsOf, ranges, touched>> /\ ranges \in Seq(Ranges)
      /\ pair' \in 0 .. LeftSize /\ Arranges(order', Count, Ids)
  BY ExchangeIs DEF BisectionInv
<1>2. /\ Count' = Count /\ Ids' = Ids /\ Ranges' = Ranges /\ Size' = Size /\ LeftSize' = LeftSize
      /\ \A t : /\ Holders(order, LeftHalf, t)' = Holders(order', LeftHalf, t)
                /\ Holders(order, RightHalf, t)' = Holders(order', RightHalf, t)
  BY <1>1, SameRange
<1>3. ASSUME NEW t \in TermIds
      PROVE  /\ left'[t] = Holders(order', LeftHalf, t)
             /\ right'[t] = Holders(order', RightHalf, t)
             /\ left'[t] + right'[t] > 0 => t \in touched'
  <2> DEFINE a == IF t \in termsOf[LeftDoc] THEN 1 ELSE 0
             b == IF t \in termsOf[RightDoc] THEN 1 ELSE 0
  <2>1. left[t] + right[t] > 0 => t \in touched
    BY <1>1 DEF BisectionInv, DegreesExact
  <2>2. /\ left[t] \in Int /\ right[t] \in Int
        /\ left'[t] = left[t] - a + b /\ Holders(order', LeftHalf, t) = left[t] - a + b
        /\ right'[t] = right[t] - b + a /\ Holders(order', RightHalf, t) = right[t] - b + a
    BY ExchangeMoves
  <2>3. a \in Int /\ b \in Int
    OBVIOUS
  <2> HIDE DEF a, b
  <2> QED BY <1>1, <2>1, <2>2, <2>3
<1>4. \A t \in TermIds : /\ left'[t] = Holders(order, LeftHalf, t)'
                         /\ right'[t] = Holders(order, RightHalf, t)'
                         /\ left'[t] + right'[t] > 0 => t \in touched'
  BY <1>2, <1>3
<1>5. DegreesExact'
  BY <1>1, <1>4 DEF DegreesExact
<1> QED BY <1>1, <1>2, <1>5 DEF BisectionInv

LEMMA LeaveKeeps ==
  ASSUME InputsFit, BisectionInv, LeaveRange
  PROVE  BisectionInv'
<1> DEFINE a == [first |-> First, last |-> First + LeftSize - 1, depth |-> Head(ranges).depth - 1]
           b == [first |-> First + LeftSize, last |-> Last, depth |-> Head(ranges).depth - 1]
           p == Sorted(At(LeftHalf), <)
           q == Sorted(At(RightHalf), <)
<1>1. /\ step = "leave" /\ step' = "descend" /\ UNCHANGED termsOf /\ Cleared
      /\ \/ ranges' = <<a, b>> \o Tail(ranges) /\ order' = order
         \/ ranges' = Tail(ranges) /\ order' = BothSorted(<)
  <2>1. \/ ranges' = <<a, b>> \o Tail(ranges) /\ UNCHANGED order
        \/ ranges' = Tail(ranges) /\ order' = BothSorted(<)
    BY DEF LeaveRange
  <2> QED BY <2>1 DEF LeaveRange, collection
<1>2. ranges /= <<>> /\ Size >= 2 /\ ranges \in Seq(Ranges) /\ Arranges(order, Count, Ids)
  BY <1>1 DEF BisectionInv
<1>3. Count' = Count /\ Ids' = Ids /\ Ranges' = Ranges
  BY <1>1 DEF Count, Ids, Ranges
<1>4. ranges' \in Seq(Ranges)
  <2>1. Tail(ranges) \in Seq(Ranges) /\ Head(ranges) \in Ranges
    BY <1>2, HeadTailProperties
  <2>2. a \in Ranges /\ b \in Ranges
    <3>1. /\ First \in 1 .. Count /\ Middle \in 1 .. Count /\ Last \in 1 .. Count
          /\ First < Middle /\ Middle <= Last /\ LeftSize \in Nat /\ Middle = First + LeftSize
      BY <1>2, HalvesAre
    <3>2. Count \in Nat /\ Head(ranges).depth - 1 \in Int
      BY <2>1, IdsAreFinite DEF Ranges
    <3>3. First \in Int /\ First + LeftSize - 1 = Middle - 1
      BY <3>1, <3>2
    <3>4. /\ First \in 1 .. Count + 1 /\ Middle - 1 \in 0 .. Count /\ First <= (Middle - 1) + 1
          /\ Middle \in 1 .. Count + 1 /\ Last \in 0 .. Count /\ Middle <= Last + 1
      BY <3>1, <3>2
    <3> QED BY <3>1, <3>2, <3>3, <3>4 DEF Ranges
  <2> HIDE DEF a, b
  <2>3. <<a, b>> \in Seq(Ranges)
    BY <2>2
  <2>4. <<a, b>> \o Tail(ranges) \in Seq(Ranges)
    BY <2>1, <2>3, ConcatProperties
  <2> QED BY <1>1, <2>1, <2>4
<1>5. Arranges(order', Count, Ids)
  <2>1. CASE order' = order
    BY <1>2, <2>1
  <2>2. CASE order' = BothSorted(<)
    <3>1. order' = [i \in DOMAIN order |-> CASE i \in LeftHalf -> p[i - First + 1]
                                             [] i \in RightHalf -> q[i - First - LeftSize + 1]
                                             [] OTHER -> order[i]]
      BY <2>2 DEF BothSorted
    <3>2. /\ DOMAIN order = 1 .. Count
          /\ IsFiniteSet(At(LeftHalf)) /\ Cardinality(At(LeftHalf)) = LeftSize
          /\ IsFiniteSet(At(RightHalf)) /\ Cardinality(At(RightHalf)) = RightSize
      BY <1>2, RangeHas
    <3>3. At(LeftHalf) \in SUBSET Int /\ At(RightHalf) \in SUBSET Int
      <4>1. /\ At(LeftHalf) \subseteq At(First .. Last) /\ At(RightHalf) \subseteq At(First .. Last)
            /\ At(First .. Last) \subseteq Ids /\ Ids \subseteq Int
        BY <1>2, RangeHas
      <4> QED BY <4>1
    <3>4. Lists(p, LeftSize, At(LeftHalf))
      <4>1. Lists(p, Cardinality(At(LeftHalf)), At(LeftHalf))
        BY <3>2, <3>3, SortedById
      <4> HIDE DEF p
      <4> QED BY <3>2, <4>1
    <3>5. Lists(q, RightSize, At(RightHalf))
      <4>1. Lists(q, Cardinality(At(RightHalf)), At(RightHalf))
        BY <3>2, <3>3, SortedById
      <4> HIDE DEF q
      <4> QED BY <3>2, <4>1
    <3> HIDE DEF p, q
    <3>6. order' \in [1 .. Count -> {order'[i] : i \in 1 .. Count}] /\ Filled(order', p, q)
      BY <3>1, <3>2 DEF Filled
    <3> QED BY <1>2, <3>4, <3>5, <3>6, HalvesRearranged
  <2> QED BY <1>1, <2>1, <2>2
<1>6. touched' = {} /\ \A t \in TermIds : left'[t] = 0 /\ right'[t] = 0
  <2>1. \A t \in TermIds : t \notin touched => left[t] = 0 /\ right[t] = 0
    <3> TAKE t \in TermIds
    <3>1. left[t] \in 0 .. LeftSize /\ right[t] \in 0 .. RightSize
      BY <1>1, DegreesFit
    <3>2. left[t] + right[t] > 0 => t \in touched
      BY <1>1 DEF BisectionInv, DegreesExact
    <3> QED BY <3>1, <3>2
  <2> QED BY <1>1, <2>1 DEF Cleared
<1>7. DegreesExact'
  BY <1>1, <1>6 DEF DegreesExact
<1> QED BY <1>1, <1>3, <1>4, <1>5, <1>7 DEF BisectionInv

LEMMA BisectKeeps ==
  ASSUME InputsFit, BisectionInv, Bisect
  PROVE  BisectionInv' /\ UNCHANGED collection
<1>1. BisectionInv'
  BY SkipKeeps, EnterKeeps, BeginPassKeeps, ExchangeKeeps, KeepPairKeeps, EndPassKeeps, LeaveKeeps
     DEF Bisect
<1>2. UNCHANGED collection
  BY DEF Bisect, SkipRange, EnterRange, BeginPass, ExchangePair, KeepPair, EndPass, LeaveRange
<1> QED BY <1>1, <1>2

LEMMA BeginInv ==
  ASSUME InputsFit, Begin, depth \in Int
  PROVE  BisectionInv
<1>1. /\ order = [i \in 1 .. Count |-> i - 1]
      /\ ranges = << [first |-> 1, last |-> Count, depth |-> depth] >>
      /\ step = "descend" /\ touched = {}
      /\ left = [t \in TermIds |-> 0] /\ right = [t \in TermIds |-> 0]
  BY DEF Begin, Count
<1>2. Count \in Nat
  BY IdsAreFinite
<1>3. Arranges(order, Count, Ids)
  BY <1>1, <1>2 DEF Arranges, Ids
<1>4. ranges \in Seq(Ranges)
  <2> DEFINE r == [first |-> 1, last |-> Count, depth |-> depth]
  <2>1. r \in Ranges
    BY <1>2 DEF Ranges
  <2> HIDE DEF r
  <2>2. <<r>> \in Seq(Ranges)
    BY <2>1
  <2> QED BY <1>1, <2>2 DEF r
<1> QED BY <1>1, <1>3, <1>4 DEF BisectionInv, DegreesExact

-----------------------------------------------------------------------------
\* Renumberings.

\* Between sets of one size, each element once and every element are the same.
LEMMA OnceIsEach ==
  ASSUME NEW A, NEW B, IsFiniteSet(A), IsFiniteSet(B), Cardinality(A) = Cardinality(B),
         NEW seq, \A i \in A : seq[i] \in B
  PROVE  OneToOne(seq, A) <=> \A d \in B : \E i \in A : seq[i] = d
<1> DEFINE f == [i \in A |-> seq[i]]
<1>1. f \in [A -> B] /\ \A i \in A : f[i] = seq[i]
  OBVIOUS
<1> HIDE DEF f
<1>2. OneToOne(seq, A) <=> f \in Injection(A, B)
  BY <1>1 DEF OneToOne, Injection, IsInjective
<1>3. (\A d \in B : \E i \in A : seq[i] = d) <=> f \in Surjection(A, B)
  BY <1>1 DEF Surjection
<1>4. ASSUME f \in Injection(A, B) PROVE f \in Surjection(A, B)
  BY <1>4, FS_Injection
<1>5. ASSUME f \in Surjection(A, B) PROVE f \in Injection(A, B)
  BY <1>5, FS_SurjSameCardinalityImpliesInj
<1> QED BY <1>2, <1>3, <1>4, <1>5

\* Two renumberings, each the inverse of the other.
Inverses(f, g) ==
  /\ \A d \in Ids : f[d] \in Ids /\ g[d] \in Ids
  /\ \A d \in Ids : g[f[d]] = d /\ f[g[d]] = d

\* What is checked of a map is that it is one to one.
LEMMA InvertibleIs ==
  ASSUME InputsFit, NEW map
  PROVE  Invertible(map) <=> (\A i \in Ids : map[i] \in Ids) /\ OneToOne(map, Ids)
<1>1. /\ Ids \subseteq Int /\ \A i \in Ids, j \in Int : j \in 0 .. i - 1 <=> j \in Ids /\ j < i
  BY IdsAreFinite DEF Ids
<1>2. ASSUME Invertible(map), NEW i \in Ids, NEW j \in Ids, map[i] = map[j] PROVE i = j
  <2>1. ~ (i < j) /\ ~ (j < i)
    BY <1>1, <1>2 DEF Invertible
  <2> QED BY <1>1, <2>1
<1>3. ASSUME \A i \in Ids : map[i] \in Ids, OneToOne(map, Ids), NEW i \in Ids, NEW j \in 0 .. i - 1
      PROVE  map[j] /= map[i]
  <2>1. j \in Ids /\ j /= i
    BY <1>1
  <2> QED BY <1>3, <2>1 DEF OneToOne
<1>4. Invertible(map) => \A i \in Ids : map[i] \in Ids
  BY DEF Invertible
<1>5. Invertible(map) => OneToOne(map, Ids)
  BY <1>2 DEF OneToOne
<1>6. (\A i \in Ids : map[i] \in Ids) /\ OneToOne(map, Ids) => Invertible(map)
  BY <1>3 DEF Invertible
<1> QED BY <1>4, <1>5, <1>6

LEMMA InverseIs ==
  ASSUME InputsFit, NEW map, Invertible(map)
  PROVE  /\ Inverses(map, InverseOf(map)) /\ Inverses(InverseOf(map), map)
         /\ \A i \in Ids : \E j \in Ids : map[j] = i
<1>1. /\ \A i \in Ids : map[i] \in Ids
      /\ \A i, j \in Ids : map[i] = map[j] => i = j
  BY InvertibleIs DEF OneToOne
<1>2. \A i \in Ids : \E j \in Ids : map[j] = i
  <2>1. IsFiniteSet(Ids) /\ OneToOne(map, Ids)
    BY <1>1, IdsAreFinite DEF OneToOne
  <2> DEFINE I == Ids
  <2>2. IsFiniteSet(I) /\ OneToOne(map, I) /\ \A i \in I : map[i] \in I
    BY <1>1, <2>1
  <2> HIDE DEF I
  <2>3. \A i \in I : \E j \in I : map[j] = i
    BY <2>2, OnceIsEach
  <2> QED BY <2>3 DEF I
<1>3. \A k \in Ids : k <= k
  BY IdsAreFinite
<1>4. \A i \in Ids : InverseOf(map)[i] \in Ids /\ map[InverseOf(map)[i]] = i
  <2> TAKE i \in Ids
  <2>1. PICK j \in Ids : map[j] = i
    BY <1>2
  <2>2. \A k \in Ids : map[k] = i => k <= j
    BY <1>1, <1>3, <2>1
  <2>3. InverseOf(map)[i] = CHOOSE h \in Ids : map[h] = i /\ \A k \in Ids : map[k] = i => k <= h
    BY <2>1 DEF InverseOf
  <2> QED BY <2>1, <2>2, <2>3
<1>5. \A d \in Ids : InverseOf(map)[map[d]] = d
  BY <1>1, <1>4
<1> QED BY <1>1, <1>2, <1>4, <1>5 DEF Inverses

\* An order of all documents is one.
LEMMA OrderIsInvertible ==
  ASSUME InputsFit, Arranges(order, Count, Ids)
  PROVE  Invertible([i \in Ids |-> order[i + 1]])
<1> DEFINE map == [i \in Ids |-> order[i + 1]]
<1>1. \A i \in Ids : i \in Int /\ i + 1 \in 1 .. Count
  BY IdsAreFinite DEF Ids
<1>2. \A i \in Ids : map[i] = order[i + 1]
  OBVIOUS
<1> HIDE DEF map
<1>3. \A i \in Ids : map[i] \in Ids
  BY <1>1, <1>2 DEF Arranges
<1>4. ASSUME NEW i \in Ids, NEW j \in Ids, map[i] = map[j] PROVE i = j
  <2>1. i + 1 = j + 1
    BY <1>1, <1>2, <1>4 DEF Arranges
  <2> QED BY <1>1, <2>1
<1>5. Invertible(map)
  BY <1>3, <1>4, InvertibleIs DEF OneToOne
<1> QED BY <1>5 DEF map

\* The draws of a shuffle.
EvenDraws(end) ==
  \A chosen \in 0 .. end - 1 :
    Cardinality({draw \in Accepted(end) : draw % end = chosen})
      = Cardinality({draw \in Accepted(end) : draw % end = 0})

LEMMA DrawsEven ==
  ASSUME NEW end \in 1 .. MaxId
  PROVE  EvenDraws(end)
<1> DEFINE M == 2 ^ DrawBits
           Naming(chosen) == {draw \in Accepted(end) : draw % end = chosen}
           naming(chosen) == {draw \in (M - end) % end .. M - 1 : draw % end = chosen}
           turns == (M - end) \div end
<1>1. M \in Nat /\ end \in Nat \ {0} /\ end <= M
  BY WidthsAssumption
<1>2. ASSUME NEW chosen \in 0 .. end - 1
      PROVE  Cardinality(Naming(chosen)) = Cardinality(0 .. turns)
  <2>1. Naming(chosen) = naming(chosen)
    BY DEF Accepted
  <2>2. Cardinality(naming(chosen)) = Cardinality(0 .. turns)
    <3> HIDE DEF M
    <3> QED BY <1>1, RemaindersAreEven
  <2> QED BY <2>1, <2>2
<1>3. 0 \in 0 .. end - 1
  BY <1>1
<1> HIDE DEF Naming, turns
<1>4. \A chosen \in 0 .. end - 1 : Cardinality(Naming(chosen)) = Cardinality(Naming(0))
  BY <1>2, <1>3
<1> QED BY <1>4 DEF EvenDraws, Naming

-----------------------------------------------------------------------------
\* The estimate after an exchange.

TermCost(seq, t) ==
  Proxy(Holders(seq, LeftHalf, t), LeftSize) + Proxy(Holders(seq, RightHalf, t), RightSize)

LEMMA CostIs ==
  ASSUME IsFiniteSet(TermIds), NEW seq
  PROVE  Cost(seq) = SumFunction([t \in TermIds |-> TermCost(seq, t)])
<1> DEFINE f == [t \in TermIds |-> TermCost(seq, t)]
           Recursive(sum) ==
             sum = [T \in SUBSET TermIds |->
                      IF T = {} THEN 0 ELSE TermCost(seq, Picked(T)) + sum[T \ {Picked(T)}]]
           total == CHOOSE sum : Recursive(sum)
           sum == CHOOSE s : AddsUp(s, f, TermIds)
<1>1. Cost(seq) = total[TermIds]
  BY DEF Cost, TermCost, MapThenSumSet, MapThenFoldSet, Picked
<1>2. (\A T \in SUBSET TermIds : T /= {} => f[Picked(T)] = TermCost(seq, Picked(T))) /\ DOMAIN f = TermIds
  BY DEF Picked
<1> HIDE DEF f
<1>3. \A s : AddsUp(s, f, TermIds) => Recursive(s)
  BY <1>2 DEF AddsUp
<1>4. \A s : Recursive(s) => AddsUp(s, f, TermIds)
  BY <1>2 DEF AddsUp
<1>5. AddsUp(sum, f, TermIds)
  BY SumExists
<1>6. AddsUp(total, f, TermIds)
  BY <1>3, <1>4, <1>5
<1>7. SumFunction(f) = sum[TermIds]
  BY <1>2, SumIsRecursive
<1> HIDE DEF total, sum
<1>8. total[TermIds] = sum[TermIds]
  BY <1>5, <1>6, OnlyOneSum
<1> QED BY <1>1, <1>7, <1>8 DEF f

\* A term of one of the two documents alone costs its gain less, any other as much.
LEMMA TermPays ==
  ASSUME InputsFit, BisectionInv, ExchangePair, NEW t \in TermIds
  PROVE  LET a == t \in termsOf[LeftDoc] \ termsOf[RightDoc]
             b == t \in termsOf[RightDoc] \ termsOf[LeftDoc]
         IN  /\ TermCost(order', t) \in Int
             /\ a => GainLeft(t) \in Int /\ TermCost(order, t) = TermCost(order', t) + GainLeft(t)
             /\ b => GainRight(t) \in Int /\ TermCost(order, t) = TermCost(order', t) + GainRight(t)
             /\ ~ a /\ ~ b => TermCost(order, t) = TermCost(order', t)
<1> DEFINE a == IF t \in termsOf[LeftDoc] THEN 1 ELSE 0
           b == IF t \in termsOf[RightDoc] THEN 1 ELSE 0
           P(d) == Proxy(d, LeftSize)
           Q(d) == Proxy(d, RightSize)
<1>1. /\ Holders(order, LeftHalf, t) = left[t] /\ Holders(order, RightHalf, t) = right[t]
      /\ left[t] \in 0 .. LeftSize /\ right[t] \in 0 .. RightSize
      /\ a = 1 => left[t] >= 1
      /\ b = 1 => right[t] >= 1
      /\ Holders(order', LeftHalf, t) = left[t] - a + b
      /\ Holders(order', RightHalf, t) = right[t] - b + a
  BY ExchangeMoves
<1>2. LeftSize \in 1 .. MaxId /\ RightSize \in 1 .. MaxId /\ MaxId \in Nat
  <2>1. Count \in Nat /\ MaxId \in Nat /\ Count <= MaxId
    BY IdsAreFinite
  <2>2. ranges /= <<>> /\ Size >= 2
    BY ExchangeIs
  <2>3. /\ First \in 1 .. Count /\ Middle \in 1 .. Count /\ Last \in 1 .. Count
        /\ First < Middle /\ Middle <= Last
        /\ LeftSize = (Middle - 1) - First + 1 /\ RightSize = Last - Middle + 1
    BY <2>2, HalvesAre
  <2> QED BY <2>1, <2>3
<1>3. /\ \A d \in 0 .. LeftSize + 1 : P(d) \in Int
      /\ \A d \in 0 .. RightSize + 1 : Q(d) \in Int
  <2>1. /\ \A d \in 0 .. LeftSize + 1 : d \in 0 .. MaxId + 1 /\ d <= LeftSize + 1
        /\ \A d \in 0 .. RightSize + 1 : d \in 0 .. MaxId + 1 /\ d <= RightSize + 1
    BY <1>2
  <2> QED BY <1>2, <2>1, ProxyAssumption
<1>4. /\ TermCost(order, t) = P(left[t]) + Q(right[t])
      /\ TermCost(order', t) = P(left[t] - a + b) + Q(right[t] - b + a)
  BY <1>1 DEF TermCost
<1>5. /\ GainLeft(t) = P(left[t]) + Q(right[t]) - P(left[t] - 1) - Q(right[t] + 1)
      /\ GainRight(t) = Q(right[t]) + P(left[t]) - Q(right[t] - 1) - P(left[t] + 1)
  BY DEF GainLeft, GainRight, MoveGain
<1> HIDE DEF P, Q
<1>6. left[t] \in Int /\ right[t] \in Int /\ P(left[t]) \in Int /\ Q(right[t]) \in Int
  BY <1>1, <1>2, <1>3
<1>7. CASE t \in termsOf[LeftDoc] \ termsOf[RightDoc]
  <2>1. a = 1 /\ b = 0
    BY <1>7
  <2>2. left[t] - a + b = left[t] - 1 /\ right[t] - b + a = right[t] + 1
    BY <1>6, <2>1
  <2>3. left[t] - 1 \in 0 .. LeftSize + 1 /\ right[t] + 1 \in 0 .. RightSize + 1
    BY <1>1, <1>2, <2>1
  <2>4. P(left[t] - 1) \in Int /\ Q(right[t] + 1) \in Int
    BY <1>3, <2>3
  <2> QED BY <1>4, <1>5, <1>6, <1>7, <2>2, <2>4
<1>8. CASE t \in termsOf[RightDoc] \ termsOf[LeftDoc]
  <2>1. a = 0 /\ b = 1
    BY <1>8
  <2>2. left[t] - a + b = left[t] + 1 /\ right[t] - b + a = right[t] - 1
    BY <1>6, <2>1
  <2>3. left[t] + 1 \in 0 .. LeftSize + 1 /\ right[t] - 1 \in 0 .. RightSize + 1
    BY <1>1, <1>2, <2>1
  <2>4. P(left[t] + 1) \in Int /\ Q(right[t] - 1) \in Int
    BY <1>3, <2>3
  <2> QED BY <1>4, <1>5, <1>6, <1>8, <2>2, <2>4
<1>9. CASE ~ (t \in termsOf[LeftDoc] \ termsOf[RightDoc]) /\ ~ (t \in termsOf[RightDoc] \ termsOf[LeftDoc])
  <2>1. a = b /\ a \in Int
    BY <1>9
  <2> HIDE DEF a, b
  <2>2. left[t] - a + b = left[t] /\ right[t] - b + a = right[t]
    BY <1>6, <2>1
  <2> QED BY <1>4, <1>6, <1>9, <2>2
<1> QED BY <1>7, <1>8, <1>9

LEMMA ExchangePays ==
  ASSUME InputsFit, BisectionInv, ExchangePair
  PROVE  Cost(order') < Cost(order)
<1> DEFINE A == termsOf[LeftDoc] \ termsOf[RightDoc]
           B == termsOf[RightDoc] \ termsOf[LeftDoc]
           before == [t \in TermIds |-> TermCost(order, t)]
           after == [t \in TermIds |-> TermCost(order', t)]
           gainA == [t \in TermIds |-> IF t \in A THEN GainLeft(t) ELSE 0]
           gainB == [t \in TermIds |-> IF t \in B THEN GainRight(t) ELSE 0]
           gain == [t \in TermIds |-> gainA[t] + gainB[t]]
           partA == [t \in A |-> GainLeft(t)]
           partB == [t \in B |-> GainRight(t)]
<1>1. IsFiniteSet(TermIds)
  BY WidthsAssumption
<1>2. A \in SUBSET TermIds /\ B \in SUBSET TermIds /\ A \intersect B = {}
  <2>1. LeftDoc \in Ids /\ RightDoc \in Ids
    <3>1. /\ First + pair \in 1 .. Count /\ First + LeftSize + pair \in 1 .. Count
      BY ExchangeIs
    <3> QED BY <3>1 DEF LeftDoc, RightDoc, BisectionInv, Arranges
  <2> QED BY <2>1 DEF InputsFit
<1>3. IsFiniteSet(A) /\ IsFiniteSet(B)
  BY <1>1, <1>2, FS_Subset
<1>4. PairGain(LeftDoc, RightDoc) > 0
  BY DEF ExchangePair
<1>5. PairGain(LeftDoc, RightDoc) = SumFunction(partA) + SumFunction(partB)
  BY <1>3, LeftGains, RightGains DEF PairGain
<1>6. ASSUME NEW t \in TermIds
      PROVE  /\ TermCost(order', t) \in Int
             /\ t \in A => GainLeft(t) \in Int /\ TermCost(order, t) = TermCost(order', t) + GainLeft(t)
             /\ t \in B => GainRight(t) \in Int /\ TermCost(order, t) = TermCost(order', t) + GainRight(t)
             /\ t \notin A /\ t \notin B => TermCost(order, t) = TermCost(order', t)
  BY TermPays
<1>7. /\ Cost(order) = SumFunction(before) /\ Cost(order') = SumFunction(after)
  BY <1>1, CostIs
<1> HIDE DEF A, B
<1>8. ASSUME NEW t \in TermIds
      PROVE  /\ after[t] \in Int /\ gainA[t] \in Int /\ gainB[t] \in Int
             /\ before[t] = after[t] + gain[t]
  <2>1. CASE t \in A
    <3>1. t \notin B
      BY <1>2, <2>1
    <3> QED BY <1>6, <2>1, <3>1
  <2>2. CASE t \in B
    <3>1. t \notin A
      BY <1>2, <2>2
    <3> QED BY <1>6, <2>2, <3>1
  <2>3. CASE t \notin A /\ t \notin B
    BY <1>6, <2>3
  <2> QED BY <2>1, <2>2, <2>3
<1>9. /\ DOMAIN before = TermIds /\ DOMAIN after = TermIds /\ DOMAIN gain = TermIds
      /\ DOMAIN gainA = TermIds /\ DOMAIN gainB = TermIds /\ DOMAIN partA = A /\ DOMAIN partB = B
      /\ \A t \in TermIds : gain[t] = gainA[t] + gainB[t]
      /\ \A t \in A : gainA[t] = partA[t]
      /\ \A t \in TermIds \ A : gainA[t] = 0
      /\ \A t \in B : gainB[t] = partB[t]
      /\ \A t \in TermIds \ B : gainB[t] = 0
  BY <1>2
<1> HIDE DEF before, after, gain, gainA, gainB, partA, partB
<1>10. \A t \in TermIds : gain[t] \in Int
  BY <1>8, <1>9
<1>11. SumFunction(before) = SumFunction(after) + SumFunction(gain)
  BY <1>1, <1>8, <1>9, <1>10, SumOfSums
<1>12. SumFunction(gain) = SumFunction(gainA) + SumFunction(gainB)
  BY <1>1, <1>8, <1>9, SumOfSums
<1>13. SumFunction(gainA) = SumFunction(partA)
  <2>1. A \in SUBSET TermIds /\ DOMAIN gainA = TermIds /\ DOMAIN partA = A
    BY <1>2, <1>9
  <2>2. \A t \in TermIds : gainA[t] \in Int
    BY <1>8
  <2>3. (\A t \in A : gainA[t] = partA[t]) /\ \A t \in TermIds \ A : gainA[t] = 0
    BY <1>9
  <2> QED BY <1>1, <2>1, <2>2, <2>3, SumOfPart
<1>14. SumFunction(gainB) = SumFunction(partB)
  <2>1. B \in SUBSET TermIds /\ DOMAIN gainB = TermIds /\ DOMAIN partB = B
    BY <1>2, <1>9
  <2>2. \A t \in TermIds : gainB[t] \in Int
    BY <1>8
  <2>3. (\A t \in B : gainB[t] = partB[t]) /\ \A t \in TermIds \ B : gainB[t] = 0
    BY <1>9
  <2> QED BY <1>1, <2>1, <2>2, <2>3, SumOfPart
<1>15. SumFunction(after) \in Int /\ SumFunction(gain) \in Int
  BY <1>1, <1>8, <1>9, <1>10, SumIsInteger
<1> QED BY <1>4, <1>5, <1>7, <1>11, <1>12, <1>13, <1>14, <1>15

-----------------------------------------------------------------------------
\* The four methods.

\* What the rows read say of the slots, and the slots of the rows.
SlotsHold ==
  /\ slots \in [Ids -> 0 .. MaxId]
  /\ line \in 0 .. Len(rows)
  /\ \A i \in 1 .. line :
       /\ rows[i] /= BadRow /\ rows[i][1] \in Ids
       /\ rows[i][2] = MaxId \/ slots[rows[i][1]] = rows[i][2]
  /\ \A d \in Ids : slots[d] /= MaxId =>
       \E i \in 1 .. line : rows[i][1] = d /\ rows[i][2] = slots[d]

FeaturesHold ==
  /\ line \in {0, 1}
  /\ line = 1 =>
       /\ Len(features) = Count
       /\ \A i, j \in 1 .. Count : i < j => Precedes(order[i], order[j])

MethodInv ==
  /\ method \in {"bp", "random", "feature", "mapping"}
  /\ outcome \in {"ordering", "built", "refused"}
  /\ line \in Nat
  /\ method /= "bp" => step = "descend"
  /\ method = "feature" => FeaturesHold
  /\ method = "mapping" => SlotsHold

IInv == InputsFit /\ BisectionInv /\ MethodInv /\ MapIsExact

LEMMA ReorderStarts ==
  ASSUME ReorderInit
  PROVE  IInv
<1>1. PICK input \in Inputs(method) :
        /\ termsOf = input.termsOf /\ depth = input.depth /\ iterations = input.iterations
        /\ features = input.features /\ rows = input.rows
  BY DEF ReorderInit
<1>2. /\ method \in {"bp", "random", "feature", "mapping"} /\ Begin /\ line = 0
      /\ slots = [d \in Ids |-> MaxId] /\ outcome = "ordering"
  BY DEF ReorderInit
<1>3. /\ \E n \in 0 .. MaxId : input.termsOf \in [0 .. n - 1 -> SUBSET TermIds]
      /\ input.depth \in Nat
      /\ input.features \in Seq(Int)
      /\ input.rows \in Seq({BadRow} \union (Nat \X (0 .. MaxId)))
  BY <1>2, InputsAssumption
<1>4. PICK n \in 0 .. MaxId : termsOf \in [0 .. n - 1 -> SUBSET TermIds]
  BY <1>1, <1>3
<1>5. Count = n /\ DOMAIN termsOf = Ids
  <2>1. n \in Nat
    BY WidthsAssumption
  <2>2. Cardinality(0 .. n - 1) = n
    BY <2>1, FS_Interval
  <2>3. DOMAIN termsOf = 0 .. n - 1
    BY <1>4
  <2> QED BY <2>2, <2>3 DEF Count, Ids
<1>6. InputsFit
  <2>1. features \in Seq(Int) /\ rows \in Seq({BadRow} \union (Nat \X (0 .. MaxId)))
    BY <1>1, <1>3
  <2>2. \A d \in Ids : termsOf[d] \in SUBSET TermIds
    BY <1>4, <1>5
  <2> QED BY <1>4, <1>5, <2>1, <2>2 DEF InputsFit
<1>7. BisectionInv
  BY <1>1, <1>2, <1>3, <1>6, BeginInv
<1>8. SlotsHold
  <2>1. MaxId \in 0 .. MaxId /\ Len(rows) \in Nat
    BY <1>6, WidthsAssumption, LenProperties DEF InputsFit
  <2>2. 0 \in 0 .. Len(rows) /\ 1 .. 0 = {}
    BY <2>1
  <2> QED BY <1>2, <2>1, <2>2 DEF SlotsHold
<1>9. step = "descend"
  BY <1>2 DEF Begin
<1>10. FeaturesHold
  BY <1>2 DEF FeaturesHold
<1>11. MapIsExact
  <2>1. line + 1 < Count => DrawsAreEven
    <3>1. line + 1 < Count => Count - line \in 1 .. MaxId
      BY <1>2, <1>6, IdsAreFinite
    <3> QED BY <3>1, DrawsEven DEF EvenDraws, DrawsAreEven
  <2> QED BY <1>2, <2>1 DEF MapIsExact
<1> QED BY <1>2, <1>6, <1>7, <1>8, <1>9, <1>10, <1>11 DEF IInv, MethodInv

\* The inputs stay as they are.
LEMMA InputsStay ==
  ASSUME InputsFit, UNCHANGED <<termsOf, features, rows>>
  PROVE  InputsFit' /\ Count' = Count /\ Ids' = Ids
BY DEF InputsFit, Count, Ids

LEMMA BisectStepKeeps ==
  ASSUME IInv, BisectStep
  PROVE  IInv'
<1>1. /\ InputsFit /\ BisectionInv /\ MethodInv
      /\ outcome = "ordering" /\ method = "bp" /\ Bisect
      /\ UNCHANGED <<method, features, rows, line, slots, outcome>>
  BY DEF IInv, BisectStep
<1>2. BisectionInv' /\ UNCHANGED collection
  BY <1>1, BisectKeeps
<1>3. InputsFit' /\ Count' = Count /\ Ids' = Ids
  BY <1>1, <1>2, InputsStay DEF collection
<1>4. MethodInv'
  BY <1>1 DEF MethodInv
<1>5. MapIsExact'
  BY <1>1 DEF MapIsExact
<1> QED BY <1>2, <1>3, <1>4, <1>5 DEF IInv

\* While no range is treated the table has nothing, whatever happens to the order.
LEMMA NewOrder ==
  ASSUME InputsFit, BisectionInv, step = "descend",
         UNCHANGED <<collection, ranges, step, pass, pair, changed, scratch>>,
         Arranges(order', Count, Ids)
  PROVE  BisectionInv'
<1>1. Count' = Count /\ Ids' = Ids /\ Ranges' = Ranges
  BY DEF collection, Count, Ids, Ranges
<1>2. UNCHANGED <<ranges, step, pair, left, right, touched>>
  BY DEF scratch
<1>3. DegreesExact'
  BY <1>2 DEF BisectionInv, DegreesExact
<1> QED BY <1>1, <1>2, <1>3 DEF BisectionInv

LEMMA ShuffleKeeps ==
  ASSUME IInv, Shuffle
  PROVE  IInv'
<1>1. /\ InputsFit /\ BisectionInv /\ MethodInv
      /\ outcome = "ordering" /\ method = "random" /\ line + 1 < Count /\ line' = line + 1
      /\ UNCHANGED <<collection, ranges, step, pass, pair, changed, scratch>>
      /\ UNCHANGED <<method, features, rows, slots, outcome>>
  BY DEF IInv, Shuffle
<1> DEFINE end == Count - line
<1>2. PICK draw \in Accepted(end) :
        order' = [order EXCEPT ![end] = order[(draw % end) + 1], ![(draw % end) + 1] = order[end]]
  BY DEF Shuffle
<1>3. InputsFit' /\ Count' = Count /\ Ids' = Ids
  BY <1>1, InputsStay DEF collection
<1>4. line \in Nat /\ step = "descend" /\ Arranges(order, Count, Ids)
  BY <1>1 DEF MethodInv, BisectionInv
<1>5. Count \in Nat /\ end \in 1 .. Count
  BY <1>1, <1>4, IdsAreFinite
<1>6. (draw % end) + 1 \in 1 .. Count
  <2>1. draw \in Nat
    <3>1. 2 ^ DrawBits - end \in Nat
      BY <1>1, <1>5, IdsAreFinite, WidthsAssumption
    <3>2. (2 ^ DrawBits - end) % end \in Nat
      <4> DEFINE x == 2 ^ DrawBits - end
      <4>1. x \in Nat /\ end \in Nat \ {0}
        BY <1>5, <3>1
      <4> HIDE DEF x, end
      <4> QED BY <4>1, Division DEF x
    <3> HIDE DEF end
    <3> QED BY <3>2 DEF Accepted
  <2>2. draw % end \in 0 .. end - 1
    BY <1>5, <2>1, Division
  <2> HIDE DEF end
  <2> QED BY <1>5, <2>2
<1>7. Arranges(order', Count, Ids)
  <2> HIDE DEF end
  <2> QED BY <1>2, <1>4, <1>5, <1>6, Exchanged
<1>8. BisectionInv'
  BY <1>1, <1>4, <1>7, NewOrder
<1>9. MethodInv'
  BY <1>1, <1>4 DEF MethodInv
<1>10. MapIsExact'
  <2>1. line' + 1 < Count' => DrawsAreEven'
    <3>1. line' + 1 < Count => Count - line' \in 1 .. MaxId
      BY <1>1, <1>4, <1>5, IdsAreFinite
    <3> QED BY <1>3, <3>1, DrawsEven DEF EvenDraws, DrawsAreEven
  <2> QED BY <1>1, <2>1 DEF MapIsExact
<1> QED BY <1>3, <1>8, <1>9, <1>10 DEF IInv

LEMMA SortKeeps ==
  ASSUME IInv, SortByFeature
  PROVE  IInv'
<1>1. /\ InputsFit /\ BisectionInv /\ MethodInv
      /\ outcome = "ordering" /\ method = "feature" /\ line = 0
      /\ UNCHANGED <<collection, ranges, step, pass, pair, changed, scratch>>
      /\ UNCHANGED <<method, features, rows, slots>>
  BY DEF IInv, SortByFeature
<1>2. InputsFit' /\ Count' = Count /\ Ids' = Ids
  BY <1>1, InputsStay DEF collection
<1>3. step = "descend" /\ Arranges(order, Count, Ids)
  BY <1>1 DEF MethodInv, BisectionInv
<1>4. CASE Len(features) /= Count
  <2>1. outcome' = "refused" /\ order' = order /\ line' = line
    BY <1>4 DEF SortByFeature
  <2>2. BisectionInv'
    BY <1>1, <1>3, <2>1, NewOrder
  <2>3. MethodInv'
    BY <1>1, <2>1 DEF MethodInv, FeaturesHold
  <2>4. MapIsExact'
    BY <1>1, <1>2, <1>4, <2>1 DEF MapIsExact
  <2> QED BY <1>2, <2>2, <2>3, <2>4 DEF IInv
<1>5. CASE Len(features) = Count
  <2>1. outcome' = "ordering" /\ order' = Sorted(Ids, Precedes) /\ line' = 1
    BY <1>1, <1>5 DEF SortByFeature
  <2>2. /\ Arranges(order', Count, Ids)
        /\ \A i, j \in 1 .. Count : i < j => Precedes(order'[i], order'[j])
    BY <1>1, <1>5, <2>1, SortedByFeatures
  <2>3. BisectionInv'
    BY <1>1, <1>3, <2>2, NewOrder
  <2>4. FeaturesHold'
    <3>1. \A i, j \in 1 .. Count' : i < j => Precedes(order[i], order[j])'
      BY <1>1, <1>2, <2>2 DEF Precedes
    <3> QED BY <1>1, <1>2, <1>5, <2>1, <3>1 DEF FeaturesHold
  <2>5. MethodInv'
    BY <1>1, <2>1, <2>4 DEF MethodInv
  <2>6. MapIsExact'
    BY <1>1, <2>1 DEF MapIsExact
  <2> QED BY <1>2, <2>3, <2>5, <2>6 DEF IInv
<1> QED BY <1>4, <1>5

\* The documents of the file, each once.
OnceInFile == \A i, j \in 1 .. Len(rows) : rows[i][1] = rows[j][1] => i = j

LEMMA EachOnce ==
  ASSUME InputsFit, Len(rows) = Count, {rows[i][1] : i \in DOMAIN rows} = Ids
  PROVE  OnceInFile
<1> DEFINE N == 1 .. Count
           old == [i \in N |-> rows[i][1]]
<1>1. DOMAIN rows = N /\ N = 1 .. Len(rows)
  BY LenProperties DEF InputsFit
<1>2. \A i \in N : old[i] = rows[i][1]
  OBVIOUS
<1>3. /\ IsFiniteSet(N) /\ IsFiniteSet(Ids) /\ Cardinality(N) = Cardinality(Ids)
  BY IdsAreFinite
<1> HIDE DEF N, old
<1>4. /\ \A i \in N : old[i] \in Ids
      /\ \A d \in Ids : \E i \in N : old[i] = d
  BY <1>1, <1>2
<1>5. OneToOne(old, N)
  <2> DEFINE I == Ids
  <2>1. /\ IsFiniteSet(N) /\ IsFiniteSet(I) /\ Cardinality(N) = Cardinality(I)
        /\ \A i \in N : old[i] \in I
        /\ \A d \in I : \E i \in N : old[i] = d
    BY <1>3, <1>4
  <2> HIDE DEF I
  <2> QED BY <2>1, OnceIsEach
<1> QED BY <1>1, <1>2, <1>5 DEF OneToOne, OnceInFile

\* A file that renumbers has no row for a document that a row before it has filled.
LEMMA RefusedRow ==
  ASSUME InputsFit, SlotsHold, line < Len(rows), ~ RowFits(rows[line + 1])
  PROVE  ~ Renumbers
<1> DEFINE new == rows[line + 1]
<1>1. Len(rows) \in Nat /\ DOMAIN rows = 1 .. Len(rows)
  BY LenProperties DEF InputsFit
<1>2. line \in Nat /\ line + 1 \in 1 .. Len(rows)
  BY <1>1 DEF SlotsHold
<1>3. SUFFICES ASSUME Renumbers PROVE FALSE
  OBVIOUS
<1>4. new /= BadRow /\ new[1] \in Ids
  BY <1>1, <1>2, <1>3 DEF Renumbers
<1>5. slots[new[1]] /= MaxId
  BY <1>4 DEF RowFits
<1>6. PICK k \in 1 .. line : rows[k][1] = new[1]
  BY <1>4, <1>5 DEF SlotsHold
<1>7. k \in 1 .. Len(rows) /\ k /= line + 1
  BY <1>1, <1>2
<1> HIDE DEF new
<1>8. OnceInFile
  <2>1. Len(rows) = Count /\ {rows[i][1] : i \in DOMAIN rows} = Ids
    BY <1>3 DEF Renumbers
  <2> QED BY <2>1, EachOnce
<1> QED BY <1>2, <1>6, <1>7, <1>8 DEF OnceInFile, new

LEMMA ReadRowKeeps ==
  ASSUME IInv, ReadRow
  PROVE  IInv'
<1> DEFINE new == rows[line + 1]
<1>1. /\ InputsFit /\ BisectionInv /\ MethodInv /\ SlotsHold
      /\ outcome = "ordering" /\ method = "mapping" /\ line < Len(rows)
      /\ UNCHANGED <<bisection, method, features, rows>>
  BY DEF IInv, ReadRow, MethodInv
<1>2. InputsFit' /\ Count' = Count /\ Ids' = Ids
  BY <1>1, InputsStay DEF collection, bisection
<1>3. BisectionInv'
  <2>1. /\ UNCHANGED <<collection, ranges, step, pass, pair, changed, scratch>>
        /\ order' = order /\ step = "descend"
    BY <1>1 DEF bisection, MethodInv
  <2>2. Arranges(order', Count, Ids)
    BY <1>1, <2>1 DEF BisectionInv
  <2> QED BY <1>1, <2>1, <2>2, NewOrder
<1>4. CASE RowFits(new)
  <2>1. slots' = [slots EXCEPT ![new[1]] = new[2]] /\ line' = line + 1 /\ outcome' = outcome
    BY <1>4 DEF ReadRow
  <2>2. new /= BadRow /\ new[1] \in Ids /\ slots[new[1]] = MaxId
    BY <1>4 DEF RowFits
  <2>3. Len(rows) \in Nat /\ line \in Nat /\ line + 1 \in 1 .. Len(rows)
    BY <1>1, LenProperties DEF InputsFit, SlotsHold
  <2>4. new[2] \in 0 .. MaxId
    <3>1. new \in {BadRow} \union (Nat \X (0 .. MaxId))
      BY <1>1, <2>3, ElementOfSeq DEF InputsFit
    <3> HIDE DEF new
    <3> QED BY <2>2, <3>1
  <2> DEFINE d == new[1]
             v == new[2]
  <2>5. rows[line + 1][1] = d /\ rows[line + 1][2] = v /\ rows[line + 1] /= BadRow
    BY <2>2
  <2>6. /\ slots \in [Ids -> 0 .. MaxId] /\ d \in Ids /\ v \in 0 .. MaxId /\ slots[d] = MaxId
        /\ slots' = [slots EXCEPT ![d] = v]
    BY <1>1, <2>1, <2>2, <2>4 DEF SlotsHold
  <2> HIDE DEF new, d, v
  <2>7. slots' \in [Ids -> 0 .. MaxId] /\ slots'[d] = v /\ \A e \in Ids \ {d} : slots'[e] = slots[e]
    BY <2>6
  <2>8. ASSUME NEW i \in 1 .. line'
        PROVE  /\ rows[i] /= BadRow /\ rows[i][1] \in Ids
               /\ rows[i][2] = MaxId \/ slots'[rows[i][1]] = rows[i][2]
    <3>1. CASE i = line + 1
      BY <2>5, <2>6, <2>7, <3>1
    <3>2. CASE i \in 1 .. line
      <4>1. /\ rows[i] /= BadRow /\ rows[i][1] \in Ids
            /\ rows[i][2] = MaxId \/ slots[rows[i][1]] = rows[i][2]
        BY <1>1, <3>2 DEF SlotsHold
      <4> QED BY <2>6, <2>7, <4>1
    <3> QED BY <2>1, <2>3, <3>1, <3>2
  <2>9. ASSUME NEW e \in Ids, slots'[e] /= MaxId
        PROVE  \E i \in 1 .. line' : rows[i][1] = e /\ rows[i][2] = slots'[e]
    <3>1. line + 1 \in 1 .. line' /\ 1 .. line \subseteq 1 .. line'
      BY <2>1, <2>3
    <3>2. CASE e = d
      BY <2>5, <2>7, <3>1, <3>2
    <3>3. CASE e /= d
      <4>1. slots[e] /= MaxId /\ slots'[e] = slots[e]
        BY <2>7, <2>9, <3>3
      <4>2. PICK i \in 1 .. line : rows[i][1] = e /\ rows[i][2] = slots[e]
        BY <1>1, <4>1 DEF SlotsHold
      <4> QED BY <3>1, <4>1, <4>2
    <3> QED BY <3>2, <3>3
  <2>10. line' \in 0 .. Len(rows) /\ line' \in Nat
    BY <2>1, <2>3
  <2>11. SlotsHold'
    BY <1>1, <1>2, <2>7, <2>8, <2>9, <2>10 DEF SlotsHold
  <2>12. MethodInv'
    BY <1>1, <2>1, <2>10, <2>11 DEF MethodInv, bisection
  <2>13. MapIsExact'
    BY <1>1, <2>1 DEF MapIsExact
  <2> QED BY <1>2, <1>3, <2>12, <2>13 DEF IInv
<1>5. CASE ~ RowFits(new)
  <2>1. outcome' = "refused" /\ slots' = slots /\ line' = line
    BY <1>5 DEF ReadRow
  <2>2. ~ Renumbers
    BY <1>1, <1>5, RefusedRow
  <2>3. ~ Renumbers'
    BY <1>1, <1>2, <2>2 DEF Renumbers
  <2>4. MethodInv'
    BY <1>1, <1>2, <2>1 DEF MethodInv, SlotsHold, bisection
  <2>5. MapIsExact'
    BY <1>1, <2>1, <2>3 DEF MapIsExact
  <2> QED BY <1>2, <1>3, <2>4, <2>5 DEF IInv
<1> QED BY <1>4, <1>5

LEMMA BuildFromOrderKeeps ==
  ASSUME IInv, BuildFromOrder
  PROVE  IInv'
<1> DEFINE map == [i \in Ids |-> order[i + 1]]
<1>1. /\ InputsFit /\ BisectionInv /\ MethodInv
      /\ outcome = "ordering" /\ method \in {"bp", "random", "feature"} /\ step = "descend"
      /\ method = "feature" => line = 1
      /\ UNCHANGED <<bisection, method, features, rows, line, slots>>
  <2>1. \/ method = "bp" /\ step = "descend"
        \/ method = "random" /\ step = "descend"
        \/ method = "feature" /\ step = "descend" /\ line = 1
    BY DEF IInv, BuildFromOrder, MethodInv
  <2> QED BY <2>1 DEF IInv, BuildFromOrder
<1>2. InputsFit' /\ Count' = Count /\ Ids' = Ids
  BY <1>1, InputsStay DEF collection, bisection
<1>3. Arranges(order, Count, Ids) /\ order' = order /\ features' = features
  BY <1>1 DEF BisectionInv, bisection
<1>4. BisectionInv'
  BY <1>1, <1>3, NewOrder DEF bisection
<1>5. Invertible(map)
  BY <1>1, <1>3, OrderIsInvertible
<1>6. newToOld' = map /\ oldToNew' = InverseOf(map) /\ outcome' = "built"
  BY <1>5 DEF BuildFromOrder
<1>7. Inverses(newToOld', oldToNew')
  BY <1>1, <1>5, <1>6, InverseIs
<1>8. MethodInv'
  <2>1. FeaturesHold => FeaturesHold'
    <3>1. \A i, j \in 1 .. Count : Precedes(order[i], order[j])' <=> Precedes(order[i], order[j])
      BY <1>3 DEF Precedes
    <3> QED BY <1>1, <1>2, <1>3, <3>1 DEF FeaturesHold
  <2> QED BY <1>1, <1>6, <2>1 DEF MethodInv, bisection
<1>9. method = "feature" =>
        \A i, j \in Ids : i < j => Precedes(newToOld'[i], newToOld'[j])
  <2>1. \A i \in Ids : i \in Int /\ i + 1 \in 1 .. Count /\ newToOld'[i] = order[i + 1]
    <3>1. \A i \in Ids : i \in Int /\ i + 1 \in 1 .. Count
      BY <1>1, IdsAreFinite DEF Ids
    <3> QED BY <1>6, <3>1
  <2>2. method = "feature" =>
          \A i, j \in 1 .. Count : i < j => Precedes(order[i], order[j])
    BY <1>1 DEF MethodInv, FeaturesHold
  <2>3. ASSUME NEW i \in Ids, NEW j \in Ids, i < j
        PROVE  i + 1 < j + 1
    BY <2>1, <2>3
  <2> QED BY <2>1, <2>2, <2>3
<1>10. MapIsExact'
  <2>1. \A d \in Ids : oldToNew'[d] \in Ids /\ newToOld'[d] \in Ids
    BY <1>7 DEF Inverses
  <2>2. \A d \in Ids : newToOld'[oldToNew'[d]] = d /\ oldToNew'[newToOld'[d]] = d
    BY <1>7 DEF Inverses
  <2>3. method' /= "mapping" /\ outcome' = "built" /\ method' = method
    BY <1>1, <1>6
  <2>4. method' = "feature" =>
          \A i, j \in Ids : i < j => Precedes(newToOld[i], newToOld[j])'
    BY <1>3, <1>9, <2>3 DEF Precedes
  <2> QED BY <1>2, <2>1, <2>2, <2>3, <2>4 DEF MapIsExact
<1> QED BY <1>2, <1>4, <1>8, <1>10 DEF IInv

\* A file that has been read to its end renumbers if and only if its slots can be inverted.
LEMMA RefusedFile ==
  ASSUME InputsFit, SlotsHold, line = Len(rows), Renumbers
  PROVE  Invertible(slots)
<1>1. DOMAIN rows = 1 .. Len(rows) /\ MaxId \notin Ids
  BY LenProperties, IdsAreFinite DEF InputsFit, Ids
<1> DEFINE N == 1 .. Len(rows)
<1>2. \A i \in N : rows[i][1] \in Ids /\ rows[i][2] \in Ids
  BY <1>1 DEF Renumbers
<1>3. \A i \in N : slots[rows[i][1]] = rows[i][2]
  BY <1>1, <1>2 DEF SlotsHold
<1>4. \A d \in Ids : \E i \in N : rows[i][1] = d
  BY <1>1 DEF Renumbers
<1>5. \A d \in Ids : \E i \in N : rows[i][2] = d
  BY <1>1 DEF Renumbers
<1> HIDE DEF N
<1>6. /\ \A d \in Ids : slots[d] \in Ids
      /\ \A d \in Ids : \E e \in Ids : slots[e] = d
  BY <1>2, <1>3, <1>4, <1>5
<1>7. OneToOne(slots, Ids)
  <2> DEFINE I == Ids
  <2>1. IsFiniteSet(I) /\ \A i \in I : slots[i] \in I
    BY <1>6, IdsAreFinite
  <2>2. \A d \in I : \E i \in I : slots[i] = d
    BY <1>6
  <2> HIDE DEF I
  <2>3. OneToOne(slots, I)
    BY <2>1, <2>2, OnceIsEach
  <2> QED BY <2>3 DEF I
<1> QED BY <1>6, <1>7, InvertibleIs

LEMMA AcceptedFile ==
  ASSUME InputsFit, SlotsHold, line = Len(rows), Len(rows) = Count, Invertible(slots)
  PROVE  Renumbers /\ \A i \in DOMAIN rows : slots[rows[i][1]] = rows[i][2]
<1> DEFINE N == 1 .. Len(rows)
<1>1. DOMAIN rows = N /\ MaxId \notin Ids
  BY LenProperties, IdsAreFinite DEF InputsFit, Ids
<1>2. /\ \A i \in N : rows[i] /= BadRow /\ rows[i][1] \in Ids
      /\ \A i \in N : rows[i][2] = MaxId \/ slots[rows[i][1]] = rows[i][2]
  BY DEF SlotsHold
<1>3. /\ \A d \in Ids : slots[d] \in Ids
      /\ \A i \in Ids : \E j \in Ids : slots[j] = i
  BY InverseIs, InvertibleIs
<1>4. \A d \in Ids : \E i \in N : rows[i][1] = d /\ rows[i][2] = slots[d]
  BY <1>1, <1>3 DEF SlotsHold
<1>5. {rows[i][1] : i \in DOMAIN rows} = Ids
  <2> HIDE DEF N
  <2> QED BY <1>1, <1>2, <1>4
<1>6. OnceInFile
  BY <1>5, EachOnce
<1>7. \A i \in N : slots[rows[i][1]] = rows[i][2]
  <2> TAKE i \in N
  <2>1. PICK j \in N : rows[j][1] = rows[i][1] /\ rows[j][2] = slots[rows[i][1]]
    BY <1>2, <1>4
  <2>2. i = j
    BY <1>6, <2>1 DEF OnceInFile
  <2> QED BY <2>1, <2>2
<1>8. {rows[i][2] : i \in DOMAIN rows} = Ids
  <2>1. \A i \in N : rows[i][2] \in Ids
    BY <1>2, <1>3, <1>7
  <2>2. \A d \in Ids : \E i \in N : rows[i][2] = d
    BY <1>3, <1>4
  <2> HIDE DEF N
  <2> QED BY <1>1, <2>1, <2>2
<1>9. BadRow \notin {rows[i] : i \in DOMAIN rows}
  <2> HIDE DEF N
  <2> QED BY <1>1, <1>2
<1> QED BY <1>1, <1>5, <1>7, <1>8, <1>9 DEF Renumbers

LEMMA BuildFromRowsKeeps ==
  ASSUME IInv, BuildFromRows
  PROVE  IInv'
<1>1. /\ InputsFit /\ BisectionInv /\ MethodInv /\ SlotsHold
      /\ outcome = "ordering" /\ method = "mapping" /\ line = Len(rows) /\ step = "descend"
      /\ UNCHANGED <<bisection, method, features, rows, line, slots>>
  BY DEF IInv, BuildFromRows, MethodInv
<1>2. InputsFit' /\ Count' = Count /\ Ids' = Ids
  BY <1>1, InputsStay DEF collection, bisection
<1>3. BisectionInv'
  <2>1. Arranges(order', Count, Ids)
    BY <1>1 DEF BisectionInv, bisection
  <2> QED BY <1>1, <2>1, NewOrder DEF bisection
<1>4. SlotsHold'
  BY <1>1, <1>2 DEF SlotsHold
<1>5. Renumbers' <=> Renumbers
  BY <1>1, <1>2 DEF Renumbers
<1>6. CASE Len(rows) = Count /\ Invertible(slots)
  <2>1. oldToNew' = slots /\ newToOld' = InverseOf(slots) /\ outcome' = "built"
    BY <1>6 DEF BuildFromRows
  <2>2. Inverses(newToOld', oldToNew')
    BY <1>1, <1>6, <2>1, InverseIs
  <2>3. Renumbers /\ \A i \in DOMAIN rows : slots[rows[i][1]] = rows[i][2]
    BY <1>1, <1>6, AcceptedFile
  <2>4. MethodInv'
    BY <1>1, <1>4, <2>1 DEF MethodInv, bisection
  <2>5. MapIsExact'
    <3>1. \A d \in Ids : oldToNew'[d] \in Ids /\ newToOld'[d] \in Ids
      BY <2>2 DEF Inverses
    <3>2. \A d \in Ids : newToOld'[oldToNew'[d]] = d /\ oldToNew'[newToOld'[d]] = d
      BY <2>2 DEF Inverses
    <3>3. \A i \in DOMAIN rows' : oldToNew'[rows'[i][1]] = rows'[i][2]
      BY <1>1, <2>1, <2>3
    <3> QED BY <1>1, <1>2, <1>5, <2>1, <2>3, <3>1, <3>2, <3>3 DEF MapIsExact
  <2> QED BY <1>2, <1>3, <2>4, <2>5 DEF IInv
<1>7. CASE ~ (Len(rows) = Count /\ Invertible(slots))
  <2>1. outcome' = "refused"
    BY <1>7 DEF BuildFromRows
  <2>2. ~ Renumbers
    <3>1. Renumbers => Len(rows) = Count
      BY DEF Renumbers
    <3>2. Renumbers => Invertible(slots)
      BY <1>1, RefusedFile
    <3> QED BY <1>7, <3>1, <3>2
  <2>3. MethodInv'
    BY <1>1, <1>4, <2>1 DEF MethodInv, bisection
  <2>4. MapIsExact'
    BY <1>1, <1>5, <2>1, <2>2 DEF MapIsExact
  <2> QED BY <1>2, <1>3, <2>3, <2>4 DEF IInv
<1> QED BY <1>6, <1>7

LEMMA ReorderStutters ==
  ASSUME IInv, UNCHANGED reorderVars
  PROVE  IInv'
<1>1. /\ UNCHANGED <<termsOf, depth, iterations, order, ranges, step, pass, pair, changed>>
      /\ UNCHANGED <<left, right, touched, method, features, rows, line, slots, outcome>>
      /\ UNCHANGED <<oldToNew, newToOld>>
  BY DEF reorderVars, bisection, collection, scratch, maps
<1>2. InputsFit' /\ Count' = Count /\ Ids' = Ids
  BY <1>1, InputsStay DEF IInv
<1>3. BisectionInv'
  <2>1. /\ First' = First /\ Last' = Last /\ Size' = Size /\ LeftSize' = LeftSize
        /\ LeftHalf' = LeftHalf /\ RightHalf' = RightHalf
    BY <1>1 DEF First, Last, Size, LeftSize, LeftHalf, RightHalf
  <2>2. Ranges' = Ranges
    BY <1>2 DEF Ranges
  <2>3. \A t \in TermIds : /\ Holders(order, LeftHalf, t)' = Holders(order, LeftHalf, t)
                           /\ Holders(order, RightHalf, t)' = Holders(order, RightHalf, t)
    BY <1>1, <2>1 DEF Holders
  <2>4. DegreesExact'
    BY <1>1, <2>3 DEF IInv, BisectionInv, DegreesExact
  <2> QED BY <1>1, <1>2, <2>1, <2>2, <2>4 DEF IInv, BisectionInv
<1>4. MethodInv'
  <2>1. FeaturesHold => FeaturesHold'
    <3>1. \A i, j \in 1 .. Count : Precedes(order[i], order[j])' <=> Precedes(order[i], order[j])
      BY <1>1 DEF Precedes
    <3> QED BY <1>1, <1>2, <3>1 DEF FeaturesHold
  <2>2. SlotsHold => SlotsHold'
    BY <1>1, <1>2 DEF SlotsHold
  <2> QED BY <1>1, <2>1, <2>2 DEF IInv, MethodInv
<1>5. MapIsExact'
  <2>1. Renumbers' <=> Renumbers
    BY <1>1, <1>2 DEF Renumbers
  <2>2. DrawsAreEven' <=> DrawsAreEven
    BY <1>1, <1>2 DEF DrawsAreEven
  <2>3. \A i, j \in Ids :
          Precedes(newToOld[i], newToOld[j])' <=> Precedes(newToOld[i], newToOld[j])
    BY <1>1 DEF Precedes
  <2> QED BY <1>1, <1>2, <2>1, <2>2, <2>3 DEF IInv, MapIsExact
<1> QED BY <1>2, <1>3, <1>4, <1>5 DEF IInv

-----------------------------------------------------------------------------
LEMMA ReorderInvariant == ReorderSpec => []IInv
<1>1. ReorderInit => IInv
  BY ReorderStarts
<1>2. IInv /\ [ReorderNext]_reorderVars => IInv'
  BY BisectStepKeeps, ShuffleKeeps, SortKeeps, ReadRowKeeps, BuildFromOrderKeeps,
     BuildFromRowsKeeps, ReorderStutters DEF ReorderNext
<1> QED BY <1>1, <1>2, PTL DEF ReorderSpec

\* The ranges of a bisection use one table of degrees in turn, and exchange documents
\* between sorting and clearing it: no range sees a degree that another has left.
THEOREM DegreesAreExact == ReorderSpec => []DegreesExact
<1>1. IInv => DegreesExact
  BY DEF IInv, BisectionInv
<1> QED BY <1>1, ReorderInvariant, PTL

\* Every order that is computed is accepted and gives two inverse maps, a file is accepted
\* if and only if it renumbers the documents, and a shuffle names what is left evenly.
THEOREM MapsAreExact == ReorderSpec => []MapIsExact
<1>1. IInv => MapIsExact
  BY DEF IInv
<1> QED BY <1>1, ReorderInvariant, PTL

\* An exchange that is accepted saves what the pair promised, though the halves were sorted
\* by gains that the exchanges of the pass before it have changed.
THEOREM ExchangesLower == ReorderSpec => ExchangesPay
<1> DEFINE Pays == step = "pairs" /\ order' /= order => Cost(order') < Cost(order)
<1>1. ASSUME IInv, Bisect PROVE Pays
  <2>1. CASE ExchangePair
    BY <1>1, <2>1, ExchangePays DEF IInv
  <2>2. CASE SkipRange \/ EnterRange \/ BeginPass \/ KeepPair \/ EndPass \/ LeaveRange
    BY <2>2 DEF SkipRange, EnterRange, BeginPass, KeepPair, EndPass, LeaveRange
  <2> HIDE DEF Pays
  <2> QED BY <1>1, <2>1, <2>2 DEF Bisect
<1>2. ASSUME IInv, ReorderNext PROVE Pays \/ UNCHANGED bisection
  <2>1. CASE BisectStep
    BY <1>1, <1>2, <2>1 DEF BisectStep
  <2>2. CASE Shuffle \/ SortByFeature
    <3>1. step = "descend"
      BY <1>2, <2>2 DEF IInv, MethodInv, Shuffle, SortByFeature
    <3> QED BY <3>1
  <2>3. CASE ReadRow \/ BuildFromOrder \/ BuildFromRows
    BY <2>3 DEF ReadRow, BuildFromOrder, BuildFromRows
  <2> HIDE DEF Pays
  <2> QED BY <1>2, <2>1, <2>2, <2>3 DEF ReorderNext
<1>3. UNCHANGED reorderVars => UNCHANGED bisection
  BY DEF reorderVars
<1>4. IInv /\ [ReorderNext]_reorderVars => [Pays]_bisection
  <2> HIDE DEF Pays
  <2> QED BY <1>2, <1>3
<1> QED BY <1>4, ReorderInvariant, PTL DEF ReorderSpec, ExchangesPay
=============================================================================
