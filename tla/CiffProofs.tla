----------------------------- MODULE CiffProofs -----------------------------
(***************************************************************************)
(* Proofs about CIFF files: every posting of an index that loads has its   *)
(* record, and what was written is read back, in whatever order its parts  *)
(* come.                                                                   *)
(***************************************************************************)
EXTENDS CiffStream, SetProofs, SequenceTheorems

-----------------------------------------------------------------------------
\* Sequences whose members have no type in common.

LEMMA SequenceIs ==
  ASSUME NEW s, IsSequence(s)
  PROVE  s \in Seq(ToSet(s)) /\ Len(s) \in Nat /\ DOMAIN s = 1 .. Len(s)
<1>1. Len(s) \in Nat /\ s = [i \in 1 .. Len(s) |-> s[i]]
  BY DEF IsSequence
<1>2. DOMAIN s = 1 .. Len(s)
  BY <1>1
<1>3. s \in [1 .. Len(s) -> ToSet(s)]
  BY <1>1, <1>2 DEF ToSet
<1> QED BY <1>1, <1>2, <1>3, FunctionIsSeq

LEMMA FunctionIsSequence ==
  ASSUME NEW n \in Nat, NEW f, f = [i \in 1 .. n |-> f[i]]
  PROVE  IsSequence(f) /\ Len(f) = n /\ DOMAIN f = 1 .. n
<1>1. DOMAIN f = 1 .. n
  OBVIOUS
<1>2. f \in [1 .. n -> ToSet(f)]
  BY <1>1 DEF ToSet
<1>3. Len(f) = n
  BY <1>2, FunctionIsSeq
<1> QED BY <1>1, <1>3 DEF IsSequence

LEMMA SeqIsSequence ==
  ASSUME NEW T, NEW s \in Seq(T)
  PROVE  IsSequence(s)
BY DEF IsSequence

Joins(s, t, joined) ==
  /\ IsSequence(joined)
  /\ Len(joined) = Len(s) + Len(t)
  /\ DOMAIN joined = 1 .. Len(s) + Len(t)
  /\ \A i \in DOMAIN s : joined[i] = s[i]
  /\ \A i \in DOMAIN t : joined[Len(s) + i] = t[i]

LEMMA JoinedSequences ==
  ASSUME NEW s, IsSequence(s), NEW t, IsSequence(t)
  PROVE  Joins(s, t, s \o t)
<1> DEFINE T == ToSet(s) \union ToSet(t)
<1>1. s \in Seq(ToSet(s)) /\ t \in Seq(ToSet(t))
  BY SequenceIs
<1>2. s \in Seq(T) /\ t \in Seq(T)
  BY <1>1
<1> HIDE DEF T
<1>3. s \o t \in Seq(T)
  BY <1>2
<1>4. IsSequence(s \o t)
  BY <1>3, SeqIsSequence
<1> QED BY <1>2, <1>3, <1>4 DEF Joins

LEMMA AppendedSequence ==
  ASSUME NEW s, IsSequence(s), NEW x
  PROVE  /\ IsSequence(Append(s, x))
         /\ Len(Append(s, x)) = Len(s) + 1
         /\ DOMAIN Append(s, x) = 1 .. Len(s) + 1
         /\ \A i \in DOMAIN s : Append(s, x)[i] = s[i]
         /\ Append(s, x)[Len(s) + 1] = x
<1> DEFINE T == ToSet(s) \union {x}
<1>1. s \in Seq(ToSet(s))
  BY SequenceIs
<1>2. s \in Seq(T) /\ x \in T
  BY <1>1
<1> HIDE DEF T
<1>3. Append(s, x) \in Seq(T)
  BY <1>2
<1>4. IsSequence(Append(s, x))
  BY <1>3, SeqIsSequence
<1> QED BY <1>2, <1>3, <1>4

\* Where a member of a swapped sequence comes from.
SwapOf(i, k) == IF k = i THEN i + 1 ELSE IF k = i + 1 THEN i ELSE k

LEMMA SwappedIs ==
  ASSUME NEW s, IsSequence(s), NEW i \in 1 .. Len(s) - 1
  PROVE  /\ IsSequence(Swapped(s, i))
         /\ Len(Swapped(s, i)) = Len(s)
         /\ DOMAIN Swapped(s, i) = 1 .. Len(s)
         /\ \A k \in 1 .. Len(s) : SwapOf(i, k) \in 1 .. Len(s) /\ Swapped(s, i)[k] = s[SwapOf(i, k)]
         /\ \A k \in 1 .. Len(s) : SwapOf(i, SwapOf(i, k)) = k
<1>1. Len(s) \in Nat /\ s = [k \in 1 .. Len(s) |-> s[k]] /\ DOMAIN s = 1 .. Len(s)
  BY SequenceIs DEF IsSequence
<1>2. i \in 1 .. Len(s) /\ i + 1 \in 1 .. Len(s) /\ i /= i + 1
  BY <1>1
<1> DEFINE n == Len(s)
           r == Swapped(s, i)
<1>3. r = [k \in 1 .. n |-> s[SwapOf(i, k)]]
  BY <1>1, <1>2 DEF Swapped, SwapOf
<1>4. \A k \in 1 .. n : SwapOf(i, k) \in 1 .. n /\ SwapOf(i, SwapOf(i, k)) = k
  BY <1>1, <1>2 DEF SwapOf
<1>5. r = [k \in 1 .. n |-> r[k]]
  BY <1>3
<1> HIDE DEF r
<1>6. IsSequence(r) /\ Len(r) = n /\ DOMAIN r = 1 .. n
  <2> HIDE DEF n
  <2>1. n \in Nat
    BY <1>1 DEF n
  <2> QED BY <1>5, <2>1, FunctionIsSequence
<1>7. \A k \in 1 .. n : r[k] = s[SwapOf(i, k)]
  BY <1>3
<1> QED BY <1>4, <1>6, <1>7 DEF r


-----------------------------------------------------------------------------
\* Numbers in order: there is one way.

Enumerates(f, n, S) ==
  /\ n \in Nat
  /\ f = [k \in 1 .. n |-> f[k]]
  /\ \A k \in 1 .. n : f[k] \in S
  /\ \A i, j \in 1 .. n : i < j => f[i] < f[j]
  /\ \A x \in S : \E k \in 1 .. n : f[k] = x

LEMMA InOrderIs ==
  ASSUME NEW S \in SUBSET Nat, IsFiniteSet(S)
  PROVE  Enumerates(InOrder(S), Cardinality(S), S)
<1> DEFINE R == {p \in S \X S : p[1] < p[2]}
           seq == InOrder(S)
           pick(i) == CHOOSE x \in S : Cardinality({y \in S : y < x}) = i - 1
<1>1. StrictOrder(R, S)
  BY DEF StrictOrder
<1>2. \A x \in S : {y \in S : <<y, x>> \in R} = {y \in S : y < x}
  OBVIOUS
<1>3. \A x \in S : Place(R, S, x) = Cardinality({y \in S : y < x})
  BY <1>2 DEF Place
<1>4. seq = [i \in 1 .. Cardinality(S) |-> pick(i)] /\ Cardinality(S) \in Nat
  BY FS_CardinalityType DEF InOrder
<1>5. \A a, b \in S : <<a, b>> \in R => a < b
  OBVIOUS
<1> HIDE DEF R, seq
<1>6. ASSUME NEW i \in 1 .. Cardinality(S) PROVE seq[i] \in S /\ Place(R, S, seq[i]) = i - 1
  <2>1. \E x \in S : Place(R, S, x) = i - 1
    BY <1>1, EveryPlaceTaken
  <2>2. \E x \in S : Cardinality({y \in S : y < x}) = i - 1
    BY <1>3, <2>1
  <2>3. pick(i) \in S /\ Cardinality({y \in S : y < pick(i)}) = i - 1
    BY <2>2
  <2>4. seq[i] = pick(i)
    BY <1>4
  <2> HIDE DEF pick
  <2> QED BY <1>3, <2>3, <2>4
<1> HIDE DEF pick
<1>7. PICK n : n = Cardinality(S)
  OBVIOUS
<1>8. \A i \in 1 .. n : seq[i] \in S /\ Place(R, S, seq[i]) = i - 1
  BY <1>6, <1>7
<1>9. /\ \A i, j \in 1 .. n : i < j => <<seq[i], seq[j]>> \in R
      /\ {seq[i] : i \in 1 .. n} = S
  BY <1>1, <1>7, <1>8, RankedIsSorted
<1>10. \A i, j \in 1 .. n : i < j => seq[i] < seq[j]
  BY <1>5, <1>8, <1>9
<1>11. \A x \in S : \E i \in 1 .. n : seq[i] = x
  BY <1>9
<1>12. seq = [i \in 1 .. n |-> seq[i]]
  BY <1>4, <1>7
<1> QED BY <1>4, <1>7, <1>8, <1>10, <1>11, <1>12 DEF Enumerates, seq

\* Two ascending sequences of the same numbers agree.
Climbs(f, n) ==
  /\ n \in Nat
  /\ \A i \in 1 .. n : f[i] \in Nat
  /\ \A i, j \in 1 .. n : i < j => f[i] < f[j]

Meets(f, n, g, m) == \A i \in 1 .. n : \E j \in 1 .. m : g[j] = f[i]

LEMMA OneOrder ==
  ASSUME NEW n, NEW m, NEW f, NEW g, Climbs(f, n), Climbs(g, m), Meets(f, n, g, m), Meets(g, m, f, n)
  PROVE  n = m /\ \A i \in 1 .. n : f[i] = g[i]
<1>0. /\ n \in Nat /\ m \in Nat
      /\ \A i \in 1 .. n : f[i] \in Nat
      /\ \A i \in 1 .. m : g[i] \in Nat
      /\ \A i, j \in 1 .. n : i < j => f[i] < f[j]
      /\ \A i, j \in 1 .. m : i < j => g[i] < g[j]
      /\ \A i \in 1 .. n : \E j \in 1 .. m : g[j] = f[i]
      /\ \A j \in 1 .. m : \E i \in 1 .. n : f[i] = g[j]
  BY DEF Climbs, Meets
<1> DEFINE Bad == {i \in 1 .. n : i \notin 1 .. m \/ f[i] /= g[i]}
<1>1. ASSUME NEW i \in Bad PROVE \E l \in Bad : ~(i <= l)
  <2> SUFFICES ASSUME \A l \in 1 .. n : l < i => l \in 1 .. m /\ f[l] = g[l]
               PROVE  i \in 1 .. m /\ f[i] = g[i]
    OBVIOUS
  <2>1. i \in 1 .. n
    OBVIOUS
  <2> HIDE DEF Bad
  <2>2. PICK j \in 1 .. m : g[j] = f[i]
    BY <1>0, <2>1
  <2>3. ~ (j < i)
    <3> SUFFICES ASSUME j < i PROVE FALSE
      OBVIOUS
    <3>1. j \in 1 .. n
      BY <1>0, <2>1
    <3>2. f[j] = g[j] /\ f[j] < f[i]
      BY <1>0, <2>1, <3>1
    <3> QED BY <1>0, <2>1, <2>2, <3>1, <3>2
  <2>4. i \in 1 .. m
    BY <1>0, <2>1, <2>3
  <2>5. PICK k \in 1 .. n : f[k] = g[i]
    BY <1>0, <2>4
  <2>6. ~ (k < i)
    <3> SUFFICES ASSUME k < i PROVE FALSE
      OBVIOUS
    <3>1. k \in 1 .. m /\ f[k] = g[k]
      OBVIOUS
    <3>2. g[k] < g[i]
      BY <1>0, <2>4, <3>1
    <3> QED BY <1>0, <2>4, <2>5, <3>1, <3>2
  <2>7. ~ (i < k)
    <3> SUFFICES ASSUME i < k PROVE FALSE
      OBVIOUS
    <3>1. f[i] < f[k]
      BY <1>0, <2>1
    <3>2. ~ (i < j)
      <4> SUFFICES ASSUME i < j PROVE FALSE
        OBVIOUS
      <4>1. g[i] < g[j]
        BY <1>0, <2>4
      <4>2. f[i] \in Nat /\ f[k] \in Nat
        BY <1>0, <2>1
      <4> QED BY <1>0, <2>2, <2>5, <3>1, <4>1, <4>2
    <3>3. i = j
      BY <1>0, <2>1, <2>3, <3>2
    <3>4. f[i] \in Nat /\ f[k] \in Nat
      BY <1>0, <2>1
    <3> QED BY <1>0, <2>2, <2>5, <3>1, <3>3, <3>4
  <2>8. k = i
    BY <1>0, <2>1, <2>6, <2>7
  <2> QED BY <1>0, <2>4, <2>5, <2>8
<1>2. Bad = {}
  <2>1. Bad \in SUBSET Nat
    OBVIOUS
  <2> HIDE DEF Bad
  <2> QED BY <1>0, <1>1, <2>1, LeastNatural
<1>3. \A i \in 1 .. n : i \in 1 .. m /\ f[i] = g[i]
  BY <1>0, <1>2
<1>4. ~ (n < m)
  <2> SUFFICES ASSUME n < m PROVE FALSE
    OBVIOUS
  <2>1. m \in 1 .. m
    BY <1>0
  <2>2. PICK i \in 1 .. n : f[i] = g[m]
    BY <1>0, <2>1
  <2>3. g[i] = g[m] /\ i < m /\ i \in 1 .. m
    BY <1>0, <1>3, <2>2
  <2> QED BY <1>0, <2>1, <2>3
<1>5. ~ (m < n)
  <2> SUFFICES ASSUME m < n PROVE FALSE
    OBVIOUS
  <2>1. n \in 1 .. n
    BY <1>0
  <2> QED BY <1>0, <1>3, <2>1
<1> QED BY <1>0, <1>3, <1>4, <1>5

LEMMA InOrderIsUnique ==
  ASSUME NEW S \in SUBSET Nat, IsFiniteSet(S), NEW n, NEW f, Enumerates(f, n, S)
  PROVE  InOrder(S) = f
<1> DEFINE g == InOrder(S)
           m == Cardinality(S)
<1>1. Enumerates(g, m, S)
  BY InOrderIs
<1> HIDE DEF g, m
<1>2. Climbs(f, n) /\ Climbs(g, m)
  BY <1>1 DEF Climbs, Enumerates
<1>3. Meets(f, n, g, m) /\ Meets(g, m, f, n)
  BY <1>1 DEF Meets, Enumerates
<1>4. n = m /\ \A i \in 1 .. n : f[i] = g[i]
  BY <1>2, <1>3, OneOrder
<1> QED BY <1>1, <1>4 DEF Enumerates, g

-----------------------------------------------------------------------------
\* What a message tells, whatever the order of its fields.

\* A field number gives a value: its only field has it, or it has none and the value is the default.
Gives(message, n, v) ==
  \/ v = 0 /\ \A i \in DOMAIN message : message[i].number /= n
  \/ \E i \in DOMAIN message :
       /\ message[i].number = n /\ message[i].value = v
       /\ \A j \in DOMAIN message : message[j].number = n => j = i

Tells(message, types, values) ==
  /\ IsSequence(message)
  /\ Parses(message, types)
  /\ \A n \in DOMAIN types : Gives(message, n, values[n])

LEMMA GivesValue ==
  ASSUME NEW message, NEW n, NEW v, Gives(message, n, v)
  PROVE  Value(message, n) = v
<1> DEFINE present == {i \in DOMAIN message : message[i].number = n}
<1>1. Value(message, n) = IF present = {} THEN 0 ELSE message[CHOOSE i \in present : TRUE].value
  BY DEF Value
<1>2. CASE present = {}
  BY <1>1, <1>2 DEF Gives
<1>3. CASE present /= {}
  <2>1. PICK i \in DOMAIN message : /\ message[i].number = n /\ message[i].value = v
                                    /\ \A j \in DOMAIN message : message[j].number = n => j = i
    BY <1>3 DEF Gives
  <2>2. present = {i}
    BY <2>1
  <2>3. (CHOOSE j \in present : TRUE) = i
    BY <2>2
  <2> HIDE DEF present
  <2> QED BY <1>1, <1>3, <2>1, <2>3
<1> QED BY <1>2, <1>3

\* The first k numbers are told so far.
TellsUpTo(message, k, types, values) ==
  /\ IsSequence(message)
  /\ Parses(message, types)
  /\ \A i \in DOMAIN message : message[i].number \in 1 .. k
  /\ \A n \in 1 .. k : Gives(message, n, values[n])

LEMMA NothingTells ==
  ASSUME NEW types, NEW values
  PROVE  TellsUpTo(<<>>, 0, types, values)
<1>1. IsSequence(<<>>)
  <2>1. <<>> \in Seq({})
    OBVIOUS
  <2> QED BY ONLY <2>1, SeqIsSequence
<1>2. DOMAIN <<>> = {}
  OBVIOUS
<1> QED BY <1>1, <1>2 DEF TellsUpTo, Parses

LEMMA ScalarAdds ==
  ASSUME NEW k \in Nat, NEW n, n = k + 1, NEW types, NEW values, NEW message, NEW wire,
         TellsUpTo(message, k, types, values),
         n \in DOMAIN types, wire = types[n].wire, values[n] \in types[n].values
  PROVE  TellsUpTo(message \o Scalar(n, wire, values[n]), n, types, values)
<1> DEFINE v == values[n]
           field == Field(n, wire, v)
           longer == message \o Scalar(n, wire, v)
<1>1. IsSequence(message) /\ message \in Seq(ToSet(message)) /\ Len(message) \in Nat
      /\ DOMAIN message = 1 .. Len(message)
  BY SequenceIs DEF TellsUpTo
<1>2. \A i \in DOMAIN message : message[i].number \in 1 .. k
  BY DEF TellsUpTo
<1>3. CASE v = 0
  <2>1. longer = message
    BY <1>1, <1>3 DEF Scalar
  <2>2. \A i \in DOMAIN message : message[i].number \in 1 .. n /\ message[i].number /= n
    BY <1>2
  <2>3. Gives(message, n, v)
    BY <1>3, <2>2 DEF Gives
  <2>4. \A j \in 1 .. n : j \in 1 .. k \/ j = n
    OBVIOUS
  <2> HIDE DEF longer, v
  <2>5. \A j \in 1 .. n : Gives(message, j, values[j])
    BY <2>3, <2>4 DEF TellsUpTo, v
  <2> QED BY <2>1, <2>2, <2>5 DEF TellsUpTo, longer, v
<1>4. CASE v /= 0
  <2> DEFINE l == Len(message) + 1
             one == <<field>>
  <2>1. Scalar(n, wire, v) = one
    BY <1>4 DEF Scalar
  <2>2. IsSequence(one) /\ Len(one) = 1 /\ DOMAIN one = 1 .. 1 /\ one[1] = field
    <3> HIDE DEF field
    <3>1. one \in Seq({field}) /\ Len(one) = 1 /\ DOMAIN one = 1 .. 1 /\ one[1] = field
      OBVIOUS
    <3> HIDE DEF one
    <3>2. IsSequence(one)
      BY ONLY <3>1, SeqIsSequence
    <3> QED BY <3>1, <3>2
  <2>3. field.number = n /\ field.wire = wire /\ field.value = v
    BY DEF Field
  <2> HIDE DEF field, one
  <2>4. /\ IsSequence(longer) /\ DOMAIN longer = 1 .. l
        /\ \A i \in DOMAIN message : longer[i] = message[i]
        /\ longer[l] = field
    <3>1. longer = message \o one
      BY <2>1
    <3> HIDE DEF longer
    <3>2. Joins(message, one, longer)
      BY <1>1, <2>2, <3>1, JoinedSequences
    <3> QED BY <2>2, <3>2 DEF Joins
  <2>5. l \in Nat /\ DOMAIN message = 1 .. l - 1
    BY <1>1
  <2> HIDE DEF longer, l, v
  <2>6. \A i \in 1 .. l : (i \in DOMAIN message /\ i /= l) \/ i = l
    BY <2>5
  <2>7. \A i \in DOMAIN message : i \in 1 .. l /\ i /= l
    BY <2>5
  <2>8. l \in 1 .. l /\ n \in Nat
    BY <1>1 DEF l
  <2>9. \A i \in DOMAIN message : message[i].number /= n /\ message[i].number \in 1 .. n
    BY <1>2
  <2>10. \A i \in DOMAIN longer : longer[i].number \in 1 .. n
    BY <2>3, <2>4, <2>6, <2>8, <2>9
  <2>11. Parses(longer, types)
    <3> SUFFICES ASSUME NEW i \in DOMAIN longer, longer[i].number \in DOMAIN types
                 PROVE  /\ longer[i].wire = types[longer[i].number].wire
                        /\ longer[i].value \in types[longer[i].number].values
                        /\ \A j \in DOMAIN longer \ {i} : longer[j].number /= longer[i].number
      BY DEF Parses
    <3>1. CASE i = l
      <4>1. \A j \in DOMAIN longer \ {l} : longer[j].number /= n
        BY <2>4, <2>6, <2>9
      <4> QED BY <2>3, <2>4, <3>1, <4>1 DEF v
    <3>2. CASE i /= l
      <4>1. i \in DOMAIN message /\ longer[i] = message[i]
        BY <2>4, <2>6, <3>2
      <4>2. /\ message[i].wire = types[message[i].number].wire
            /\ message[i].value \in types[message[i].number].values
            /\ \A j \in DOMAIN message \ {i} : message[j].number /= message[i].number
        BY <4>1 DEF TellsUpTo, Parses
      <4>3. \A j \in DOMAIN longer \ {i} : longer[j].number /= message[i].number
        BY <2>3, <2>4, <2>6, <2>9, <4>1, <4>2
      <4> QED BY <4>1, <4>2, <4>3
    <3> QED BY <3>1, <3>2
  <2>12. Gives(longer, n, v)
    <3>1. \A j \in DOMAIN longer : longer[j].number = n => j = l
      BY <2>4, <2>6, <2>9
    <3> QED BY <2>3, <2>4, <2>8, <3>1 DEF Gives
  <2>13. ASSUME NEW j \in 1 .. k PROVE Gives(longer, j, values[j])
    <3>1. Gives(message, j, values[j]) /\ j /= n
      BY DEF TellsUpTo
    <3>2. CASE values[j] = 0 /\ \A i \in DOMAIN message : message[i].number /= j
      <4>1. \A i \in DOMAIN longer : longer[i].number /= j
        BY <2>3, <2>4, <2>6, <3>1, <3>2
      <4> QED BY <3>2, <4>1 DEF Gives
    <3>3. ASSUME NEW i \in DOMAIN message, message[i].number = j, message[i].value = values[j],
                 \A h \in DOMAIN message : message[h].number = j => h = i
          PROVE  Gives(longer, j, values[j])
      <4>1. i \in DOMAIN longer /\ longer[i].number = j /\ longer[i].value = values[j]
        BY <2>4, <2>7, <3>3
      <4>2. \A h \in DOMAIN longer : longer[h].number = j => h = i
        BY <2>3, <2>4, <2>6, <3>1, <3>3
      <4> QED BY <4>1, <4>2 DEF Gives
    <3> QED BY <3>1, <3>2, <3>3 DEF Gives
  <2>14. \A j \in 1 .. n : j \in 1 .. k \/ j = n
    OBVIOUS
  <2>15. \A j \in 1 .. n : Gives(longer, j, values[j])
    BY <2>12, <2>13, <2>14 DEF v
  <2> QED BY <2>4, <2>10, <2>11, <2>15 DEF TellsUpTo, longer, v
<1> QED BY <1>3, <1>4


\* Neither the order of the fields nor a field that nobody knows changes what a message tells.
LEMMA SwappedTells ==
  ASSUME NEW types, NEW values, NEW message, Tells(message, types, values),
         NEW i \in 1 .. Len(message) - 1
  PROVE  Tells(Swapped(message, i), types, values)
<1> DEFINE n == Len(message)
           other == Swapped(message, i)
           from(k) == SwapOf(i, k)
<1>1. IsSequence(message) /\ DOMAIN message = 1 .. n
  BY SequenceIs DEF Tells
<1>2. /\ IsSequence(other) /\ DOMAIN other = 1 .. n
      /\ \A k \in 1 .. n : from(k) \in 1 .. n /\ other[k] = message[from(k)]
      /\ \A k \in 1 .. n : from(from(k)) = k
  BY <1>1, SwappedIs
<1> HIDE DEF n, other, from
<1>3. Parses(other, types)
  <2> SUFFICES ASSUME NEW k \in 1 .. n, other[k].number \in DOMAIN types
               PROVE  /\ other[k].wire = types[other[k].number].wire
                      /\ other[k].value \in types[other[k].number].values
                      /\ \A j \in 1 .. n \ {k} : other[j].number /= other[k].number
    BY <1>2 DEF Parses
  <2>1. from(k) \in DOMAIN message /\ other[k] = message[from(k)]
    BY <1>1, <1>2
  <2>2. /\ message[from(k)].wire = types[message[from(k)].number].wire
        /\ message[from(k)].value \in types[message[from(k)].number].values
        /\ \A j \in DOMAIN message \ {from(k)} : message[j].number /= message[from(k)].number
    BY <2>1 DEF Tells, Parses
  <2>3. ASSUME NEW j \in 1 .. n \ {k} PROVE other[j].number /= other[k].number
    <3>1. from(j) \in DOMAIN message /\ from(j) /= from(k) /\ other[j] = message[from(j)]
      BY <1>1, <1>2
    <3> QED BY <2>1, <2>2, <3>1
  <2> QED BY <2>1, <2>2, <2>3
<1>4. ASSUME NEW m \in DOMAIN types PROVE Gives(other, m, values[m])
  <2>1. CASE values[m] = 0 /\ \A k \in DOMAIN message : message[k].number /= m
    <3>1. \A k \in DOMAIN other : other[k].number /= m
      BY <1>1, <1>2, <2>1
    <3> QED BY <2>1, <3>1 DEF Gives
  <2>2. ASSUME NEW k \in DOMAIN message, message[k].number = m, message[k].value = values[m],
               \A j \in DOMAIN message : message[j].number = m => j = k
        PROVE  Gives(other, m, values[m])
    <3>1. from(k) \in DOMAIN other /\ other[from(k)] = message[k]
      BY <1>1, <1>2
    <3>2. \A j \in DOMAIN other : other[j].number = m => j = from(k)
      BY <1>1, <1>2, <2>2
    <3> QED BY <2>2, <3>1, <3>2 DEF Gives
  <2>3. Gives(message, m, values[m])
    BY DEF Tells
  <2> QED BY <2>1, <2>2, <2>3 DEF Gives
<1> QED BY <1>2, <1>3, <1>4 DEF Tells, other

Unknown == Field(9, "varint", 1)

LEMMA UnknownIsSkipped ==
  ASSUME NEW types, NEW values, NEW message, Tells(message, types, values), 9 \notin DOMAIN types
  PROVE  Tells(Append(message, Unknown), types, values)
<1> DEFINE l == Len(message) + 1
           longer == Append(message, Unknown)
<1>1. IsSequence(message) /\ DOMAIN message = 1 .. Len(message) /\ Len(message) \in Nat
  BY SequenceIs DEF Tells
<1>2. /\ IsSequence(longer) /\ DOMAIN longer = 1 .. l /\ longer[l] = Unknown
      /\ \A i \in DOMAIN message : longer[i] = message[i]
  BY <1>1, AppendedSequence
<1>3. /\ \A i \in 1 .. l : i \in DOMAIN message \/ i = l
      /\ \A i \in DOMAIN message : i \in 1 .. l
      /\ Unknown.number = 9
  BY <1>1 DEF Unknown, Field
<1> HIDE DEF l, longer
<1>4. \A i \in DOMAIN longer : longer[i].number \in DOMAIN types => i \in DOMAIN message
  BY <1>2, <1>3
<1>5. Parses(longer, types)
  <2> SUFFICES ASSUME NEW i \in DOMAIN longer, longer[i].number \in DOMAIN types
               PROVE  /\ longer[i].wire = types[longer[i].number].wire
                      /\ longer[i].value \in types[longer[i].number].values
                      /\ \A j \in DOMAIN longer \ {i} : longer[j].number /= longer[i].number
    BY DEF Parses
  <2>1. i \in DOMAIN message /\ longer[i] = message[i]
    BY <1>2, <1>4
  <2>2. /\ message[i].wire = types[message[i].number].wire
        /\ message[i].value \in types[message[i].number].values
        /\ \A j \in DOMAIN message \ {i} : message[j].number /= message[i].number
    BY <2>1 DEF Tells, Parses
  <2>3. \A j \in DOMAIN longer \ {i} : longer[j].number /= longer[i].number
    BY <1>2, <1>4, <2>1, <2>2
  <2> QED BY <2>1, <2>2, <2>3
<1>6. ASSUME NEW m \in DOMAIN types PROVE Gives(longer, m, values[m])
  <2>1. CASE values[m] = 0 /\ \A k \in DOMAIN message : message[k].number /= m
    <3>1. \A k \in DOMAIN longer : longer[k].number /= m
      BY <1>2, <1>4, <2>1
    <3> QED BY <2>1, <3>1 DEF Gives
  <2>2. ASSUME NEW k \in DOMAIN message, message[k].number = m, message[k].value = values[m],
               \A j \in DOMAIN message : message[j].number = m => j = k
        PROVE  Gives(longer, m, values[m])
    <3>1. k \in DOMAIN longer /\ longer[k] = message[k]
      BY <1>2, <1>3
    <3>2. \A j \in DOMAIN longer : longer[j].number = m => j = k
      BY <1>2, <1>4, <2>2
    <3> QED BY <2>2, <3>1, <3>2 DEF Gives
  <2>3. Gives(message, m, values[m])
    BY DEF Tells
  <2> QED BY <2>1, <2>2, <2>3 DEF Gives
<1> QED BY <1>2, <1>5, <1>6 DEF Tells, longer

\* The nested messages, in their order among themselves.
NestedPlaces(message) == {i \in DOMAIN message : message[i].number = 4}

LEMMA PlacesAreFinite ==
  ASSUME NEW message, IsSequence(message)
  PROVE  NestedPlaces(message) \in SUBSET Nat /\ IsFiniteSet(NestedPlaces(message))
<1>1. DOMAIN message = 1 .. Len(message) /\ Len(message) \in Nat
  BY SequenceIs
<1>2. IsFiniteSet(1 .. Len(message))
  BY <1>1, FS_Interval
<1>3. NestedPlaces(message) \subseteq 1 .. Len(message) /\ 1 .. Len(message) \subseteq Nat
  BY <1>1 DEF NestedPlaces
<1> QED BY <1>2, <1>3, FS_Subset

Through(message, f, n) == [k \in 1 .. n |-> message[f[k]]]

LEMMA NestedIs ==
  ASSUME NEW message, IsSequence(message), NEW n, NEW f, Enumerates(f, n, NestedPlaces(message))
  PROVE  Nested(message) = Through(message, f, n)
<1> DEFINE S == NestedPlaces(message)
<1>1. S \in SUBSET Nat /\ IsFiniteSet(S)
  BY PlacesAreFinite
<1> HIDE DEF S
<1>2. InOrder(S) = f
  BY <1>1, InOrderIsUnique DEF S
<1>3. Nested(message) = [k \in DOMAIN InOrder(S) |-> message[InOrder(S)[k]]]
  BY DEF Nested, S, NestedPlaces
<1>4. DOMAIN f = 1 .. n
  BY DEF Enumerates
<1> QED BY <1>2, <1>3, <1>4 DEF Through

LEMMA NestedEnumerated ==
  ASSUME NEW message, IsSequence(message)
  PROVE  \E n, f : /\ Enumerates(f, n, NestedPlaces(message))
                   /\ Nested(message) = Through(message, f, n)
<1> DEFINE S == NestedPlaces(message)
<1>1. Enumerates(InOrder(S), Cardinality(S), S)
  BY PlacesAreFinite, InOrderIs
<1> QED BY <1>1, NestedIs

\* What is not nested comes first, then what is.
LEMMA NestedOfTail ==
  ASSUME NEW message, IsSequence(message), \A i \in DOMAIN message : message[i].number /= 4,
         NEW tail, IsSequence(tail), \A i \in DOMAIN tail : tail[i].number = 4
  PROVE  Nested(message \o tail) = tail
<1> DEFINE whole == message \o tail
           l == Len(message)
           n == Len(tail)
           f == [k \in 1 .. n |-> l + k]
<1>1. /\ l \in Nat /\ n \in Nat /\ DOMAIN message = 1 .. l /\ DOMAIN tail = 1 .. n
      /\ tail = [k \in 1 .. n |-> tail[k]]
  BY SequenceIs DEF IsSequence
<1>2. Joins(message, tail, whole)
  BY JoinedSequences
<1> HIDE DEF whole, l, n
<1>3. /\ IsSequence(whole) /\ DOMAIN whole = 1 .. l + n
      /\ \A i \in 1 .. l : whole[i] = message[i]
      /\ \A i \in 1 .. n : whole[l + i] = tail[i]
  BY <1>1, <1>2 DEF Joins, l, n
<1>4. Enumerates(f, n, NestedPlaces(whole))
  <2>1. \A k \in 1 .. n : f[k] = l + k /\ f[k] \in 1 .. l + n
    BY <1>1
  <2>2. f = [k \in 1 .. n |-> f[k]]
    OBVIOUS
  <2> HIDE DEF f
  <2>3. \A k \in 1 .. n : f[k] \in NestedPlaces(whole)
    BY <1>1, <1>3, <2>1 DEF NestedPlaces
  <2>4. \A i, j \in 1 .. n : i < j => f[i] < f[j]
    BY <1>1, <2>1
  <2>5. ASSUME NEW x \in NestedPlaces(whole) PROVE \E k \in 1 .. n : f[k] = x
    <3>1. x \in 1 .. l + n /\ whole[x].number = 4
      BY <1>3 DEF NestedPlaces
    <3>2. x \notin 1 .. l
      BY <1>1, <1>3, <3>1
    <3>3. x - l \in 1 .. n /\ l + (x - l) = x
      BY <1>1, <3>1, <3>2
    <3> QED BY <2>1, <3>3
  <2> QED BY <1>1, <2>2, <2>3, <2>4, <2>5 DEF Enumerates
<1>5. \A k \in 1 .. n : whole[f[k]] = tail[k]
  BY <1>3
<1> HIDE DEF f
<1>6. Nested(whole) = Through(whole, f, n)
  BY <1>3, <1>4, NestedIs
<1> QED BY <1>1, <1>5, <1>6 DEF whole, Through

LEMMA NestedOfSwapped ==
  ASSUME NEW message, IsSequence(message), NEW i \in 1 .. Len(message) - 1,
         message[i].number /= message[i + 1].number
  PROVE  Nested(Swapped(message, i)) = Nested(message)
<1> DEFINE l == Len(message)
           other == Swapped(message, i)
           from(k) == SwapOf(i, k)
<1>1. l \in Nat /\ DOMAIN message = 1 .. l /\ i \in 1 .. l - 1
  BY SequenceIs
<1>2. /\ IsSequence(other) /\ DOMAIN other = 1 .. l
      /\ \A k \in 1 .. l : from(k) \in 1 .. l /\ other[k] = message[from(k)]
      /\ \A k \in 1 .. l : from(from(k)) = k
  BY SwappedIs
<1>3. PICK n, f : /\ Enumerates(f, n, NestedPlaces(message))
                  /\ Nested(message) = Through(message, f, n)
  BY NestedEnumerated
<1> DEFINE g == [k \in 1 .. n |-> from(f[k])]
<1>4. \A k \in 1 .. n : f[k] \in 1 .. l /\ message[f[k]].number = 4
  BY <1>1, <1>3 DEF Enumerates, NestedPlaces
<1>5. \A a, b \in 1 .. l : a < b /\ ~ (a = i /\ b = i + 1) => from(a) < from(b)
  BY <1>1 DEF SwapOf
<1> HIDE DEF l, other, from
<1>6. \A k \in 1 .. n : g[k] = from(f[k])
  OBVIOUS
<1>7. g = [k \in 1 .. n |-> g[k]]
  OBVIOUS
<1> HIDE DEF g
<1>8. Enumerates(g, n, NestedPlaces(other))
  <2>1. \A k \in 1 .. n : g[k] \in NestedPlaces(other)
    BY <1>2, <1>4, <1>6 DEF NestedPlaces
  <2>2. ASSUME NEW a \in 1 .. n, NEW b \in 1 .. n, a < b PROVE g[a] < g[b]
    <3>1. f[a] < f[b]
      BY <1>3, <2>2 DEF Enumerates
    <3>2. ~ (f[a] = i /\ f[b] = i + 1)
      BY <1>4
    <3> QED BY <1>4, <1>5, <1>6, <3>1, <3>2
  <2>3. ASSUME NEW x \in NestedPlaces(other) PROVE \E k \in 1 .. n : g[k] = x
    <3>1. x \in 1 .. l /\ other[x].number = 4
      BY <1>2 DEF NestedPlaces
    <3>2. from(x) \in NestedPlaces(message) /\ from(from(x)) = x
      BY <1>1, <1>2, <3>1 DEF NestedPlaces
    <3>3. PICK k \in 1 .. n : f[k] = from(x)
      BY <1>3, <3>2 DEF Enumerates
    <3> QED BY <1>6, <3>2, <3>3
  <2> QED BY <1>3, <1>7, <2>1, <2>2, <2>3 DEF Enumerates
<1>9. Nested(other) = Through(other, g, n)
  BY <1>2, <1>8, NestedIs
<1>10. \A k \in 1 .. n : other[g[k]] = message[f[k]]
  BY <1>2, <1>4, <1>6
<1> QED BY <1>3, <1>9, <1>10 DEF other, Through

LEMMA NestedOfUnknown ==
  ASSUME NEW message, IsSequence(message)
  PROVE  Nested(Append(message, Unknown)) = Nested(message)
<1> DEFINE l == Len(message) + 1
           longer == Append(message, Unknown)
<1>1. DOMAIN message = 1 .. Len(message) /\ Len(message) \in Nat
  BY SequenceIs
<1>2. /\ IsSequence(longer) /\ DOMAIN longer = 1 .. l /\ longer[l] = Unknown
      /\ \A i \in DOMAIN message : longer[i] = message[i]
  BY AppendedSequence
<1>3. /\ \A i \in 1 .. l : i \in DOMAIN message \/ i = l
      /\ \A i \in DOMAIN message : i \in 1 .. l
      /\ Unknown.number /= 4
  BY <1>1 DEF Unknown, Field
<1> HIDE DEF l, longer
<1>4. NestedPlaces(longer) = NestedPlaces(message)
  BY <1>2, <1>3 DEF NestedPlaces
<1>5. PICK n, f : /\ Enumerates(f, n, NestedPlaces(message))
                  /\ Nested(message) = Through(message, f, n)
  BY NestedEnumerated
<1>6. Nested(longer) = Through(longer, f, n)
  BY <1>2, <1>4, <1>5, NestedIs
<1>7. \A k \in 1 .. n : longer[f[k]] = message[f[k]]
  BY <1>2, <1>5 DEF Enumerates, NestedPlaces
<1> QED BY <1>5, <1>6, <1>7 DEF longer, Through


-----------------------------------------------------------------------------
\* Orders of the parts of a file, and sorting.

Order(p, n) ==
  /\ n \in Nat
  /\ p \in [1 .. n -> 1 .. n]
  /\ \A i, j \in 1 .. n : p[i] = p[j] => i = j
  /\ \A k \in 1 .. n : \E i \in 1 .. n : p[i] = k

LEMMA GivenOrder ==
  ASSUME NEW n \in Nat
  PROVE  Order([i \in 1 .. n |-> i], n)
BY DEF Order

LEMMA SwappedOrder ==
  ASSUME NEW n, NEW p, Order(p, n), NEW i \in 1 .. n - 1
  PROVE  /\ Order(Swapped(p, i), n)
         /\ \A k \in 1 .. n : Swapped(p, i)[k] = p[SwapOf(i, k)]
<1> DEFINE q == Swapped(p, i)
           from(k) == SwapOf(i, k)
<1>1. n \in Nat /\ p = [k \in 1 .. n |-> p[k]]
  BY DEF Order
<1>2. IsSequence(p) /\ Len(p) = n
  BY <1>1, FunctionIsSequence
<1>3. /\ IsSequence(q) /\ Len(q) = n /\ DOMAIN q = 1 .. n
      /\ \A k \in 1 .. n : from(k) \in 1 .. n /\ q[k] = p[from(k)]
      /\ \A k \in 1 .. n : from(from(k)) = k
  BY <1>2, SwappedIs
<1> HIDE DEF q, from
<1>4. q = [k \in 1 .. n |-> q[k]]
  BY <1>3 DEF IsSequence
<1>5. \A k \in 1 .. n : q[k] \in 1 .. n
  BY <1>3 DEF Order
<1>6. \A a, b \in 1 .. n : q[a] = q[b] => a = b
  <2> SUFFICES ASSUME NEW a \in 1 .. n, NEW b \in 1 .. n, q[a] = q[b] PROVE a = b
    OBVIOUS
  <2>1. from(a) = from(b)
    BY <1>3 DEF Order
  <2> QED BY <1>3, <2>1
<1>7. \A k \in 1 .. n : \E a \in 1 .. n : q[a] = k
  <2> SUFFICES ASSUME NEW k \in 1 .. n PROVE \E a \in 1 .. n : q[a] = k
    OBVIOUS
  <2>1. PICK b \in 1 .. n : p[b] = k
    BY DEF Order
  <2>2. from(b) \in 1 .. n /\ q[from(b)] = p[from(from(b))]
    BY <1>3
  <2> QED BY <1>3, <2>1, <2>2
<1>8. Order(q, n)
  BY <1>1, <1>4, <1>5, <1>6, <1>7 DEF Order
<1> QED BY <1>3, <1>8 DEF q, from

LEMMA OrderOfIs ==
  ASSUME NEW n \in Nat, NEW keys \in [1 .. n -> Nat]
  PROVE  /\ Order(OrderOf(keys), n)
         /\ \A i, j \in 1 .. n : i < j => keys[OrderOf(keys)[i]] <= keys[OrderOf(keys)[j]]
<1> DEFINE S == 1 .. n
           R == {p \in S \X S : keys[p[1]] < keys[p[2]] \/ (keys[p[1]] = keys[p[2]] /\ p[1] < p[2])}
           before(i) == {j \in S : keys[j] < keys[i] \/ (keys[j] = keys[i] /\ j < i)}
           seq == OrderOf(keys)
           pick(k) == CHOOSE i \in S : Cardinality(before(i)) = k - 1
<1>1. IsFiniteSet(S) /\ Cardinality(S) = n
  BY FS_Interval
<1>2. \A a, b \in S : <<a, b>> \in R <=> (keys[a] < keys[b] \/ (keys[a] = keys[b] /\ a < b))
  OBVIOUS
<1>3. \A a \in S : keys[a] \in Nat /\ a \in Nat
  OBVIOUS
<1>4. DOMAIN keys = S
  OBVIOUS
<1>5. seq = [k \in S |-> pick(k)]
  BY <1>4 DEF OrderOf
<1> HIDE DEF R, seq
<1>6. StrictOrder(R, S)
  <2>1. \A a \in S : <<a, a>> \notin R
    BY <1>2, <1>3
  <2>2. \A a, b, c \in S : <<a, b>> \in R /\ <<b, c>> \in R => <<a, c>> \in R
    <3> HIDE DEF S
    <3> TAKE a, b, c \in S
    <3>1. keys[a] \in Nat /\ keys[b] \in Nat /\ keys[c] \in Nat /\ a \in Nat /\ b \in Nat /\ c \in Nat
      BY <1>3
    <3>2. /\ <<a, b>> \in R <=> (keys[a] < keys[b] \/ (keys[a] = keys[b] /\ a < b))
          /\ <<b, c>> \in R <=> (keys[b] < keys[c] \/ (keys[b] = keys[c] /\ b < c))
          /\ <<a, c>> \in R <=> (keys[a] < keys[c] \/ (keys[a] = keys[c] /\ a < c))
      BY <1>2
    <3> QED BY <3>1, <3>2
  <2>3. \A a, b \in S : a /= b => <<a, b>> \in R \/ <<b, a>> \in R
    BY <1>2, <1>3
  <2> QED BY <2>1, <2>2, <2>3 DEF StrictOrder
<1>7. \A a \in S : Place(R, S, a) = Cardinality(before(a))
  <2> TAKE a \in S
  <2>1. {j \in S : <<j, a>> \in R} = before(a)
    BY <1>2
  <2> QED BY <2>1 DEF Place
<1> HIDE DEF S, before
<1>8. ASSUME NEW k \in S PROVE seq[k] \in S /\ Place(R, S, seq[k]) = k - 1
  <2>1. \E i \in S : Place(R, S, i) = k - 1
    <3>1. k \in 1 .. Cardinality(S)
      BY <1>1 DEF S
    <3> QED BY <1>1, <1>6, <3>1, EveryPlaceTaken
  <2>2. \E i \in S : Cardinality(before(i)) = k - 1
    BY <1>7, <2>1
  <2>3. pick(k) \in S /\ Cardinality(before(pick(k))) = k - 1
    BY <2>2
  <2>4. seq[k] = pick(k)
    BY <1>5
  <2> HIDE DEF pick
  <2> QED BY <1>7, <2>3, <2>4
<1> HIDE DEF pick
<1>9. \A i \in 1 .. n : seq[i] \in S /\ Place(R, S, seq[i]) = i - 1
  BY <1>8 DEF S
<1>10. /\ \A i, j \in 1 .. n : i < j => <<seq[i], seq[j]>> \in R
       /\ \A i, j \in 1 .. n : seq[i] = seq[j] => i = j
       /\ {seq[i] : i \in 1 .. n} = S
  <2>1. n = Cardinality(S)
    BY <1>1
  <2> QED BY <1>1, <1>6, <1>9, <2>1, RankedIsSorted
<1>11. \A k \in 1 .. n : \E i \in 1 .. n : seq[i] = k
  BY <1>10 DEF S
<1>12. seq \in [1 .. n -> 1 .. n]
  <2>1. DOMAIN seq = 1 .. n /\ seq = [k \in 1 .. n |-> seq[k]]
    BY <1>5 DEF S
  <2> QED BY <1>9, <2>1 DEF S
<1>13. Order(seq, n)
  BY <1>10, <1>11, <1>12 DEF Order
<1>14. \A i, j \in 1 .. n : i < j => keys[seq[i]] <= keys[seq[j]]
  <2> TAKE i, j \in 1 .. n
  <2> HAVE i < j
  <2>1. <<seq[i], seq[j]>> \in R /\ seq[i] \in S /\ seq[j] \in S
    BY <1>9, <1>10
  <2>2. keys[seq[i]] < keys[seq[j]] \/ keys[seq[i]] = keys[seq[j]]
    BY <1>2, <2>1
  <2> QED BY <1>3, <2>1, <2>2
<1> QED BY <1>13, <1>14 DEF seq

\* Sorting undoes any order of what was sorted.
LEMMA SortingRestores ==
  ASSUME NEW n, NEW p, Order(p, n), NEW keys, Climbs(keys, n), NEW mixed, mixed = Through(keys, p, n)
  PROVE  \A k \in 1 .. n : OrderOf(mixed)[k] \in 1 .. n /\ p[OrderOf(mixed)[k]] = k
<1> DEFINE o == OrderOf(mixed)
           q == [k \in 1 .. n |-> p[o[k]]]
           id == [k \in 1 .. n |-> k]
<1>1. n \in Nat /\ mixed \in [1 .. n -> Nat] /\ \A i \in 1 .. n : mixed[i] = keys[p[i]]
  BY DEF Order, Climbs, Through
<1>2. /\ Order(o, n)
      /\ \A i, j \in 1 .. n : i < j => mixed[o[i]] <= mixed[o[j]]
  BY <1>1, OrderOfIs
<1> HIDE DEF o
<1>3. \A k \in 1 .. n : o[k] \in 1 .. n /\ q[k] = p[o[k]] /\ q[k] \in 1 .. n
  BY <1>2 DEF Order
<1> HIDE DEF q
<1>4. ASSUME NEW i \in 1 .. n, NEW j \in 1 .. n, i < j PROVE q[i] < q[j]
  <2>1. q[i] /= q[j]
    <3>1. i /= j /\ \A a, b \in 1 .. n : o[a] = o[b] => a = b
      BY <1>1, <1>2, <1>4 DEF Order
    <3>2. o[i] /= o[j]
      BY <3>1
    <3>3. \A a, b \in 1 .. n : p[a] = p[b] => a = b
      BY DEF Order
    <3> QED BY ONLY <1>3, <3>2, <3>3
  <2>2. keys[q[i]] <= keys[q[j]]
    <3>1. mixed[o[i]] <= mixed[o[j]]
      BY <1>2, <1>4
    <3>2. mixed[o[i]] = keys[q[i]] /\ mixed[o[j]] = keys[q[j]]
      <4>1. \A i0 \in 1 .. n : mixed[i0] = keys[p[i0]]
        BY ONLY <1>1
      <4> QED BY ONLY <1>3, <4>1
    <3> QED BY <3>1, <3>2
  <2>3. ~ (q[j] < q[i])
    <3> SUFFICES ASSUME q[j] < q[i] PROVE FALSE
      OBVIOUS
    <3>1. keys[q[j]] < keys[q[i]] /\ keys[q[j]] \in Nat /\ keys[q[i]] \in Nat
      BY <1>3 DEF Climbs
    <3> QED BY <2>2, <3>1
  <2> QED BY <1>1, <1>3, <2>1, <2>3
<1>5. Climbs(q, n)
  BY <1>1, <1>3, <1>4 DEF Climbs
<1>6. Climbs(id, n)
  BY <1>1 DEF Climbs
<1>7. Meets(q, n, id, n)
  BY <1>3 DEF Meets
<1>8. Meets(id, n, q, n)
  <2> SUFFICES ASSUME NEW k \in 1 .. n PROVE \E i \in 1 .. n : q[i] = k
    BY DEF Meets
  <2>1. PICK j \in 1 .. n : p[j] = k
    BY DEF Order
  <2>2. PICK i \in 1 .. n : o[i] = j
    BY <1>2 DEF Order
  <2> QED BY <1>3, <2>1, <2>2
<1>9. \A k \in 1 .. n : id[k] = k
  OBVIOUS
<1> HIDE DEF id
<1>10. \A k \in 1 .. n : q[k] = id[k]
  BY <1>5, <1>6, <1>7, <1>8, OneOrder
<1> QED BY <1>3, <1>9, <1>10 DEF o

\* A sum with one more summand.
OneMore(f, g, S, x) ==
  /\ IsFiniteSet(S) /\ x \notin S
  /\ DOMAIN f = S \union {x} /\ DOMAIN g = S
  /\ \A y \in S \union {x} : f[y] \in Int
  /\ \A y \in S : g[y] = f[y]

LEMMA OneMoreAdds ==
  ASSUME NEW S, NEW x, NEW f, NEW g, OneMore(f, g, S, x)
  PROVE  SumFunction(g) \in Int /\ SumFunction(f) = SumFunction(g) + f[x]
BY SumOfMore DEF OneMore

\* Some of the lists, in any order, have no more postings than all of them.
LEMMA SomeAreFewer ==
  ASSUME NEW n, NEW p, Order(p, n), NEW sizes \in [1 .. n -> Nat], NEW r \in 0 .. n
  PROVE  SumFunction([k \in 1 .. r |-> sizes[p[k]]]) <= SumFunction(sizes)
<1> DEFINE first(k) == {p[i] : i \in 1 .. k}
           part(k) == [i \in 1 .. k |-> sizes[p[i]]]
           Bad == {k \in 0 .. n : SumFunction(part(k)) /= SumOver(sizes, first(k))}
<1>1. /\ n \in Nat
      /\ \A i \in 1 .. n : p[i] \in 1 .. n /\ sizes[p[i]] \in Nat
      /\ \A i, j \in 1 .. n : p[i] = p[j] => i = j
  BY DEF Order
<1>2. ASSUME NEW k \in 0 .. n
      PROVE  /\ first(k) \subseteq 1 .. n /\ IsFiniteSet(first(k))
             /\ DOMAIN part(k) = 1 .. k /\ IsFiniteSet(1 .. k)
             /\ \A i \in 1 .. k : part(k)[i] = sizes[p[i]] /\ part(k)[i] \in Nat
  <2>1. first(k) \subseteq 1 .. n
    BY <1>1
  <2>2. IsFiniteSet(1 .. n) /\ IsFiniteSet(1 .. k)
    BY <1>1, FS_Interval
  <2> HIDE DEF first
  <2>3. IsFiniteSet(first(k))
    BY <2>1, <2>2, FS_Subset
  <2>4. \A i \in 1 .. k : i \in 1 .. n
    BY <1>1
  <2> QED BY <1>1, <2>1, <2>2, <2>3, <2>4
<1>3. ASSUME NEW k \in Bad PROVE \E l \in Bad : ~(k <= l)
  <2>1. k /= 0
    <3> SUFFICES ASSUME k = 0 PROVE FALSE
      OBVIOUS
    <3>1. DOMAIN part(k) = {} /\ first(k) = {}
      OBVIOUS
    <3> DEFINE f == [x \in first(k) |-> sizes[x]]
               g == part(k)
    <3>2. DOMAIN f = {} /\ DOMAIN g = {}
      BY <3>1
    <3> HIDE DEF f, g
    <3>3. SumFunction(f) = 0 /\ SumFunction(g) = 0
      BY <3>2, SumOfNone
    <3>4. SumFunction(part(k)) /= SumOver(sizes, first(k))
      OBVIOUS
    <3> QED BY <3>3, <3>4 DEF SumOver, f, g
  <2> DEFINE j == k - 1
  <2>2. k \in 1 .. n /\ j \in 0 .. n /\ k \in 0 .. n /\ ~ (k <= j)
    BY <1>1, <2>1
  <2>3. SumFunction(part(k)) = SumFunction(part(j)) + sizes[p[k]]
    <3>1. 1 .. k = 1 .. j \union {k} /\ k \notin 1 .. j /\ 1 .. j \subseteq 1 .. k /\ k \in 1 .. k
      BY <2>2
    <3>2. j \in 0 .. n /\ k \in 0 .. n
      BY <2>2
    <3> HIDE DEF part, first, j, Bad
    <3>3. DOMAIN part(k) = 1 .. k /\ \A i \in 1 .. k : part(k)[i] = sizes[p[i]] /\ part(k)[i] \in Nat
      BY <1>2, <3>2
    <3>4. DOMAIN part(j) = 1 .. j /\ IsFiniteSet(1 .. j) /\ \A i \in 1 .. j : part(j)[i] = sizes[p[i]]
      BY <1>2, <3>2
    <3>5. PICK f, g, T : f = part(k) /\ g = part(j) /\ T = 1 .. j
      OBVIOUS
    <3>6. k \notin T /\ DOMAIN f = T \union {k} /\ DOMAIN g = T /\ IsFiniteSet(T)
      BY <3>1, <3>3, <3>4, <3>5
    <3>7. (\A y \in T \union {k} : f[y] \in Int) /\ \A y \in T : g[y] = f[y]
      BY <3>1, <3>3, <3>4, <3>5
    <3>8. SumFunction(f) = SumFunction(g) + f[k]
      BY <3>6, <3>7, OneMoreAdds DEF OneMore
    <3>9. f[k] = sizes[p[k]]
      BY <3>1, <3>3, <3>5
    <3> QED BY <3>5, <3>8, <3>9
  <2>4. SumOver(sizes, first(k)) = SumOver(sizes, first(j)) + sizes[p[k]]
    <3>1. p[k] \in first(k) /\ first(k) \ {p[k]} = first(j)
      <4>1. \A i \in 1 .. k : i \in 1 .. j \/ i = k
        BY <2>2
      <4>2. \A i \in 1 .. j : i \in 1 .. k /\ i \in 1 .. n /\ i /= k
        BY <1>1, <2>2
      <4>3. \A i \in 1 .. j : p[i] /= p[k]
        BY <1>1, <2>2, <4>2
      <4> QED BY <2>2, <4>1, <4>2, <4>3
    <3>2. IsFiniteSet(first(k)) /\ \A x \in first(k) : sizes[x] \in Int
      BY <1>1, <1>2, <2>2
    <3> HIDE DEF first, j
    <3> QED BY <3>1, <3>2, SumOfOneMore
  <2>5. SumFunction(part(k)) /= SumOver(sizes, first(k))
    OBVIOUS
  <2> HIDE DEF part, first, j
  <2>6. SumFunction(part(j)) /= SumOver(sizes, first(j))
    BY <2>3, <2>4, <2>5
  <2> QED BY <2>2, <2>6
<1>4. Bad = {}
  <2>1. Bad \in SUBSET Nat
    BY <1>1
  <2> HIDE DEF Bad
  <2> QED BY <1>3, <2>1, LeastNatural
<1>5. SumFunction(part(r)) = SumOver(sizes, first(r))
  BY <1>4
<1> DEFINE A == first(r)
           f == [x \in A |-> sizes[x]]
<1>6. A \in SUBSET (1 .. n) /\ IsFiniteSet(1 .. n)
  <2>1. IsFiniteSet(1 .. n)
    BY <1>1, FS_Interval
  <2> HIDE DEF first
  <2> QED BY <1>2, <2>1
<1>7. DOMAIN f = A /\ DOMAIN sizes = 1 .. n /\ \A x \in 1 .. n : sizes[x] \in Nat
  OBVIOUS
<1>8. \A x \in A : f[x] \in Nat /\ f[x] <= sizes[x]
  BY <1>6
<1> HIDE DEF A, f, part
<1>9. SumFunction(f) <= SumFunction(sizes)
  BY <1>6, <1>7, <1>8, SumOfFewer
<1> QED BY <1>5, <1>9 DEF SumOver, A, f, part


\* Written as differences, ascending documents add up again.
Gap(docs, k) == docs[k] - (IF k = 1 THEN 0 ELSE docs[k - 1])
GapsUpTo(docs, i) == [k \in 1 .. i |-> Gap(docs, k)]

LEMMA GapsAddUp ==
  ASSUME NEW n \in Nat, NEW docs \in [1 .. n -> Nat],
         \A i, j \in 1 .. n : i < j => docs[i] < docs[j]
  PROVE  \A i \in 1 .. n : Gap(docs, i) \in Nat /\ SumFunction(GapsUpTo(docs, i)) = docs[i]
<1> DEFINE Bad == {i \in 1 .. n : SumFunction(GapsUpTo(docs, i)) /= docs[i]}
<1>0. \A i \in 1 .. n : docs[i] \in Nat
  OBVIOUS
<1>1. \A k \in 1 .. n : Gap(docs, k) \in Nat
  <2> SUFFICES ASSUME NEW k \in 1 .. n PROVE Gap(docs, k) \in Nat
    OBVIOUS
  <2>1. CASE k = 1
    BY <1>0, <2>1 DEF Gap
  <2>2. CASE k /= 1
    <3>1. k - 1 \in 1 .. n /\ k - 1 < k
      BY <2>2
    <3>2. docs[k - 1] < docs[k] /\ docs[k - 1] \in Nat /\ docs[k] \in Nat
      BY <1>0, <3>1
    <3> QED BY <2>2, <3>2 DEF Gap
  <2> QED BY <2>1, <2>2
<1>2. ASSUME NEW i \in Bad PROVE \E l \in Bad : ~(i <= l)
  <2>1. i \in 1 .. n /\ i - 1 \in 0 .. n /\ ~ (i <= i - 1)
    OBVIOUS
  <2>2. SumFunction(GapsUpTo(docs, i)) /= docs[i]
    OBVIOUS
  <2>3. PICK j, f, g, S : j = i - 1 /\ f = GapsUpTo(docs, i) /\ g = GapsUpTo(docs, j) /\ S = 1 .. j
    OBVIOUS
  <2>4. OneMore(f, g, S, i)
    <3>1. IsFiniteSet(S)
      BY <2>1, <2>3, FS_Interval
    <3>2. i \notin S /\ 1 .. i = S \union {i} /\ \A k \in 1 .. i : k \in 1 .. n
      BY <2>1, <2>3
    <3>3. DOMAIN f = 1 .. i /\ DOMAIN g = S /\ \A k \in 1 .. i : f[k] = Gap(docs, k)
      BY <2>3 DEF GapsUpTo
    <3>4. \A k \in S : g[k] = Gap(docs, k)
      BY <2>3 DEF GapsUpTo
    <3>5. \A k \in S \union {i} : f[k] \in Int
      BY <1>1, <3>2, <3>3
    <3>6. \A k \in S : g[k] = f[k]
      BY <3>2, <3>3, <3>4
    <3> HIDE DEF Bad
    <3> QED BY <3>1, <3>2, <3>3, <3>5, <3>6 DEF OneMore
  <2>5. f[i] = Gap(docs, i)
    BY <2>1, <2>3 DEF GapsUpTo
  <2>6. SumFunction(f) = SumFunction(g) + Gap(docs, i)
    BY <2>4, <2>5, OneMoreAdds
  <2>7. CASE i = 1
    <3>1. DOMAIN g = {}
      BY <2>3, <2>7 DEF GapsUpTo
    <3>2. SumFunction(g) = 0
      BY <3>1, SumOfNone
    <3>3. Gap(docs, i) = docs[i]
      BY <1>0, <2>1, <2>7 DEF Gap
    <3>4. docs[i] \in Nat
      BY <1>0, <2>1
    <3> QED BY <2>2, <2>3, <2>6, <3>2, <3>3, <3>4
  <2>8. CASE i /= 1
    <3>1. j \in 1 .. n /\ ~ (i <= j)
      BY <2>1, <2>3, <2>8
    <3>2. Gap(docs, i) = docs[i] - docs[j] /\ docs[i] \in Nat /\ docs[j] \in Nat
      BY <1>0, <2>1, <2>3, <2>8, <3>1 DEF Gap
    <3>3. SumFunction(g) /= docs[j]
      BY <2>2, <2>3, <2>6, <3>2
    <3> QED BY <2>3, <3>1, <3>3
  <2> QED BY <2>7, <2>8
<1>3. Bad = {}
  <2>1. Bad \in SUBSET Nat
    OBVIOUS
  <2> HIDE DEF Bad
  <2> QED BY <1>2, <2>1, LeastNatural
<1> QED BY <1>1, <1>3


-----------------------------------------------------------------------------
\* What is written says what it was written from.

HeaderType ==
  [version : Nat, numLists : Nat, numDocuments : Nat, totalLists : Nat, totalDocuments : Nat,
   tokens : Nat, average : Nat]
PostingType == [document : Nat, frequency : Nat]
ListType == [term : Nat, df : Nat, cf : Nat, postings : Seq(PostingType)]
RecordType == [document : Nat, external : Nat, length : Nat]

HeaderValues(h) ==
  <<h.version, h.numLists, h.numDocuments, h.totalLists, h.totalDocuments, h.tokens, h.average>>
ListValues(list) == <<list.term, list.df, list.cf>>
RecordValues(record) == <<record.document, record.external, record.length>>

Fits(types, values, n, wire, v) ==
  /\ n \in DOMAIN types
  /\ types[n].wire = wire
  /\ values[n] = v /\ v \in types[n].values

Extends(longer, message, n, wire, v) == longer = message \o Scalar(n, wire, v)

LEMMA FieldAdds ==
  ASSUME NEW k \in Nat, NEW n, n = k + 1,
         NEW types, NEW values, NEW wire, NEW v, Fits(types, values, n, wire, v),
         NEW message, TellsUpTo(message, k, types, values),
         NEW longer, Extends(longer, message, n, wire, v)
  PROVE  TellsUpTo(longer, n, types, values)
<1>1. TellsUpTo(message \o Scalar(n, wire, values[n]), n, types, values)
  BY ScalarAdds DEF Fits
<1> QED BY <1>1 DEF Fits, Extends

LEMMA FirstField ==
  ASSUME NEW types, NEW values, NEW wire, NEW v, Fits(types, values, 1, wire, v)
  PROVE  TellsUpTo(Scalar(1, wire, v), 1, types, values)
<1> DEFINE first == Scalar(1, wire, v)
<1>1. first = <<>> \o first
  BY DEF Scalar
<1>2. PICK none : none = <<>>
  OBVIOUS
<1>3. TellsUpTo(none, 0, types, values)
  BY <1>2, NothingTells
<1>4. Extends(first, none, 1, wire, v)
  BY <1>1, <1>2 DEF Extends
<1> HIDE DEF first
<1>5. TellsUpTo(first, 1, types, values)
  BY ONLY <1>3, <1>4, Fits(types, values, 1, wire, v), FieldAdds
<1> QED BY <1>5 DEF first

LEMMA RecordTells ==
  ASSUME NEW record \in RecordType, NEW total, ValidRecord(record, total)
  PROVE  Tells(WriteRecord(record), RecordTypes, RecordValues(record))
<1> DEFINE types == RecordTypes
           values == RecordValues(record)
           m1 == Scalar(1, "varint", record.document)
           m2 == m1 \o Scalar(2, "bytes", record.external)
           m3 == m2 \o Scalar(3, "varint", record.length)
<1>1. /\ record.document \in Int32.values /\ record.external \in Bytes.values
      /\ record.length \in Int32.values
  BY CiffAssumption DEF RecordType, ValidRecord, Int32, Bytes
<1>2. /\ Fits(types, values, 1, "varint", record.document)
      /\ Fits(types, values, 2, "bytes", record.external)
      /\ Fits(types, values, 3, "varint", record.length)
  <2>1. types[1] = Int32 /\ types[2] = Bytes /\ types[3] = Int32 /\ DOMAIN types = 1 .. 3
    BY DEF RecordTypes
  <2>2. values[1] = record.document /\ values[2] = record.external /\ values[3] = record.length
    BY DEF RecordValues
  <2>3. Int32.wire = "varint" /\ Bytes.wire = "bytes"
    BY DEF Int32, Bytes
  <2> HIDE DEF types, values
  <2> QED BY <1>1, <2>1, <2>2, <2>3 DEF Fits
<1>3. DOMAIN types = 1 .. 3
  BY DEF RecordTypes
<1>4. WriteRecord(record) = m3
  BY DEF WriteRecord
<1> HIDE DEF types, values
<1>5. TellsUpTo(m1, 1, types, values)
  BY <1>2, FirstField
<1> HIDE DEF m1
<1>6. TellsUpTo(m2, 2, types, values)
  <2>1. Extends(m2, m1, 2, "bytes", record.external)
    BY DEF Extends
  <2> QED BY <1>2, <1>5, <2>1, FieldAdds
<1> HIDE DEF m2
<1>7. TellsUpTo(m3, 3, types, values)
  <2>1. Extends(m3, m2, 3, "varint", record.length)
    BY DEF Extends
  <2> QED BY <1>2, <1>6, <2>1, FieldAdds
<1> QED BY <1>3, <1>4, <1>7 DEF TellsUpTo, Tells, types, values


LEMMA OneMemberIs ==
  ASSUME NEW x
  PROVE  /\ IsSequence(<<x>>) /\ Len(<<x>>) = 1 /\ DOMAIN <<x>> = 1 .. 1
         /\ <<x>>[1] = x
<1> DEFINE one == <<x>>
<1>1. one \in Seq({x}) /\ Len(one) = 1 /\ DOMAIN one = 1 .. 1 /\ one[1] = x
  OBVIOUS
<1> HIDE DEF one
<1>2. IsSequence(one)
  BY ONLY <1>1, SeqIsSequence
<1> QED BY <1>1, <1>2 DEF one

FirstOf(items, k) == [i \in 1 .. k |-> items[i]]
Singletons(items, n) == [i \in 1 .. n |-> <<items[i]>>]

LEMMA SingletonsFlatten ==
  ASSUME NEW n \in Nat, NEW items
  PROVE  FlattenSeq(Singletons(items, n)) = FirstOf(items, n)
<1> DEFINE seqs == Singletons(items, n)
           f == CHOOSE f : Flattens(f, seqs, n)
           Bad == {k \in 1 .. n : f[k] /= FirstOf(items, k)}
<1>1. /\ Len(seqs) = n
      /\ \A k \in 1 .. n : seqs[k] = <<items[k]>>
  <2>1. seqs = [k \in 1 .. n |-> seqs[k]]
    BY DEF Singletons
  <2>2. \A k \in 1 .. n : seqs[k] = <<items[k]>>
    BY DEF Singletons
  <2> HIDE DEF seqs
  <2>3. Len(seqs) = n
    BY <2>1, FunctionIsSequence
  <2> QED BY <2>2, <2>3
<1>2. n /= 0 => Flattens(f, seqs, n)
  <2> HIDE DEF seqs
  <2>1. n /= 0 => \E g : Flattens(g, seqs, n)
    BY FlattenedExists
  <2> QED BY <2>1
<1>3. FlattenSeq(seqs) = IF n = 0 THEN seqs ELSE f[n]
  BY <1>1 DEF FlattenSeq, Flattens
<1> HIDE DEF f
<1>4. \A k \in 1 .. n : IsSequence(FirstOf(items, k)) /\ Len(FirstOf(items, k)) = k
                        /\ DOMAIN FirstOf(items, k) = 1 .. k
  <2> TAKE k \in 1 .. n
  <2> DEFINE g == FirstOf(items, k)
  <2>1. g = [i \in 1 .. k |-> g[i]] /\ k \in Nat
    BY DEF FirstOf
  <2> HIDE DEF g
  <2>2. IsSequence(g) /\ Len(g) = k /\ DOMAIN g = 1 .. k
    BY <2>1, FunctionIsSequence
  <2> QED BY <2>2 DEF g
<1>5. ASSUME NEW k \in Bad PROVE \E l \in Bad : ~(k <= l)
  <2>1. k \in 1 .. n /\ f[k] /= FirstOf(items, k) /\ seqs[k] = <<items[k]>>
    BY <1>1
  <2> HIDE DEF seqs
  <2>2. f[k] = IF k = 1 THEN seqs[k] ELSE f[k - 1] \o seqs[k]
    <3>1. n /= 0
      BY <2>1
    <3>2. Flattens(f, seqs, n)
      BY <1>2, <3>1
    <3> HIDE DEF Bad
    <3> QED BY <2>1, <3>2 DEF Flattens
  <2>3. k /= 1
    <3> SUFFICES ASSUME k = 1 PROVE FALSE
      OBVIOUS
    <3>1. <<items[1]>> = FirstOf(items, 1)
      BY DEF FirstOf
    <3> QED BY <2>1, <2>2, <3>1
  <2>4. k - 1 \in 1 .. n /\ ~ (k <= k - 1)
    BY <2>1, <2>3
  <2>5. f[k - 1] /= FirstOf(items, k - 1)
    <3> SUFFICES ASSUME f[k - 1] = FirstOf(items, k - 1) PROVE FALSE
      OBVIOUS
    <3> DEFINE s == FirstOf(items, k - 1)
               t == <<items[k]>>
               joined == s \o t
    <3>1. IsSequence(s) /\ Len(s) = k - 1 /\ DOMAIN s = 1 .. k - 1
      BY <1>4, <2>4
    <3>2. IsSequence(t) /\ Len(t) = 1 /\ DOMAIN t = 1 .. 1 /\ t[1] = items[k]
      BY OneMemberIs
    <3>3. \A i \in 1 .. k - 1 : s[i] = items[i]
      BY DEF FirstOf
    <3>4. f[k] = joined
      BY <2>1, <2>2, <2>3
    <3> HIDE DEF s, t
    <3>5. Joins(s, t, joined)
      BY <3>1, <3>2, JoinedSequences
    <3> HIDE DEF joined
    <3>6. joined = [i \in 1 .. k |-> joined[i]]
      <4>1. Len(joined) = k
        BY <2>1, <3>1, <3>2, <3>5 DEF Joins
      <4> QED BY <3>5, <4>1 DEF Joins, IsSequence
    <3>7. \A i \in 1 .. k : joined[i] = items[i]
      <4>1. \A i \in 1 .. k - 1 : joined[i] = items[i]
        BY <3>1, <3>3, <3>5 DEF Joins
      <4>2. 1 \in DOMAIN t /\ Len(s) + 1 = k
        BY <2>1, <3>1, <3>2
      <4>3. joined[Len(s) + 1] = t[1]
        BY <3>5, <4>2 DEF Joins
      <4>4. joined[k] = items[k]
        BY <3>2, <4>2, <4>3
      <4>5. \A i \in 1 .. k : i \in 1 .. k - 1 \/ i = k
        BY <2>1
      <4> QED BY <4>1, <4>4, <4>5
    <3>8. joined = FirstOf(items, k)
      BY <3>6, <3>7 DEF FirstOf
    <3> QED BY <2>1, <3>4, <3>8
  <2> QED BY <2>4, <2>5
<1>6. Bad = {}
  <2>1. Bad \in SUBSET Nat
    OBVIOUS
  <2> HIDE DEF Bad
  <2> QED BY <1>5, <2>1, LeastNatural
<1>7. CASE n = 0
  <2>1. seqs = FirstOf(items, n)
    BY <1>7 DEF Singletons, FirstOf
  <2> QED BY <1>3, <1>7, <2>1
<1>8. CASE n /= 0
  <2>1. n \in 1 .. n
    BY <1>8
  <2> QED BY <1>3, <1>6, <1>8, <2>1
<1> QED BY <1>7, <1>8


DocsOf(list) == [i \in DOMAIN list.postings |-> list.postings[i].document]
PostingValues(list, i) == <<Gap(DocsOf(list), i), list.postings[i].frequency>>

\* Neighbours ascend, so all do.
LEMMA NeighboursAscend ==
  ASSUME NEW n \in Nat, NEW f \in [1 .. n -> Nat], \A i \in 1 .. n - 1 : f[i] < f[i + 1]
  PROVE  \A i, j \in 1 .. n : i < j => f[i] < f[j]
<1> SUFFICES ASSUME NEW i \in 1 .. n PROVE \A j \in 1 .. n : i < j => f[i] < f[j]
  OBVIOUS
<1> DEFINE Bad == {j \in 1 .. n : i < j /\ ~ (f[i] < f[j])}
<1>0. \A j \in 1 .. n : f[j] \in Nat
  OBVIOUS
<1>1. ASSUME NEW j \in Bad PROVE \E l \in Bad : ~(j <= l)
  <2>1. j \in 1 .. n /\ i < j /\ ~ (f[i] < f[j])
    OBVIOUS
  <2>2. PICK l : l = j - 1
    OBVIOUS
  <2>3. l \in 1 .. n - 1 /\ l \in 1 .. n /\ l + 1 = j /\ ~ (j <= l) /\ (i = l \/ i < l)
    BY <2>1, <2>2
  <2>4. f[l] < f[j]
    BY <2>3
  <2>5. i < l /\ ~ (f[i] < f[l])
    <3>1. f[i] \in Nat /\ f[l] \in Nat /\ f[j] \in Nat
      BY <1>0, <2>1, <2>3
    <3>2. i /= l
      BY <2>1, <2>4
    <3> QED BY <2>1, <2>3, <2>4, <3>1, <3>2
  <2> QED BY <2>3, <2>5
<1>2. Bad = {}
  <2>1. Bad \in SUBSET Nat
    OBVIOUS
  <2> HIDE DEF Bad
  <2> QED BY <1>1, <2>1, LeastNatural
<1> QED BY <1>2

LEMMA PostingsAre ==
  ASSUME NEW list \in ListType, NEW total, ValidList(list, total)
  PROVE  /\ Len(list.postings) \in Nat \ {0}
         /\ DOMAIN list.postings = 1 .. Len(list.postings)
         /\ DocsOf(list) \in [1 .. Len(list.postings) -> Nat]
         /\ \A i, j \in 1 .. Len(list.postings) : i < j => DocsOf(list)[i] < DocsOf(list)[j]
         /\ \A i \in 1 .. Len(list.postings) :
              /\ list.postings[i] \in PostingType
              /\ DocsOf(list)[i] = list.postings[i].document
              /\ list.postings[i].document <= MaxInt
              /\ list.postings[i].frequency \in 1 .. MaxInt
<1> DEFINE postings == list.postings
           n == Len(postings)
           docs == DocsOf(list)
<1>1. postings \in Seq(PostingType)
  BY DEF ListType
<1>2. n \in Nat /\ DOMAIN postings = 1 .. n /\ \A i \in 1 .. n : postings[i] \in PostingType
  <2> HIDE DEF postings
  <2> QED BY <1>1, SeqElements
<1>3. /\ n \in 1 .. total
      /\ \A i \in 1 .. n : postings[i].document <= MaxInt /\ postings[i].frequency \in 1 .. MaxInt
      /\ \A i \in 1 .. n - 1 : postings[i].document < postings[i + 1].document
  BY <1>2 DEF ValidList, ValidPosting
<1>4. \A i \in 1 .. n : docs[i] = postings[i].document
  BY <1>2 DEF DocsOf
<1>5. docs \in [1 .. n -> Nat]
  <2>1. \A i \in 1 .. n : postings[i].document \in Nat
    BY <1>2 DEF PostingType
  <2> QED BY <1>2, <2>1 DEF DocsOf
<1> HIDE DEF postings, n, docs
<1>6. n \in Nat \ {0}
  BY <1>2, <1>3
<1>7. \A i \in 1 .. n - 1 : docs[i] < docs[i + 1]
  <2> TAKE i \in 1 .. n - 1
  <2>1. i \in 1 .. n /\ i + 1 \in 1 .. n
    BY <1>6
  <2> QED BY <1>3, <1>4, <2>1
<1>8. \A i, j \in 1 .. n : i < j => docs[i] < docs[j]
  BY <1>5, <1>6, <1>7, NeighboursAscend
<1> QED BY <1>2, <1>3, <1>4, <1>5, <1>6, <1>8 DEF postings, n, docs

LEMMA PostingTells ==
  ASSUME NEW list \in ListType, NEW total, ValidList(list, total), NEW i \in DOMAIN list.postings
  PROVE  /\ Tells(WritePosting(list.postings, i), PostingTypes, PostingValues(list, i))
         /\ WritePosting(list.postings, i) /= <<>>
<1> DEFINE types == PostingTypes
           values == PostingValues(list, i)
           gap == Gap(DocsOf(list), i)
           frequency == list.postings[i].frequency
           m1 == Scalar(1, "varint", gap)
           m2 == m1 \o Scalar(2, "varint", frequency)
           n == Len(list.postings)
           docs == DocsOf(list)
<1>1. /\ n \in Nat /\ i \in 1 .. n /\ docs \in [1 .. n -> Nat]
      /\ \A j, k \in 1 .. n : j < k => docs[j] < docs[k]
      /\ \A j \in 1 .. n : docs[j] = list.postings[j].document /\ docs[j] <= MaxInt
      /\ frequency \in 1 .. MaxInt
  BY PostingsAre
<1>2. gap = list.postings[i].document - (IF i = 1 THEN 0 ELSE list.postings[i - 1].document)
  <2>1. i /= 1 => i - 1 \in 1 .. n
    BY <1>1
  <2> QED BY <1>1, <2>1 DEF Gap
<1>3. WritePosting(list.postings, i) = m2
  BY <1>2 DEF WritePosting
<1> HIDE DEF docs, n
<1>4. gap \in 0 .. MaxInt
  <2>1. Gap(docs, i) \in Nat
    BY <1>1, GapsAddUp
  <2>2. Gap(docs, i) <= docs[i]
    <3>1. CASE i = 1
      BY <1>1, <3>1 DEF Gap
    <3>2. CASE i /= 1
      <4>1. i - 1 \in 1 .. n
        BY <1>1, <3>2
      <4>2. docs[i - 1] \in Nat /\ docs[i] \in Nat
        BY <1>1, <4>1
      <4> QED BY <3>2, <4>2 DEF Gap
    <3> QED BY <3>1, <3>2
  <2>3. docs[i] \in Nat /\ docs[i] <= MaxInt /\ MaxInt \in Nat
    BY <1>1, CiffAssumption
  <2> QED BY <2>1, <2>2, <2>3 DEF docs
<1>5. Fits(types, values, 1, "varint", gap) /\ Fits(types, values, 2, "varint", frequency)
  <2>1. types[1] = Int32 /\ types[2] = Int32 /\ DOMAIN types = 1 .. 2
    BY DEF PostingTypes
  <2>2. values[1] = gap /\ values[2] = frequency
    BY DEF PostingValues
  <2>3. Int32.wire = "varint" /\ gap \in Int32.values /\ frequency \in Int32.values
    BY <1>1, <1>4, CiffAssumption DEF Int32
  <2> HIDE DEF types, values, gap, frequency
  <2> QED BY <2>1, <2>2, <2>3 DEF Fits
<1>6. DOMAIN types = 1 .. 2
  BY DEF PostingTypes
<1> HIDE DEF types, values, gap, frequency
<1>7. TellsUpTo(m1, 1, types, values)
  BY <1>5, FirstField
<1>8. m2 /= <<>>
  <2>1. Scalar(2, "varint", frequency) = <<Field(2, "varint", frequency)>>
    BY <1>1 DEF Scalar
  <2>2. PICK one : one = <<Field(2, "varint", frequency)>>
    OBVIOUS
  <2>3. IsSequence(one) /\ Len(one) = 1
    BY <2>2, OneMemberIs
  <2>4. IsSequence(m1)
    BY <1>7 DEF TellsUpTo
  <2> HIDE DEF m1
  <2>5. Joins(m1, one, m1 \o one)
    BY <2>3, <2>4, JoinedSequences
  <2>6. Len(m1 \o one) = Len(m1) + 1 /\ Len(m1) \in Nat
    BY <2>3, <2>4, <2>5 DEF Joins, IsSequence
  <2>7. m2 = m1 \o one
    BY <2>1, <2>2
  <2>8. Len(<<>>) = 0
    OBVIOUS
  <2> QED BY <2>6, <2>7, <2>8
<1> HIDE DEF m1
<1>9. TellsUpTo(m2, 2, types, values)
  <2>1. Extends(m2, m1, 2, "varint", frequency)
    BY DEF Extends
  <2> QED BY <1>5, <1>7, <2>1, FieldAdds
<1> QED BY <1>3, <1>6, <1>8, <1>9 DEF TellsUpTo, Tells, types, values


LEMMA TailIsSkipped ==
  ASSUME NEW types, NEW values, NEW message, Tells(message, types, values),
         NEW tail, IsSequence(tail), \A i \in DOMAIN tail : tail[i].number \notin DOMAIN types,
         NEW whole, Joins(message, tail, whole)
  PROVE  Tells(whole, types, values)
<1> DEFINE l == Len(message)
           n == Len(tail)
<1>1. /\ l \in Nat /\ DOMAIN message = 1 .. l
      /\ n \in Nat /\ DOMAIN tail = 1 .. n
  BY SequenceIs DEF Tells
<1>2. /\ IsSequence(whole) /\ DOMAIN whole = 1 .. l + n
      /\ \A i \in 1 .. l : whole[i] = message[i]
      /\ \A i \in 1 .. n : whole[l + i] = tail[i]
  BY <1>1 DEF Joins
<1>3. \A i \in 1 .. l : i \in 1 .. l + n
  BY <1>1
<1> HIDE DEF l, n
<1>4. \A i \in DOMAIN whole : whole[i].number \in DOMAIN types => i \in 1 .. l
  <2> SUFFICES ASSUME NEW i \in 1 .. l + n, i \notin 1 .. l PROVE whole[i].number \notin DOMAIN types
    BY <1>2
  <2>1. i - l \in 1 .. n /\ l + (i - l) = i
    BY <1>1
  <2> QED BY <1>1, <1>2, <2>1
<1>5. Parses(whole, types)
  <2> SUFFICES ASSUME NEW i \in DOMAIN whole, whole[i].number \in DOMAIN types
               PROVE  /\ whole[i].wire = types[whole[i].number].wire
                      /\ whole[i].value \in types[whole[i].number].values
                      /\ \A j \in DOMAIN whole \ {i} : whole[j].number /= whole[i].number
    BY DEF Parses
  <2>1. i \in DOMAIN message /\ whole[i] = message[i]
    BY <1>1, <1>2, <1>4
  <2>2. /\ message[i].wire = types[message[i].number].wire
        /\ message[i].value \in types[message[i].number].values
        /\ \A j \in DOMAIN message \ {i} : message[j].number /= message[i].number
    BY <2>1 DEF Tells, Parses
  <2>3. \A j \in DOMAIN whole \ {i} : whole[j].number /= whole[i].number
    BY <1>1, <1>2, <1>4, <2>1, <2>2
  <2> QED BY <2>1, <2>2, <2>3
<1>6. ASSUME NEW m \in DOMAIN types PROVE Gives(whole, m, values[m])
  <2>1. CASE values[m] = 0 /\ \A k \in DOMAIN message : message[k].number /= m
    <3>1. \A k \in DOMAIN whole : whole[k].number /= m
      BY <1>1, <1>2, <1>4, <2>1
    <3> QED BY <2>1, <3>1 DEF Gives
  <2>2. ASSUME NEW k \in DOMAIN message, message[k].number = m, message[k].value = values[m],
               \A j \in DOMAIN message : message[j].number = m => j = k
        PROVE  Gives(whole, m, values[m])
    <3>1. k \in DOMAIN whole /\ whole[k] = message[k]
      BY <1>1, <1>2, <1>3
    <3>2. \A j \in DOMAIN whole : whole[j].number = m => j = k
      BY <1>1, <1>2, <1>4, <2>2
    <3> QED BY <2>2, <3>1, <3>2 DEF Gives
  <2>3. Gives(message, m, values[m])
    BY DEF Tells
  <2> QED BY <2>1, <2>2, <2>3 DEF Gives
<1> QED BY <1>2, <1>5, <1>6 DEF Tells

NestedOf(list) == [i \in DOMAIN list.postings |-> Field(4, "bytes", WritePosting(list.postings, i))]

SaysList(message, list) ==
  /\ Tells(message, ListTypes, ListValues(list))
  /\ Nested(message) = NestedOf(list)

LEMMA ListTells ==
  ASSUME NEW list \in ListType, NEW total, ValidList(list, total)
  PROVE  SaysList(WriteList(list), list)
<1> DEFINE types == ListTypes
           values == ListValues(list)
           m1 == Scalar(1, "bytes", list.term)
           m2 == m1 \o Scalar(2, "varint", list.df)
           m3 == m2 \o Scalar(3, "varint", list.cf)
           n == Len(list.postings)
           tail == NestedOf(list)
           messages == [i \in DOMAIN list.postings |-> Message(4, WritePosting(list.postings, i))]
<1>1. /\ n \in Nat /\ DOMAIN list.postings = 1 .. n
      /\ list.term \in Nat /\ list.df \in Nat /\ list.cf \in Nat
  BY PostingsAre DEF ListType
<1>2. tail = [i \in 1 .. n |-> tail[i]] /\ \A i \in 1 .. n : tail[i].number = 4
  BY <1>1 DEF NestedOf, Field
<1>3. messages = Singletons(tail, n)
  <2>1. \A i \in DOMAIN list.postings : WritePosting(list.postings, i) /= <<>>
    BY PostingTells
  <2>2. \A i \in 1 .. n : messages[i] = <<tail[i]>>
    BY <1>1, <2>1 DEF Message, NestedOf
  <2>3. messages = [i \in 1 .. n |-> messages[i]]
    BY <1>1
  <2> HIDE DEF messages, tail
  <2> QED BY <2>2, <2>3 DEF Singletons
<1>4. WriteList(list) = m3 \o FlattenSeq(messages)
  BY DEF WriteList
<1> HIDE DEF tail, messages
<1>5. FlattenSeq(messages) = tail
  <2>1. FlattenSeq(Singletons(tail, n)) = FirstOf(tail, n)
    BY <1>1, SingletonsFlatten
  <2>2. FirstOf(tail, n) = tail
    BY <1>2 DEF FirstOf
  <2> QED BY <1>3, <2>1, <2>2
<1>6. IsSequence(tail) /\ DOMAIN tail = 1 .. n
  BY <1>1, <1>2, FunctionIsSequence
<1>7. /\ Fits(types, values, 1, "bytes", list.term)
      /\ Fits(types, values, 2, "varint", list.df)
      /\ Fits(types, values, 3, "varint", list.cf)
  <2>1. types[1] = Bytes /\ types[2] = Int64 /\ types[3] = Int64 /\ DOMAIN types = 1 .. 3
    BY DEF ListTypes
  <2>2. values[1] = list.term /\ values[2] = list.df /\ values[3] = list.cf
    BY DEF ListValues
  <2>3. /\ Bytes.wire = "bytes" /\ Int64.wire = "varint"
        /\ list.term \in Bytes.values /\ list.df \in Int64.values /\ list.cf \in Int64.values
    BY <1>1 DEF Bytes, Int64
  <2> HIDE DEF types, values
  <2> QED BY <2>1, <2>2, <2>3 DEF Fits
<1>8. DOMAIN types = 1 .. 3
  BY DEF ListTypes
<1> HIDE DEF types, values
<1>9. TellsUpTo(m1, 1, types, values)
  BY <1>7, FirstField
<1> HIDE DEF m1
<1>10. TellsUpTo(m2, 2, types, values)
  <2>1. Extends(m2, m1, 2, "varint", list.df)
    BY DEF Extends
  <2> QED BY <1>7, <1>9, <2>1, FieldAdds
<1> HIDE DEF m2
<1>11. TellsUpTo(m3, 3, types, values)
  <2>1. Extends(m3, m2, 3, "varint", list.cf)
    BY DEF Extends
  <2> QED BY <1>7, <1>10, <2>1, FieldAdds
<1> HIDE DEF m3
<1>12. Tells(m3, types, values) /\ IsSequence(m3) /\ \A i \in DOMAIN m3 : m3[i].number /= 4
  BY <1>8, <1>11 DEF TellsUpTo, Tells
<1>13. WriteList(list) = m3 \o tail
  BY <1>4, <1>5
<1>14. Nested(m3 \o tail) = tail
  BY <1>2, <1>6, <1>12, NestedOfTail
<1>15. Tells(m3 \o tail, types, values)
  <2>1. Joins(m3, tail, m3 \o tail)
    BY <1>6, <1>12, JoinedSequences
  <2>2. \A i \in DOMAIN tail : tail[i].number \notin DOMAIN types
    BY <1>2, <1>6, <1>8
  <2> QED BY <1>6, <1>12, <2>1, <2>2, TailIsSkipped
<1> QED BY <1>13, <1>14, <1>15 DEF SaysList, types, values, tail

LEMMA HeaderTells ==
  ASSUME NEW h \in HeaderType, NEW limits, ValidHeader(h, limits)
  PROVE  Tells(WriteHeader(h), HeaderTypes, HeaderValues(h))
<1> DEFINE types == HeaderTypes
           values == HeaderValues(h)
           m1 == Scalar(1, "varint", h.version)
           m2 == m1 \o Scalar(2, "varint", h.numLists)
           m3 == m2 \o Scalar(3, "varint", h.numDocuments)
           m4 == m3 \o Scalar(4, "varint", h.totalLists)
           m5 == m4 \o Scalar(5, "varint", h.totalDocuments)
           m6 == m5 \o Scalar(6, "varint", h.tokens)
           m7 == m6 \o Scalar(7, "fixed64", h.average)
<1>1. /\ h.version \in 0 .. MaxInt /\ h.numLists \in 0 .. MaxInt /\ h.numDocuments \in 0 .. MaxInt
      /\ h.totalLists \in 0 .. MaxInt /\ h.totalDocuments \in 0 .. MaxInt
      /\ h.tokens \in Nat /\ h.average \in Nat
  BY CiffAssumption DEF HeaderType, ValidHeader, TheVersion
<1>2. /\ Fits(types, values, 1, "varint", h.version)
      /\ Fits(types, values, 2, "varint", h.numLists)
      /\ Fits(types, values, 3, "varint", h.numDocuments)
      /\ Fits(types, values, 4, "varint", h.totalLists)
      /\ Fits(types, values, 5, "varint", h.totalDocuments)
      /\ Fits(types, values, 6, "varint", h.tokens)
      /\ Fits(types, values, 7, "fixed64", h.average)
  <2>1. /\ types[1] = Int32 /\ types[2] = Int32 /\ types[3] = Int32 /\ types[4] = Int32
        /\ types[5] = Int32 /\ types[6] = Int64 /\ types[7] = Fixed64 /\ DOMAIN types = 1 .. 7
    BY DEF HeaderTypes
  <2>2. /\ values[1] = h.version /\ values[2] = h.numLists /\ values[3] = h.numDocuments
        /\ values[4] = h.totalLists /\ values[5] = h.totalDocuments /\ values[6] = h.tokens
        /\ values[7] = h.average
    BY DEF HeaderValues
  <2>3. /\ Int32.wire = "varint" /\ Int64.wire = "varint" /\ Fixed64.wire = "fixed64"
        /\ Int32.values = 0 .. MaxInt /\ Int64.values = Nat /\ Fixed64.values = Nat
    BY DEF Int32, Int64, Fixed64
  <2> HIDE DEF types, values
  <2> QED BY <1>1, <2>1, <2>2, <2>3 DEF Fits
<1>3. DOMAIN types = 1 .. 7
  BY DEF HeaderTypes
<1>4. WriteHeader(h) = m7
  BY DEF WriteHeader
<1> HIDE DEF types, values
<1>5. TellsUpTo(m1, 1, types, values)
  BY <1>2, FirstField
<1> HIDE DEF m1
<1>6. TellsUpTo(m2, 2, types, values)
  <2>1. Extends(m2, m1, 2, "varint", h.numLists)
    BY DEF Extends
  <2> QED BY <1>2, <1>5, <2>1, FieldAdds
<1> HIDE DEF m2
<1>7. TellsUpTo(m3, 3, types, values)
  <2>1. Extends(m3, m2, 3, "varint", h.numDocuments)
    BY DEF Extends
  <2> QED BY <1>2, <1>6, <2>1, FieldAdds
<1> HIDE DEF m3
<1>8. TellsUpTo(m4, 4, types, values)
  <2>1. Extends(m4, m3, 4, "varint", h.totalLists)
    BY DEF Extends
  <2> QED BY <1>2, <1>7, <2>1, FieldAdds
<1> HIDE DEF m4
<1>9. TellsUpTo(m5, 5, types, values)
  <2>1. Extends(m5, m4, 5, "varint", h.totalDocuments)
    BY DEF Extends
  <2> QED BY <1>2, <1>8, <2>1, FieldAdds
<1> HIDE DEF m5
<1>10. TellsUpTo(m6, 6, types, values)
  <2>1. Extends(m6, m5, 6, "varint", h.tokens)
    BY DEF Extends
  <2> QED BY <1>2, <1>9, <2>1, FieldAdds
<1> HIDE DEF m6
<1>11. TellsUpTo(m7, 7, types, values)
  <2>1. Extends(m7, m6, 7, "fixed64", h.average)
    BY DEF Extends
  <2> QED BY <1>2, <1>10, <2>1, FieldAdds
<1> QED BY <1>3, <1>4, <1>11 DEF TellsUpTo, Tells, types, values


-----------------------------------------------------------------------------
\* What a file says, and that what is written says the index.

IndexType == [header : HeaderType, lists : Seq(ListType), documents : Seq(RecordType)]

SaysHeader(message, h) == Tells(message, HeaderTypes, HeaderValues(h))
SaysRecord(message, record) == Tells(message, RecordTypes, RecordValues(record))

\* A header, then the lists in some order p, then the documents in some order q.
FileSays(file, ciff, p, q) ==
  /\ IsSequence(file)
  /\ Len(file) = 1 + Len(ciff.lists) + Len(ciff.documents)
  /\ Order(p, Len(ciff.lists)) /\ Order(q, Len(ciff.documents))
  /\ SaysHeader(file[1], ciff.header)
  /\ \A i \in 1 .. Len(ciff.lists) : SaysList(file[1 + i], ciff.lists[p[i]])
  /\ \A i \in 1 .. Len(ciff.documents) :
       SaysRecord(file[1 + Len(ciff.lists) + i], ciff.documents[q[i]])

LEMMA PartsAre ==
  ASSUME NEW ciff \in IndexType
  PROVE  /\ ciff.header \in HeaderType
         /\ Len(ciff.lists) \in Nat /\ Len(ciff.documents) \in Nat
         /\ DOMAIN ciff.lists = 1 .. Len(ciff.lists)
         /\ DOMAIN ciff.documents = 1 .. Len(ciff.documents)
         /\ \A i \in 1 .. Len(ciff.lists) : ciff.lists[i] \in ListType
         /\ \A i \in 1 .. Len(ciff.documents) : ciff.documents[i] \in RecordType
         /\ ciff.lists \in Seq(ListType) /\ ciff.documents \in Seq(RecordType)
<1>1. /\ ciff.header \in HeaderType
      /\ ciff.lists \in Seq(ListType) /\ ciff.documents \in Seq(RecordType)
  BY DEF IndexType
<1>2. PICK lists0, documents0 : lists0 = ciff.lists /\ documents0 = ciff.documents
  OBVIOUS
<1>3. /\ Len(lists0) \in Nat /\ DOMAIN lists0 = 1 .. Len(lists0)
      /\ \A i \in DOMAIN lists0 : lists0[i] \in ListType
  BY <1>1, <1>2, SeqElements
<1>4. /\ Len(documents0) \in Nat /\ DOMAIN documents0 = 1 .. Len(documents0)
      /\ \A i \in DOMAIN documents0 : documents0[i] \in RecordType
  BY <1>1, <1>2, SeqElements
<1> QED BY <1>1, <1>2, <1>3, <1>4

LEMMA WrittenSays ==
  ASSUME NEW ciff \in IndexType, NEW limits, Valid(ciff, limits)
  PROVE  \E p, q : FileSays(Messages(ciff), ciff, p, q)
<1> DEFINE n == Len(ciff.lists)
           m == Len(ciff.documents)
           first == <<WriteHeader(ciff.header)>>
           A == [i \in DOMAIN ciff.lists |-> WriteList(ciff.lists[i])]
           B == [i \in DOMAIN ciff.documents |-> WriteRecord(ciff.documents[i])]
           AB == first \o A
           file == AB \o B
           p == [i \in 1 .. n |-> i]
           q == [i \in 1 .. m |-> i]
<1>1. /\ ciff.header \in HeaderType /\ n \in Nat /\ m \in Nat
      /\ DOMAIN ciff.lists = 1 .. n /\ DOMAIN ciff.documents = 1 .. m
      /\ \A i \in 1 .. n : ciff.lists[i] \in ListType
      /\ \A i \in 1 .. m : ciff.documents[i] \in RecordType
  BY PartsAre
<1>2. /\ ValidHeader(ciff.header, limits)
      /\ \A i \in 1 .. n : ValidList(ciff.lists[i], ciff.header.totalDocuments)
      /\ \A i \in 1 .. m : ValidRecord(ciff.documents[i], ciff.header.totalDocuments)
  BY <1>1 DEF Valid, ToSet
<1>3. SaysHeader(first[1], ciff.header)
  BY <1>1, <1>2, HeaderTells DEF SaysHeader
<1>4. \A i \in 1 .. n : SaysList(A[i], ciff.lists[i])
  <2> TAKE i \in 1 .. n
  <2>1. A[i] = WriteList(ciff.lists[i])
    BY <1>1
  <2>2. SaysList(WriteList(ciff.lists[i]), ciff.lists[i])
    BY <1>1, <1>2, ListTells
  <2> QED BY <2>1, <2>2
<1>5. \A i \in 1 .. m : SaysRecord(B[i], ciff.documents[i])
  <2> TAKE i \in 1 .. m
  <2>1. B[i] = WriteRecord(ciff.documents[i])
    BY <1>1
  <2>2. SaysRecord(WriteRecord(ciff.documents[i]), ciff.documents[i])
    BY <1>1, <1>2, RecordTells DEF SaysRecord
  <2> QED BY <2>1, <2>2
<1>6. A = [i \in 1 .. n |-> A[i]] /\ B = [i \in 1 .. m |-> B[i]]
  BY <1>1
<1>7. IsSequence(first) /\ Len(first) = 1 /\ DOMAIN first = 1 .. 1
  <2>1. PICK x : x = WriteHeader(ciff.header)
    OBVIOUS
  <2>2. IsSequence(<<x>>) /\ Len(<<x>>) = 1 /\ DOMAIN <<x>> = 1 .. 1
    BY OneMemberIs
  <2> QED BY <2>1, <2>2
<1>8. Order(p, n) /\ Order(q, m)
  <2> HIDE DEF n, m
  <2> QED BY <1>1, GivenOrder
<1>9. Messages(ciff) = file
  BY DEF Messages
<1>10. (\A i \in 1 .. n : p[i] = i) /\ \A i \in 1 .. m : q[i] = i
  OBVIOUS
<1> HIDE DEF n, m, first, A, B, p, q
<1>11. IsSequence(A) /\ Len(A) = n /\ DOMAIN A = 1 .. n
  BY <1>1, <1>6, FunctionIsSequence
<1>12. IsSequence(B) /\ Len(B) = m /\ DOMAIN B = 1 .. m
  BY <1>1, <1>6, FunctionIsSequence
<1>13. Joins(first, A, AB)
  BY <1>7, <1>11, JoinedSequences
<1> HIDE DEF AB
<1>14. Joins(AB, B, file)
  <2>1. IsSequence(AB)
    BY <1>13 DEF Joins
  <2> QED BY <1>12, <2>1, JoinedSequences
<1> HIDE DEF file
<1>15. IsSequence(AB) /\ Len(AB) = 1 + n /\ DOMAIN AB = 1 .. 1 + n
       /\ AB[1] = first[1] /\ \A i \in 1 .. n : AB[1 + i] = A[i]
  BY <1>7, <1>11, <1>13 DEF Joins
<1>16. /\ IsSequence(file) /\ Len(file) = 1 + n + m
       /\ \A i \in 1 .. 1 + n : file[i] = AB[i]
       /\ \A i \in 1 .. m : file[1 + n + i] = B[i]
  BY <1>12, <1>14, <1>15 DEF Joins
<1>17. file[1] = first[1] /\ \A i \in 1 .. n : file[1 + i] = A[i]
  <2>1. 1 \in 1 .. 1 + n /\ \A i \in 1 .. n : 1 + i \in 1 .. 1 + n
    BY <1>1
  <2> QED BY <1>15, <1>16, <2>1
<1>18. FileSays(file, ciff, p, q)
  <2>1. \A i \in 1 .. n : SaysList(file[1 + i], ciff.lists[p[i]])
    BY <1>4, <1>10, <1>17
  <2>2. \A i \in 1 .. m : SaysRecord(file[1 + n + i], ciff.documents[q[i]])
    BY <1>5, <1>10, <1>16
  <2>3. SaysHeader(file[1], ciff.header)
    BY <1>3, <1>17
  <2> QED BY <1>8, <1>16, <2>1, <2>2, <2>3 DEF FileSays, n, m
<1> QED BY <1>9, <1>18

\* A file that says something is a file.
LEMMA SayingIsFile ==
  ASSUME NEW ciff \in IndexType, NEW file, NEW p, NEW q, FileSays(file, ciff, p, q)
  PROVE  IsFile(file)
<1> DEFINE n == Len(ciff.lists)
           m == Len(ciff.documents)
<1>1. n \in Nat /\ m \in Nat
  BY PartsAre
<1>2. /\ IsSequence(file) /\ DOMAIN file = 1 .. 1 + n + m
      /\ IsSequence(file[1])
      /\ \A i \in 1 .. n : IsSequence(file[1 + i])
      /\ \A i \in 1 .. m : IsSequence(file[1 + n + i])
  BY SequenceIs DEF FileSays, SaysHeader, SaysList, SaysRecord, Tells
<1> HIDE DEF n, m
<1>3. ASSUME NEW i \in 1 .. 1 + n + m PROVE IsSequence(file[i])
  <2>1. CASE i = 1
    BY <1>2, <2>1
  <2>2. CASE i \in 2 .. 1 + n
    <3>1. i - 1 \in 1 .. n /\ 1 + (i - 1) = i
      BY <1>1, <2>2
    <3> QED BY <1>2, <3>1
  <2>3. CASE i \in 2 + n .. 1 + n + m
    <3>1. i - 1 - n \in 1 .. m /\ 1 + n + (i - 1 - n) = i
      BY <1>1, <2>3
    <3> QED BY <1>2, <3>1
  <2> QED BY <1>1, <2>1, <2>2, <2>3
<1> QED BY <1>2, <1>3 DEF IsFile


\* No rearrangement changes what a file says.
LEMMA PartsSwapped ==
  ASSUME NEW ciff \in IndexType, ciff.header.numLists = Len(ciff.lists),
         NEW file, NEW p, NEW q, FileSays(file, ciff, p, q),
         NEW i \in 2 .. Len(file) - 1,
         (i + 1 <= 1 + Value(file[1], 2)) \/ (i > 1 + Value(file[1], 2))
  PROVE  \E a, b : FileSays(Swapped(file, i), ciff, a, b)
<1> DEFINE n == Len(ciff.lists)
           m == Len(ciff.documents)
           other == Swapped(file, i)
           l == 1 + n + m
<1>1. /\ n \in Nat /\ m \in Nat
      /\ IsSequence(file) /\ Len(file) = l
      /\ Order(p, n) /\ Order(q, m)
      /\ SaysHeader(file[1], ciff.header)
      /\ \A k \in 1 .. n : SaysList(file[1 + k], ciff.lists[p[k]])
      /\ \A k \in 1 .. m : SaysRecord(file[1 + n + k], ciff.documents[q[k]])
  BY PartsAre DEF FileSays
<1>2. Value(file[1], 2) = n
  <2>1. 2 \in DOMAIN HeaderTypes /\ HeaderValues(ciff.header)[2] = n
    BY DEF HeaderTypes, HeaderValues
  <2>2. Gives(file[1], 2, HeaderValues(ciff.header)[2])
    BY <1>1, <2>1 DEF SaysHeader, Tells
  <2> QED BY <2>1, <2>2, GivesValue
<1> HIDE DEF n, m
<1>3. /\ IsSequence(other) /\ Len(other) = l /\ i \in 2 .. l - 1
      /\ \A k \in 1 .. l : other[k] = file[SwapOf(i, k)]
  <2> HIDE DEF l
  <2>1. i \in 2 .. l - 1
    BY <1>1
  <2>2. l \in Nat
    BY <1>1 DEF l
  <2>3. i \in 1 .. Len(file) - 1
    BY <1>1, <2>1, <2>2
  <2> QED BY <1>1, <2>1, <2>3, SwappedIs
<1>4. (i <= n) \/ (i > 1 + n)
  BY <1>1, <1>2, <1>3
<1> HIDE DEF n, m, other, l
<1>5. other[1] = file[1]
  <2>1. 1 \in 1 .. l /\ SwapOf(i, 1) = 1
    BY <1>1, <1>3 DEF SwapOf, l
  <2> QED BY <1>3, <2>1
<1>6. CASE i <= n
  <2> DEFINE j == i - 1
             a == Swapped(p, j)
  <2>1. j \in 1 .. n - 1
    BY <1>1, <1>3, <1>6
  <2>2. Order(a, n) /\ \A k \in 1 .. n : a[k] = p[SwapOf(j, k)]
    <3> HIDE DEF j
    <3> QED BY <1>1, <2>1, SwappedOrder
  <2>3. \A k \in 1 .. n : SwapOf(j, k) \in 1 .. n /\ SwapOf(i, 1 + k) = 1 + SwapOf(j, k) /\ 1 + k \in 1 .. l
    BY <1>1, <1>3, <1>6 DEF SwapOf, l
  <2>4. \A k \in 1 .. m : SwapOf(i, 1 + n + k) = 1 + n + k /\ 1 + n + k \in 1 .. l
    BY <1>1, <1>3, <1>6 DEF SwapOf, l
  <2> HIDE DEF j, a
  <2>5. \A k \in 1 .. n : SaysList(other[1 + k], ciff.lists[a[k]])
    <3> TAKE k \in 1 .. n
    <3>1. other[1 + k] = file[1 + SwapOf(j, k)]
      BY <1>3, <2>3
    <3>2. PICK h \in 1 .. n : h = SwapOf(j, k)
      BY <2>3
    <3>3. SaysList(file[1 + h], ciff.lists[p[h]])
      BY <1>1
    <3> QED BY <2>2, <3>1, <3>2, <3>3
  <2>6. \A k \in 1 .. m : SaysRecord(other[1 + n + k], ciff.documents[q[k]])
    BY <1>1, <1>3, <2>4
  <2>7. FileSays(other, ciff, a, q)
    BY <1>1, <1>3, <1>5, <2>2, <2>5, <2>6 DEF FileSays, n, m, l
  <2> QED BY <2>7 DEF other
<1>7. CASE i > 1 + n
  <2> DEFINE j == i - 1 - n
             b == Swapped(q, j)
  <2>1. j \in 1 .. m - 1
    BY <1>1, <1>3, <1>7 DEF l
  <2>2. Order(b, m) /\ \A k \in 1 .. m : b[k] = q[SwapOf(j, k)]
    <3> HIDE DEF j
    <3> QED BY <1>1, <2>1, SwappedOrder
  <2>3. \A k \in 1 .. n : SwapOf(i, 1 + k) = 1 + k /\ 1 + k \in 1 .. l
    BY <1>1, <1>3, <1>7 DEF SwapOf, l
  <2>4. \A k \in 1 .. m : /\ SwapOf(j, k) \in 1 .. m /\ SwapOf(i, 1 + n + k) = 1 + n + SwapOf(j, k)
                          /\ 1 + n + k \in 1 .. l
    BY <1>1, <1>3, <1>7 DEF SwapOf, l
  <2> HIDE DEF j, b
  <2>5. \A k \in 1 .. n : SaysList(other[1 + k], ciff.lists[p[k]])
    BY <1>1, <1>3, <2>3
  <2>6. \A k \in 1 .. m : SaysRecord(other[1 + n + k], ciff.documents[b[k]])
    <3> TAKE k \in 1 .. m
    <3>1. other[1 + n + k] = file[1 + n + SwapOf(j, k)]
      BY <1>3, <2>4
    <3>2. PICK h \in 1 .. m : h = SwapOf(j, k)
      BY <2>4
    <3>3. SaysRecord(file[1 + n + h], ciff.documents[q[h]])
      BY <1>1
    <3> QED BY <2>2, <3>1, <3>2, <3>3
  <2>7. FileSays(other, ciff, p, b)
    BY <1>1, <1>3, <1>5, <2>2, <2>5, <2>6 DEF FileSays, n, m, l
  <2> QED BY <2>7 DEF other
<1> QED BY <1>4, <1>6, <1>7

\* A message that says whatever another says can take its place.
SaysAsMuch(new, old) ==
  /\ \A h : SaysHeader(old, h) => SaysHeader(new, h)
  /\ \A list : SaysList(old, list) => SaysList(new, list)
  /\ \A record : SaysRecord(old, record) => SaysRecord(new, record)

LEMMA MessageReplaced ==
  ASSUME NEW ciff \in IndexType, NEW file, NEW p, NEW q, FileSays(file, ciff, p, q),
         NEW i \in DOMAIN file, NEW new, SaysAsMuch(new, file[i])
  PROVE  FileSays([file EXCEPT ![i] = new], ciff, p, q)
<1> DEFINE n == Len(ciff.lists)
           m == Len(ciff.documents)
           other == [file EXCEPT ![i] = new]
           l == 1 + n + m
<1>1. /\ n \in Nat /\ m \in Nat
      /\ IsSequence(file) /\ Len(file) = l
      /\ Order(p, n) /\ Order(q, m)
      /\ SaysHeader(file[1], ciff.header)
      /\ \A k \in 1 .. n : SaysList(file[1 + k], ciff.lists[p[k]])
      /\ \A k \in 1 .. m : SaysRecord(file[1 + n + k], ciff.documents[q[k]])
  BY PartsAre DEF FileSays
<1>2. l \in Nat /\ DOMAIN file = 1 .. l
  BY <1>1, SequenceIs
<1> HIDE DEF n, m
<1>3. other = [k \in 1 .. l |-> other[k]] /\ \A k \in 1 .. l : other[k] = IF k = i THEN new ELSE file[k]
  BY <1>2
<1>4. /\ 1 \in 1 .. l
      /\ \A k \in 1 .. n : 1 + k \in 1 .. l
      /\ \A k \in 1 .. m : 1 + n + k \in 1 .. l
  BY <1>1
<1> HIDE DEF n, m, other, l
<1>5. IsSequence(other) /\ Len(other) = l
  BY <1>2, <1>3, FunctionIsSequence
<1>6. SaysHeader(other[1], ciff.header)
  BY <1>1, <1>3, <1>4 DEF SaysAsMuch
<1>7. \A k \in 1 .. n : SaysList(other[1 + k], ciff.lists[p[k]])
  <2> TAKE k \in 1 .. n
  <2>1. SaysList(file[1 + k], ciff.lists[p[k]]) /\ 1 + k \in 1 .. l
    BY <1>1, <1>4
  <2> QED BY <1>3, <2>1 DEF SaysAsMuch
<1>8. \A k \in 1 .. m : SaysRecord(other[1 + n + k], ciff.documents[q[k]])
  <2> TAKE k \in 1 .. m
  <2>1. SaysRecord(file[1 + n + k], ciff.documents[q[k]]) /\ 1 + n + k \in 1 .. l
    BY <1>1, <1>4
  <2> QED BY <1>3, <2>1 DEF SaysAsMuch
<1> QED BY <1>1, <1>5, <1>6, <1>7, <1>8 DEF FileSays, n, m, l, other

LEMMA FieldsSwapped ==
  ASSUME NEW message, IsSequence(message), NEW j \in 1 .. Len(message) - 1,
         message[j].number /= message[j + 1].number
  PROVE  SaysAsMuch(Swapped(message, j), message)
<1>1. Nested(Swapped(message, j)) = Nested(message)
  BY NestedOfSwapped
<1>2. \A types, values : Tells(message, types, values) => Tells(Swapped(message, j), types, values)
  BY SwappedTells
<1> QED BY <1>1, <1>2 DEF SaysAsMuch, SaysHeader, SaysList, SaysRecord

LEMMA UnknownAdded ==
  ASSUME NEW message, IsSequence(message)
  PROVE  SaysAsMuch(Append(message, Unknown), message)
<1>1. Nested(Append(message, Unknown)) = Nested(message)
  BY NestedOfUnknown
<1>2. /\ 9 \notin DOMAIN HeaderTypes
      /\ 9 \notin DOMAIN ListTypes
      /\ 9 \notin DOMAIN RecordTypes
  BY DEF HeaderTypes, ListTypes, RecordTypes
<1>3. \A types, values : 9 \notin DOMAIN types /\ Tells(message, types, values)
                           => Tells(Append(message, Unknown), types, values)
  BY UnknownIsSkipped
<1> QED BY <1>1, <1>2, <1>3 DEF SaysAsMuch, SaysHeader, SaysList, SaysRecord


-----------------------------------------------------------------------------
\* What is said is read.

LEMMA ToldIsRead ==
  ASSUME NEW message, NEW types, NEW values, Tells(message, types, values)
  PROVE  Parses(message, types) /\ \A n \in DOMAIN types : Value(message, n) = values[n]
<1>1. \A n \in DOMAIN types : Gives(message, n, values[n])
  BY DEF Tells
<1> QED BY <1>1, GivesValue DEF Tells

LEMMA HeaderReads ==
  ASSUME NEW h \in HeaderType, SaysHeader(Current, h)
  PROVE  Parses(Current, HeaderTypes) /\ ParsedHeader = h
<1> DEFINE m == Current
           types == HeaderTypes
           values == HeaderValues(h)
<1>1. Tells(m, types, values)
  BY DEF SaysHeader
<1>2. DOMAIN types = 1 .. 7
  BY DEF HeaderTypes
<1>3. /\ values[1] = h.version /\ values[2] = h.numLists /\ values[3] = h.numDocuments
      /\ values[4] = h.totalLists /\ values[5] = h.totalDocuments /\ values[6] = h.tokens
      /\ values[7] = h.average
  BY DEF HeaderValues
<1>4. ParsedHeader =
        [version |-> Value(m, 1), numLists |-> Value(m, 2), numDocuments |-> Value(m, 3),
         totalLists |-> Value(m, 4), totalDocuments |-> Value(m, 5), tokens |-> Value(m, 6),
         average |-> Value(m, 7)]
  BY DEF ParsedHeader
<1> HIDE DEF m, types, values
<1>5. Parses(m, types) /\ \A n \in DOMAIN types : Value(m, n) = values[n]
  BY <1>1, ToldIsRead
<1>6. /\ Value(m, 1) = h.version /\ Value(m, 2) = h.numLists /\ Value(m, 3) = h.numDocuments
      /\ Value(m, 4) = h.totalLists /\ Value(m, 5) = h.totalDocuments /\ Value(m, 6) = h.tokens
      /\ Value(m, 7) = h.average
  BY <1>2, <1>3, <1>5
<1>7. h = [version |-> h.version, numLists |-> h.numLists, numDocuments |-> h.numDocuments,
           totalLists |-> h.totalLists, totalDocuments |-> h.totalDocuments,
           tokens |-> h.tokens, average |-> h.average]
  BY DEF HeaderType
<1>8. ParsedHeader = h
  BY <1>4, <1>6, <1>7
<1> QED BY <1>5, <1>8 DEF m, types

LEMMA RecordReads ==
  ASSUME NEW record \in RecordType, SaysRecord(Current, record)
  PROVE  Parses(Current, RecordTypes) /\ ParsedRecord = record
<1> DEFINE m == Current
           types == RecordTypes
           values == RecordValues(record)
<1>1. Tells(m, types, values)
  BY DEF SaysRecord
<1>2. DOMAIN types = 1 .. 3
  BY DEF RecordTypes
<1>3. values[1] = record.document /\ values[2] = record.external /\ values[3] = record.length
  BY DEF RecordValues
<1>4. ParsedRecord = [document |-> Value(m, 1), external |-> Value(m, 2), length |-> Value(m, 3)]
  BY DEF ParsedRecord
<1> HIDE DEF m, types, values
<1>5. Parses(m, types) /\ \A n \in DOMAIN types : Value(m, n) = values[n]
  BY <1>1, ToldIsRead
<1>6. /\ Value(m, 1) = record.document /\ Value(m, 2) = record.external
      /\ Value(m, 3) = record.length
  BY <1>2, <1>3, <1>5
<1>7. record = [document |-> record.document, external |-> record.external, length |-> record.length]
  BY DEF RecordType
<1>8. ParsedRecord = record
  BY <1>4, <1>6, <1>7
<1> QED BY <1>5, <1>8 DEF m, types

LEMMA ListReads ==
  ASSUME NEW list \in ListType, NEW total, ValidList(list, total), SaysList(Current, list)
  PROVE  /\ Parses(Current, ListTypes)
         /\ ParsedList = list
         /\ \A i \in DOMAIN NestedPostings :
              NestedPostings[i].wire = "bytes" /\ Parses(NestedPostings[i].value, PostingTypes)
         /\ Len(NestedPostings) = Len(list.postings)
         /\ DocumentAt(Len(NestedPostings)) <= 2 * MaxInt + 1
<1> DEFINE m == Current
           types == ListTypes
           values == ListValues(list)
           n == Len(list.postings)
           docs == DocsOf(list)
           nested == NestedPostings
<1>1. Tells(m, types, values) /\ nested = NestedOf(list)
  BY DEF SaysList, NestedPostings
<1>2. DOMAIN types = 1 .. 3
  BY DEF ListTypes
<1>3. values[1] = list.term /\ values[2] = list.df /\ values[3] = list.cf
  BY DEF ListValues
<1>4. ParsedList = [term |-> Value(m, 1), df |-> Value(m, 2), cf |-> Value(m, 3),
                    postings |-> ParsedPostings]
  BY DEF ParsedList
<1>5. /\ n \in Nat \ {0} /\ DOMAIN list.postings = 1 .. n /\ docs \in [1 .. n -> Nat]
      /\ \A i, j \in 1 .. n : i < j => docs[i] < docs[j]
      /\ \A i \in 1 .. n : /\ list.postings[i] \in PostingType
                           /\ docs[i] = list.postings[i].document /\ docs[i] <= MaxInt
  BY PostingsAre
<1>6. /\ nested = [i \in 1 .. n |-> nested[i]]
      /\ \A i \in 1 .. n : nested[i].wire = "bytes" /\ nested[i].value = WritePosting(list.postings, i)
  <2> HIDE DEF nested, n
  <2> QED BY <1>1, <1>5 DEF NestedOf, Field
<1>7. \A i \in 1 .. n : /\ Parses(nested[i].value, PostingTypes)
                        /\ Value(nested[i].value, 1) = Gap(docs, i)
                        /\ Value(nested[i].value, 2) = list.postings[i].frequency
  <2> TAKE i \in 1 .. n
  <2>1. Tells(WritePosting(list.postings, i), PostingTypes, PostingValues(list, i))
    BY <1>5, PostingTells
  <2>2. DOMAIN PostingTypes = 1 .. 2
    BY DEF PostingTypes
  <2>3. PostingValues(list, i)[1] = Gap(docs, i) /\ PostingValues(list, i)[2] = list.postings[i].frequency
    BY DEF PostingValues
  <2>4. PICK w : w = nested[i].value
    OBVIOUS
  <2>5. Tells(w, PostingTypes, PostingValues(list, i))
    BY <1>6, <2>1, <2>4
  <2>6. Parses(w, PostingTypes) /\ \A k \in DOMAIN PostingTypes : Value(w, k) = PostingValues(list, i)[k]
    BY <2>5, ToldIsRead
  <2>7. 1 \in DOMAIN PostingTypes /\ 2 \in DOMAIN PostingTypes
    BY <2>2
  <2> QED BY <2>3, <2>4, <2>6, <2>7
<1> HIDE DEF m, types, values, n, docs
<1>8. Parses(m, types) /\ \A k \in DOMAIN types : Value(m, k) = values[k]
  BY <1>1, ToldIsRead
<1>9. Value(m, 1) = list.term /\ Value(m, 2) = list.df /\ Value(m, 3) = list.cf
  BY <1>2, <1>3, <1>8
<1>10. Len(nested) = n /\ DOMAIN nested = 1 .. n
  <2> HIDE DEF nested
  <2> QED BY <1>5, <1>6, FunctionIsSequence
<1>11. \A i \in 1 .. n : DocumentAt(i) = docs[i]
  <2> SUFFICES ASSUME NEW i \in 1 .. n PROVE DocumentAt(i) = docs[i]
    OBVIOUS
  <2>1. DocumentAt(i) = SumFunction([k \in 1 .. i |-> Value(nested[k].value, 1)])
    BY DEF DocumentAt
  <2> HIDE DEF nested
  <2>2. \A k \in 1 .. i : k \in 1 .. n
    BY <1>5
  <2>3. [k \in 1 .. i |-> Value(nested[k].value, 1)] = GapsUpTo(docs, i)
    BY <1>7, <2>2 DEF GapsUpTo
  <2>4. SumFunction(GapsUpTo(docs, i)) = docs[i]
    BY <1>5, GapsAddUp
  <2> QED BY <2>1, <2>3, <2>4
<1>12. ParsedPostings = list.postings
  <2>1. ParsedPostings = [i \in DOMAIN nested |-> [document |-> DocumentAt(i),
                                                   frequency |-> Value(nested[i].value, 2)]]
    BY DEF ParsedPostings
  <2> HIDE DEF nested
  <2>2. \A i \in 1 .. n : [document |-> DocumentAt(i), frequency |-> Value(nested[i].value, 2)]
                            = list.postings[i]
    <3> TAKE i \in 1 .. n
    <3>1. list.postings[i] = [document |-> list.postings[i].document,
                              frequency |-> list.postings[i].frequency]
      BY <1>5 DEF PostingType
    <3> QED BY <1>5, <1>7, <1>11, <3>1
  <2>3. ParsedPostings = [i \in 1 .. n |-> list.postings[i]]
    BY <1>10, <2>1, <2>2
  <2>4. list.postings = [i \in 1 .. n |-> list.postings[i]]
    <3>1. list.postings \in Seq(PostingType)
      BY DEF ListType
    <3>2. list.postings = [i \in DOMAIN list.postings |-> list.postings[i]]
      BY <3>1
    <3> QED BY <1>5, <3>2
  <2> QED BY <2>3, <2>4
<1>13. ParsedList = list
  <2>1. list = [term |-> list.term, df |-> list.df, cf |-> list.cf, postings |-> list.postings]
    BY DEF ListType
  <2> QED BY <1>4, <1>9, <1>12, <2>1
<1>14. DocumentAt(n) <= 2 * MaxInt + 1
  <2>1. n \in 1 .. n
    BY <1>5
  <2>2. DocumentAt(n) = docs[n] /\ docs[n] <= MaxInt /\ docs[n] \in Nat
    BY <1>5, <1>11, <2>1
  <2>3. MaxInt \in Nat
    BY CiffAssumption
  <2> QED BY <2>2, <2>3
<1>15. \A i \in DOMAIN nested : nested[i].wire = "bytes" /\ Parses(nested[i].value, PostingTypes)
  <2> HIDE DEF nested
  <2> QED BY <1>6, <1>7, <1>10
<1> QED BY <1>8, <1>10, <1>13, <1>14, <1>15 DEF m, types, n

\* What is read so far and the next list keep within the limit that holds for all of them.
LEMMA PostingsFit ==
  ASSUME NEW ciff \in IndexType, NEW p, Order(p, Len(ciff.lists)),
         NEW some, IsSequence(some), Len(some) < Len(ciff.lists),
         \A i \in 1 .. Len(some) : some[i] = ciff.lists[p[i]]
  PROVE  /\ PostingCount(some) + Len(ciff.lists[p[Len(some) + 1]].postings) <= PostingCount(ciff.lists)
         /\ PostingCount(some) \in Nat /\ PostingCount(ciff.lists) \in Nat
         /\ Len(ciff.lists[p[Len(some) + 1]].postings) \in Nat
<1> DEFINE n == Len(ciff.lists)
           k == Len(some)
           all == ciff.lists
           sizes == [i \in 1 .. n |-> Len(all[i].postings)]
           r == k + 1
           f == [i \in 1 .. r |-> sizes[p[i]]]
           g == [i \in DOMAIN some |-> Len(some[i].postings)]
<1>1. /\ n \in Nat /\ DOMAIN all = 1 .. n
      /\ \A i \in 1 .. n : all[i] \in ListType
  BY PartsAre
<1>2. k \in Nat /\ DOMAIN some = 1 .. k /\ k < n /\ \A i \in 1 .. k : some[i] = all[p[i]]
  BY SequenceIs
<1>3. \A i \in 1 .. n : p[i] \in 1 .. n
  BY DEF Order
<1>4. \A i \in 1 .. n : sizes[i] = Len(all[i].postings) /\ sizes[i] \in Nat
  <2> TAKE i \in 1 .. n
  <2>1. PICK s : s = all[i].postings
    OBVIOUS
  <2>2. s \in Seq(PostingType)
    BY <1>1, <2>1 DEF ListType
  <2>3. Len(s) \in Nat
    BY <2>2
  <2> QED BY <2>1, <2>3
<1>5. PostingCount(all) = SumFunction(sizes) /\ PostingCount(some) = SumFunction(g)
  BY <1>1 DEF PostingCount
<1>6. sizes \in [1 .. n -> Nat]
  BY <1>4
<1>7. Order(p, n)
  OBVIOUS
<1> HIDE DEF n, k, all, sizes
<1>8. r \in 0 .. n /\ r \in 1 .. n /\ 1 .. r = 1 .. k \union {r} /\ r \notin 1 .. k
  BY <1>1, <1>2
<1>9. \A i \in 1 .. r : f[i] = sizes[p[i]] /\ f[i] \in Nat
  <2>1. \A i \in 1 .. r : i \in 1 .. n
    BY <1>1, <1>8
  <2> QED BY <1>3, <1>4, <2>1
<1>10. DOMAIN f = 1 .. r /\ DOMAIN g = 1 .. k /\ IsFiniteSet(1 .. k)
  BY <1>2, FS_Interval
<1>11. \A i \in 1 .. k : g[i] = f[i]
  <2> TAKE i \in 1 .. k
  <2>1. i \in 1 .. r /\ i \in 1 .. n
    BY <1>1, <1>2
  <2>2. g[i] = Len(all[p[i]].postings)
    BY <1>2
  <2>3. p[i] \in 1 .. n
    BY <1>3, <2>1
  <2> QED BY <1>4, <1>9, <2>1, <2>2, <2>3
<1>12. SumFunction(f) <= SumFunction(sizes)
  <2> HIDE DEF r
  <2> QED BY <1>6, <1>7, <1>8, SomeAreFewer
<1> HIDE DEF f, g, r
<1>13. OneMore(f, g, 1 .. k, r)
  <2>1. DOMAIN f = 1 .. k \union {r}
    BY ONLY <1>8, <1>10
  <2>2. \A i \in 1 .. k \union {r} : f[i] \in Int
    BY ONLY <1>8, <1>9
  <2> QED BY ONLY <1>8, <1>10, <1>11, <2>1, <2>2 DEF OneMore
<1>14. SumFunction(f) = SumFunction(g) + f[r]
  BY <1>13, OneMoreAdds
<1>15. f[r] = Len(all[p[r]].postings)
  <2>1. r \in 1 .. r /\ p[r] \in 1 .. n
    BY <1>3, <1>8
  <2> QED BY <1>4, <1>9, <2>1
<1>16. SumFunction(g) \in Nat
  <2>1. \A i \in 1 .. k : g[i] \in Nat
    BY <1>8, <1>9, <1>11
  <2> QED BY <1>10, <2>1, SumOfNaturals
<1>17. SumFunction(sizes) \in Nat
  <2>1. DOMAIN sizes = 1 .. n /\ \A i \in 1 .. n : sizes[i] \in Nat
    BY <1>6
  <2>2. IsFiniteSet(1 .. n)
    BY <1>1, FS_Interval
  <2> QED BY <2>1, <2>2, SumOfNaturals
<1>18. f[r] \in Nat
  BY <1>8, <1>9
<1> QED BY <1>5, <1>12, <1>14, <1>15, <1>16, <1>17, <1>18 DEF r, k, all


-----------------------------------------------------------------------------
\* What is assembled.

Ordered(ciff) ==
  /\ \A i, j \in 1 .. Len(ciff.lists) : i < j => ciff.lists[i].term < ciff.lists[j].term
  /\ \A i, j \in 1 .. Len(ciff.documents) :
       i < j => ciff.documents[i].document < ciff.documents[j].document

Members(seq, n) == seq = [i \in 1 .. n |-> seq[i]]

LEMMA ArrangedRestores ==
  ASSUME NEW n, NEW p, Order(p, n), NEW keys, Climbs(keys, n), NEW seq, Members(seq, n),
         NEW mixed, mixed = Through(seq, p, n), NEW given, given = Through(keys, p, n)
  PROVE  Arranged(mixed, given) = seq
<1> DEFINE o == OrderOf(given)
<1>1. \A k \in 1 .. n : o[k] \in 1 .. n /\ p[o[k]] = k
  BY SortingRestores
<1>2. Arranged(mixed, given) = [k \in DOMAIN mixed |-> mixed[o[k]]]
  BY DEF Arranged
<1> HIDE DEF o
<1>3. DOMAIN mixed = 1 .. n /\ \A k \in 1 .. n : mixed[o[k]] = seq[k]
  BY <1>1 DEF Through
<1> QED BY <1>2, <1>3 DEF Members

LEMMA AssembledIs ==
  ASSUME NEW ciff \in IndexType, Ordered(ciff),
         NEW p, Order(p, Len(ciff.lists)), NEW q, Order(q, Len(ciff.documents)),
         NEW l, l = Through(ciff.lists, p, Len(ciff.lists)),
         NEW d, d = Through(ciff.documents, q, Len(ciff.documents))
  PROVE  Assembled(ciff.header, l, d) = ciff
<1> DEFINE n == Len(ciff.lists)
           m == Len(ciff.documents)
           all == ciff.lists
           records == ciff.documents
           terms == [i \in 1 .. n |-> all[i].term]
           numbers == [i \in 1 .. m |-> records[i].document]
           given == [i \in DOMAIN l |-> l[i].term]
           told == [i \in DOMAIN d |-> d[i].document]
<1>1. /\ n \in Nat /\ m \in Nat /\ DOMAIN all = 1 .. n /\ DOMAIN records = 1 .. m
      /\ \A i \in 1 .. n : all[i] \in ListType
      /\ \A i \in 1 .. m : records[i] \in RecordType
      /\ all \in Seq(ListType) /\ records \in Seq(RecordType)
  BY PartsAre
<1>2. all = [i \in 1 .. n |-> all[i]] /\ records = [i \in 1 .. m |-> records[i]]
  <2> HIDE DEF all, records
  <2>1. IsSequence(all) /\ IsSequence(records)
    BY <1>1, SeqIsSequence
  <2>2. Len(all) = n /\ Len(records) = m
    BY DEF all, records
  <2> HIDE DEF n, m
  <2> QED BY <2>1, <2>2 DEF IsSequence
<1>3. /\ l = [i \in 1 .. n |-> all[p[i]]] /\ d = [i \in 1 .. m |-> records[q[i]]]
      /\ Order(p, n) /\ Order(q, m)
  BY DEF Through
<1>4. /\ \A i, j \in 1 .. n : i < j => all[i].term < all[j].term
      /\ \A i, j \in 1 .. m : i < j => records[i].document < records[j].document
  BY DEF Ordered
<1>5. ciff = [header |-> ciff.header, lists |-> all, documents |-> records]
  BY DEF IndexType
<1>6. Assembled(ciff.header, l, d) =
        [header |-> ciff.header, lists |-> Arranged(l, given), documents |-> Arranged(d, told)]
  BY DEF Assembled
<1> HIDE DEF n, m, all, records
<1>7. terms \in [1 .. n -> Nat] /\ numbers \in [1 .. m -> Nat]
  BY <1>1 DEF ListType, RecordType
<1>8. (\A i \in 1 .. n : p[i] \in 1 .. n) /\ \A i \in 1 .. m : q[i] \in 1 .. m
  BY <1>3 DEF Order
<1>9. given = [i \in 1 .. n |-> terms[p[i]]]
  <2>1. \A i \in 1 .. n : l[i].term = terms[p[i]]
    BY <1>3, <1>8
  <2> QED BY <1>3, <2>1
<1>10. told = [i \in 1 .. m |-> numbers[q[i]]]
  <2>1. \A i \in 1 .. m : d[i].document = numbers[q[i]]
    BY <1>3, <1>8
  <2> QED BY <1>3, <2>1
<1>11. /\ \A i, j \in 1 .. n : i < j => terms[i] < terms[j]
       /\ \A i, j \in 1 .. m : i < j => numbers[i] < numbers[j]
  BY <1>4
<1> HIDE DEF terms, numbers, given, told
<1>12. /\ Climbs(terms, n) /\ Climbs(numbers, m) /\ Members(all, n) /\ Members(records, m)
       /\ l = Through(all, p, n) /\ given = Through(terms, p, n)
       /\ d = Through(records, q, m) /\ told = Through(numbers, q, m)
  <2>1. Climbs(terms, n) /\ Climbs(numbers, m)
    BY <1>1, <1>7, <1>11 DEF Climbs
  <2>2. Members(all, n) /\ Members(records, m)
    BY <1>2 DEF Members
  <2>3. l = Through(all, p, n) /\ d = Through(records, q, m)
    BY <1>3 DEF Through
  <2>4. given = Through(terms, p, n) /\ told = Through(numbers, q, m)
    BY <1>9, <1>10 DEF Through
  <2> QED BY <2>1, <2>2, <2>3, <2>4
<1>13. Order(p, n) /\ Order(q, m)
  BY <1>3
<1>14. Arranged(l, given) = all
  BY ONLY <1>12, <1>13, ArrangedRestores
<1>15. Arranged(d, told) = records
  BY ONLY <1>12, <1>13, ArrangedRestores
<1> QED BY <1>5, <1>6, <1>14, <1>15

\* Sorted, different numbers ascend.
LEMMA ArrangedAscends ==
  ASSUME NEW n \in Nat, NEW keys \in [1 .. n -> Nat], NEW seq, seq = [i \in 1 .. n |-> seq[i]],
         NEW T, \A i \in 1 .. n : seq[i] \in T
  PROVE  /\ Arranged(seq, keys) \in Seq(T) /\ Len(Arranged(seq, keys)) = n
         /\ \A i \in 1 .. n : OrderOf(keys)[i] \in 1 .. n
                              /\ Arranged(seq, keys)[i] = seq[OrderOf(keys)[i]]
         /\ \A i, j \in 1 .. n : i < j => keys[OrderOf(keys)[i]] <= keys[OrderOf(keys)[j]]
<1> DEFINE o == OrderOf(keys)
           arranged == Arranged(seq, keys)
<1>1. Order(o, n) /\ \A i, j \in 1 .. n : i < j => keys[o[i]] <= keys[o[j]]
  BY OrderOfIs
<1>2. arranged = [k \in DOMAIN seq |-> seq[o[k]]] /\ DOMAIN seq = 1 .. n
  BY DEF Arranged
<1> HIDE DEF o, arranged
<1>3. \A i \in 1 .. n : o[i] \in 1 .. n /\ arranged[i] = seq[o[i]]
  BY <1>1, <1>2 DEF Order
<1>4. arranged \in [1 .. n -> T]
  BY <1>2, <1>3
<1>5. arranged \in Seq(T) /\ Len(arranged) = n
  BY <1>4, FunctionIsSeq
<1> QED BY <1>1, <1>3, <1>5 DEF o, arranged

LEMMA AssembledIsTyped ==
  ASSUME NEW h \in HeaderType,
         NEW l, IsSequence(l), \A i \in DOMAIN l : l[i] \in ListType,
         NEW d, IsSequence(d), \A i \in DOMAIN d : d[i] \in RecordType,
         NEW limits, Valid(Assembled(h, l, d), limits)
  PROVE  Assembled(h, l, d) \in IndexType /\ Ordered(Assembled(h, l, d))
<1> DEFINE n == Len(l)
           m == Len(d)
           given == [i \in DOMAIN l |-> l[i].term]
           told == [i \in DOMAIN d |-> d[i].document]
           all == Arranged(l, given)
           records == Arranged(d, told)
           ciff == Assembled(h, l, d)
<1>1. ciff = [header |-> h, lists |-> all, documents |-> records]
  BY DEF Assembled
<1>2. /\ n \in Nat /\ DOMAIN l = 1 .. n /\ l = [i \in 1 .. n |-> l[i]]
      /\ m \in Nat /\ DOMAIN d = 1 .. m /\ d = [i \in 1 .. m |-> d[i]]
  BY SequenceIs DEF IsSequence
<1>3. /\ Distinct(all, LAMBDA list : list.term)
      /\ Distinct(records, LAMBDA record : record.document)
  <2> HIDE DEF all, records, ciff
  <2> QED BY <1>1 DEF Valid, ciff
<1>4. /\ \A i, j \in DOMAIN all : all[i].term = all[j].term => i = j
      /\ \A i, j \in DOMAIN records : records[i].document = records[j].document => i = j
  <2> HIDE DEF all, records
  <2> QED BY <1>3 DEF Distinct
<1> HIDE DEF n, m, all, records, ciff
<1>5. given \in [1 .. n -> Nat] /\ told \in [1 .. m -> Nat]
  BY <1>2 DEF ListType, RecordType
<1>6. (\A i \in 1 .. n : given[i] = l[i].term) /\ \A i \in 1 .. m : told[i] = d[i].document
  BY <1>2
<1> HIDE DEF given, told
<1>7. /\ all \in Seq(ListType) /\ Len(all) = n
      /\ \A i \in 1 .. n : OrderOf(given)[i] \in 1 .. n /\ all[i] = l[OrderOf(given)[i]]
      /\ \A i, j \in 1 .. n : i < j => given[OrderOf(given)[i]] <= given[OrderOf(given)[j]]
  BY <1>2, <1>5, ArrangedAscends DEF all
<1>8. /\ records \in Seq(RecordType) /\ Len(records) = m
      /\ \A i \in 1 .. m : OrderOf(told)[i] \in 1 .. m /\ records[i] = d[OrderOf(told)[i]]
      /\ \A i, j \in 1 .. m : i < j => told[OrderOf(told)[i]] <= told[OrderOf(told)[j]]
  BY <1>2, <1>5, ArrangedAscends DEF records
<1>9. ciff \in IndexType
  BY <1>1, <1>7, <1>8 DEF IndexType
<1>10. \A i, j \in 1 .. n : i < j => all[i].term < all[j].term
  <2> TAKE i, j \in 1 .. n
  <2> HAVE i < j
  <2>1. all[i].term = given[OrderOf(given)[i]] /\ all[j].term = given[OrderOf(given)[j]]
    BY <1>6, <1>7
  <2>2. given[OrderOf(given)[i]] \in Nat /\ given[OrderOf(given)[j]] \in Nat
    BY <1>5, <1>7
  <2>3. all[i].term /= all[j].term
    <3>1. DOMAIN all = 1 .. n
      BY <1>7
    <3> QED BY <1>2, <1>4, <3>1
  <2> QED BY <1>7, <2>1, <2>2, <2>3
<1>11. \A i, j \in 1 .. m : i < j => records[i].document < records[j].document
  <2> TAKE i, j \in 1 .. m
  <2> HAVE i < j
  <2>1. records[i].document = told[OrderOf(told)[i]] /\ records[j].document = told[OrderOf(told)[j]]
    BY <1>6, <1>8
  <2>2. told[OrderOf(told)[i]] \in Nat /\ told[OrderOf(told)[j]] \in Nat
    BY <1>5, <1>8
  <2>3. records[i].document /= records[j].document
    <3>1. DOMAIN records = 1 .. m
      BY <1>8
    <3> QED BY <1>2, <1>4, <3>1
  <2> QED BY <1>8, <2>1, <2>2, <2>3
<1>12. Ordered(ciff)
  BY <1>1, <1>7, <1>8, <1>10, <1>11 DEF Ordered
<1> QED BY <1>9, <1>12 DEF ciff


-----------------------------------------------------------------------------
\* What is exported.

AverageIsNatural == \A tokens, count \in Nat : Average(tokens, count) \in Nat

LEMMA FrequencyIsNatural ==
  ASSUME NEW document \in Documents, NEW t \in Terms
  PROVE  Frequency(document, t) \in Nat
<1> DEFINE f == [field \in Fields |-> document.tf[field][t]]
<1>1. document.tf \in [Fields -> [Terms -> Nat]] /\ IsFiniteSet(Fields)
  BY FilesAssumption, CiffAssumption
<1>2. DOMAIN f = Fields /\ \A field \in Fields : f[field] \in Nat
  BY <1>1
<1>3. Frequency(document, t) = SumFunction(f)
  BY DEF Frequency
<1> HIDE DEF f
<1> QED BY <1>1, <1>2, <1>3, SumOfNaturals

LEMMA LengthIsNatural ==
  ASSUME NEW document \in Documents
  PROVE  LengthOf(document) \in Nat
<1> DEFINE f == [t \in Terms |-> Frequency(document, t)]
<1>1. IsFiniteSet(Terms)
  BY CiffAssumption
<1>2. DOMAIN f = Terms /\ \A t \in Terms : f[t] \in Nat
  BY FrequencyIsNatural
<1>3. LengthOf(document) = SumFunction(f)
  BY DEF LengthOf
<1> HIDE DEF f
<1> QED BY <1>1, <1>2, <1>3, SumOfNaturals

LEMMA NativeIs ==
  ASSUME native \in Seq(Documents)
  PROVE  /\ Len(native) \in Nat /\ DOMAIN native = 1 .. Len(native)
         /\ \A i \in 1 .. Len(native) : native[i] \in Documents
BY SeqElements

HolderSet(t) == {d \in 0 .. Len(native) - 1 : Frequency(native[d + 1], t) > 0}

LEMMA HoldersAre ==
  ASSUME native \in Seq(Documents), NEW t \in Terms
  PROVE  /\ Enumerates(Holding(t), Cardinality(HolderSet(t)), HolderSet(t))
         /\ \A d \in HolderSet(t) : d \in Nat /\ native[d + 1] \in Documents
<1> DEFINE n == Len(native)
           S == HolderSet(t)
<1>1. n \in Nat /\ \A i \in 1 .. n : native[i] \in Documents
  BY NativeIs
<1>2. S \subseteq 0 .. n - 1
  BY DEF HolderSet
<1>3. Holding(t) = InOrder(S)
  BY DEF Holding, HolderSet
<1> HIDE DEF n, S
<1>4. IsFiniteSet(0 .. n - 1) /\ 0 .. n - 1 \subseteq Nat
  BY <1>1, FS_Interval
<1>5. S \in SUBSET Nat /\ IsFiniteSet(S)
  BY <1>2, <1>4, FS_Subset
<1>6. Enumerates(InOrder(S), Cardinality(S), S)
  BY <1>5, InOrderIs
<1>7. \A d \in S : d \in Nat /\ native[d + 1] \in Documents
  <2> TAKE d \in S
  <2>1. d \in 0 .. n - 1
    BY <1>2
  <2>2. d \in Nat /\ d + 1 \in 1 .. n
    BY <1>1, <2>1
  <2> QED BY <1>1, <2>2
<1> QED BY <1>3, <1>6, <1>7 DEF S

LEMMA FlatListIsTyped ==
  ASSUME native \in Seq(Documents), NEW t \in Terms
  PROVE  FlatList(t) \in ListType /\ FlatList(t).term = t
<1> DEFINE held == Holding(t)
           n == Cardinality(HolderSet(t))
           postings == [i \in DOMAIN held |-> [document |-> held[i],
                                               frequency |-> Frequency(native[held[i] + 1], t)]]
           f == [i \in DOMAIN postings |-> postings[i].frequency]
<1>1. /\ n \in Nat /\ DOMAIN held = 1 .. n
      /\ \A i \in 1 .. n : held[i] \in Nat /\ native[held[i] + 1] \in Documents
  <2>1. Enumerates(held, n, HolderSet(t)) /\ \A d \in HolderSet(t) : d \in Nat /\ native[d + 1] \in Documents
    BY HoldersAre
  <2> HIDE DEF held, n
  <2>2. held = [k \in 1 .. n |-> held[k]]
    BY <2>1 DEF Enumerates
  <2>3. DOMAIN held = 1 .. n
    BY <2>2
  <2> QED BY <2>1, <2>3 DEF Enumerates
<1>2. FlatList(t) = [term |-> t, df |-> Len(postings), cf |-> SumOfFrequencies(postings),
                     postings |-> postings]
  BY DEF FlatList
<1>3. SumOfFrequencies(postings) = SumFunction(f)
  BY DEF SumOfFrequencies
<1> HIDE DEF held, n
<1>4. \A i \in 1 .. n : postings[i] \in PostingType
  <2> TAKE i \in 1 .. n
  <2>1. Frequency(native[held[i] + 1], t) \in Nat
    BY <1>1, FrequencyIsNatural
  <2> QED BY <1>1, <2>1 DEF PostingType
<1>5. DOMAIN postings = 1 .. n
  BY <1>1
<1>6. postings \in [1 .. n -> PostingType]
  BY <1>1, <1>4
<1> HIDE DEF postings
<1>7. postings \in Seq(PostingType) /\ Len(postings) = n
  BY <1>1, <1>6, FunctionIsSeq
<1>8. SumFunction(f) \in Nat
  <2>1. DOMAIN f = 1 .. n /\ \A i \in 1 .. n : f[i] \in Nat
    BY <1>4, <1>5 DEF PostingType
  <2>2. IsFiniteSet(1 .. n)
    BY <1>1, FS_Interval
  <2> HIDE DEF f
  <2> QED BY <2>1, <2>2, SumOfNaturals
<1>9. t \in Nat
  BY CiffAssumption
<1> QED BY <1>1, <1>2, <1>3, <1>7, <1>8, <1>9 DEF ListType

LEMMA FlattenedIs ==
  ASSUME native \in Seq(Documents), AverageIsNatural
  PROVE  Flattened \in IndexType /\ Ordered(Flattened)
<1> DEFINE n == Len(native)
           S == {t \in Terms : Holding(t) /= <<>>}
           m == Cardinality(S)
           terms == InOrder(S)
           lengths == [i \in DOMAIN Records |-> Records[i].length]
           tokens == SumFunction(lengths)
           h == [version |-> TheVersion, numLists |-> Len(FlatLists), numDocuments |-> Len(native),
                 totalLists |-> Len(FlatLists), totalDocuments |-> Len(native),
                 tokens |-> tokens, average |-> Average(tokens, Len(native))]
<1>1. n \in Nat /\ DOMAIN native = 1 .. n /\ \A i \in 1 .. n : native[i] \in Documents
  BY NativeIs
<1>2. Flattened = [header |-> h, lists |-> FlatLists, documents |-> Records]
  BY DEF Flattened
<1>3. Enumerates(terms, m, S)
  <2>1. S \subseteq Terms /\ IsFiniteSet(Terms) /\ Terms \subseteq Nat
    BY CiffAssumption
  <2> HIDE DEF S
  <2>2. S \in SUBSET Nat /\ IsFiniteSet(S)
    BY <2>1, FS_Subset
  <2> QED BY <2>2, InOrderIs
<1>4. S \subseteq Terms
  OBVIOUS
<1>5. FlatLists = [i \in DOMAIN terms |-> FlatList(terms[i])]
  BY DEF FlatLists
<1> HIDE DEF n, S, m, terms
<1>6. /\ m \in Nat /\ DOMAIN terms = 1 .. m
      /\ \A i \in 1 .. m : terms[i] \in Terms
      /\ \A i, j \in 1 .. m : i < j => terms[i] < terms[j]
  <2>1. terms = [i \in 1 .. m |-> terms[i]]
    BY <1>3 DEF Enumerates
  <2>2. DOMAIN terms = 1 .. m
    BY <2>1
  <2> QED BY <1>3, <1>4, <2>2 DEF Enumerates
<1>7. FlatLists \in Seq(ListType) /\ Len(FlatLists) = m
  <2>1. FlatLists \in [1 .. m -> ListType]
    <3>1. \A i \in 1 .. m : FlatList(terms[i]) \in ListType
      BY <1>6, FlatListIsTyped
    <3> QED BY <1>5, <1>6, <3>1
  <2>2. PICK f : f = FlatLists
    OBVIOUS
  <2>3. f \in Seq(ListType) /\ Len(f) = m
    BY <1>6, <2>1, <2>2, FunctionIsSeq
  <2> QED BY <2>2, <2>3
<1>8. \A i, j \in 1 .. m : i < j => FlatLists[i].term < FlatLists[j].term
  <2>1. \A i \in 1 .. m : FlatLists[i].term = terms[i]
    <3> TAKE i \in 1 .. m
    <3>1. FlatList(terms[i]).term = terms[i]
      BY <1>6, FlatListIsTyped
    <3> QED BY <1>5, <1>6, <3>1
  <2> QED BY <1>6, <2>1
<1>9. Records = [i \in 1 .. n |-> [document |-> i - 1, external |-> native[i].id, length |-> LengthOf(native[i])]]
  BY <1>1 DEF Records
<1>10. \A i \in 1 .. n : Records[i] \in RecordType /\ Records[i].document = i - 1
  <2> TAKE i \in 1 .. n
  <2>1. LengthOf(native[i]) \in Nat /\ native[i].id \in Nat
    BY <1>1, LengthIsNatural, FilesAssumption
  <2>2. i - 1 \in Nat
    BY <1>1
  <2> QED BY <1>9, <2>1, <2>2 DEF RecordType
<1>11. Records \in Seq(RecordType) /\ Len(Records) = n /\ DOMAIN Records = 1 .. n
  <2>1. Records \in [1 .. n -> RecordType]
    BY <1>9, <1>10
  <2>2. PICK f : f = Records
    OBVIOUS
  <2>3. f \in Seq(RecordType) /\ Len(f) = n
    BY <1>1, <2>1, <2>2, FunctionIsSeq
  <2> QED BY <1>9, <2>2, <2>3
<1>12. \A i, j \in 1 .. n : i < j => Records[i].document < Records[j].document
  BY <1>1, <1>10
<1>13. tokens \in Nat
  <2>1. DOMAIN lengths = 1 .. n /\ \A i \in 1 .. n : lengths[i] \in Nat
    BY <1>10, <1>11 DEF RecordType
  <2>2. IsFiniteSet(1 .. n)
    BY <1>1, FS_Interval
  <2> HIDE DEF lengths
  <2> QED BY <2>1, <2>2, SumOfNaturals
<1> HIDE DEF tokens
<1>14. h \in HeaderType
  <2>1. Len(native) \in Nat /\ Average(tokens, Len(native)) \in Nat
    BY <1>1, <1>13 DEF AverageIsNatural, n
  <2> QED BY <1>6, <1>7, <1>13, <2>1 DEF HeaderType, TheVersion
<1> HIDE DEF h
<1>15. Flattened \in IndexType
  BY <1>2, <1>7, <1>11, <1>14 DEF IndexType
<1>16. Ordered(Flattened)
  <2>1. Flattened.lists = FlatLists /\ Flattened.documents = Records
    BY <1>2
  <2> QED BY <1>7, <1>8, <1>11, <1>12, <2>1 DEF Ordered
<1> QED BY <1>15, <1>16


-----------------------------------------------------------------------------
\* Whatever is read has its type.

LEMMA ValuesAreNumbers ==
  ASSUME NEW message, NEW types, Parses(message, types),
         \A n \in DOMAIN types : types[n].values \subseteq Nat
  PROVE  \A n \in DOMAIN types : Value(message, n) \in Nat
<1> TAKE n \in DOMAIN types
<1> DEFINE present == {i \in DOMAIN message : message[i].number = n}
<1>1. Value(message, n) = IF present = {} THEN 0 ELSE message[CHOOSE i \in present : TRUE].value
  BY DEF Value
<1>2. ASSUME NEW i \in present PROVE message[i].value \in Nat
  BY DEF Parses
<1>3. present /= {} => (CHOOSE i \in present : TRUE) \in present
  OBVIOUS
<1> HIDE DEF present
<1> QED BY <1>1, <1>2, <1>3

LEMMA ParsedHeaderIsTyped ==
  ASSUME Parses(Current, HeaderTypes)
  PROVE  ParsedHeader \in HeaderType
<1> DEFINE m == Current
           types == HeaderTypes
<1>1. DOMAIN types = 1 .. 7 /\ \A n \in DOMAIN types : types[n].values \subseteq Nat
  BY CiffAssumption DEF HeaderTypes, Int32, Int64, Fixed64
<1>2. ParsedHeader =
        [version |-> Value(m, 1), numLists |-> Value(m, 2), numDocuments |-> Value(m, 3),
         totalLists |-> Value(m, 4), totalDocuments |-> Value(m, 5), tokens |-> Value(m, 6),
         average |-> Value(m, 7)]
  BY DEF ParsedHeader
<1> HIDE DEF m, types
<1>3. \A n \in DOMAIN types : Value(m, n) \in Nat
  <2>1. Parses(m, types)
    BY DEF m, types
  <2> QED BY <1>1, <2>1, ValuesAreNumbers
<1>4. /\ Value(m, 1) \in Nat /\ Value(m, 2) \in Nat /\ Value(m, 3) \in Nat /\ Value(m, 4) \in Nat
      /\ Value(m, 5) \in Nat /\ Value(m, 6) \in Nat /\ Value(m, 7) \in Nat
  BY <1>1, <1>3
<1> QED BY <1>2, <1>4 DEF HeaderType

LEMMA ParsedRecordIsTyped ==
  ASSUME Parses(Current, RecordTypes)
  PROVE  ParsedRecord \in RecordType
<1> DEFINE m == Current
           types == RecordTypes
<1>1. DOMAIN types = 1 .. 3 /\ \A n \in DOMAIN types : types[n].values \subseteq Nat
  BY CiffAssumption DEF RecordTypes, Int32, Bytes
<1>2. ParsedRecord = [document |-> Value(m, 1), external |-> Value(m, 2), length |-> Value(m, 3)]
  BY DEF ParsedRecord
<1> HIDE DEF m, types
<1>3. \A n \in DOMAIN types : Value(m, n) \in Nat
  <2>1. Parses(m, types)
    BY DEF m, types
  <2> QED BY <1>1, <2>1, ValuesAreNumbers
<1>4. Value(m, 1) \in Nat /\ Value(m, 2) \in Nat /\ Value(m, 3) \in Nat
  BY <1>1, <1>3
<1> QED BY <1>2, <1>4 DEF RecordType

LEMMA ParsedListIsTyped ==
  ASSUME IsSequence(Current), Parses(Current, ListTypes), PostingsParse
  PROVE  ParsedList \in ListType
<1> DEFINE m == Current
           types == ListTypes
           nested == NestedPostings
           postings == ParsedPostings
<1>1. DOMAIN types = 1 .. 3 /\ \A n \in DOMAIN types : types[n].values \subseteq Nat
  BY DEF ListTypes, Int64, Bytes
<1>2. ParsedList = [term |-> Value(m, 1), df |-> Value(m, 2), cf |-> Value(m, 3),
                    postings |-> postings]
  BY DEF ParsedList
<1>3. PICK n, f : Enumerates(f, n, NestedPlaces(m)) /\ nested = Through(m, f, n)
  BY NestedEnumerated DEF NestedPostings
<1>4. n \in Nat /\ DOMAIN nested = 1 .. n
  BY <1>3 DEF Enumerates, Through
<1>5. \A i \in 1 .. n : Parses(nested[i].value, PostingTypes)
  BY <1>4 DEF PostingsParse
<1>6. postings = [i \in DOMAIN nested |-> [document |-> DocumentAt(i),
                                           frequency |-> Value(nested[i].value, 2)]]
  BY DEF ParsedPostings
<1>7. \A i \in 1 .. n : DocumentAt(i) = SumFunction([k \in 1 .. i |-> Value(nested[k].value, 1)])
  BY DEF DocumentAt
<1> HIDE DEF m, types, nested, postings
<1>8. \A k \in DOMAIN types : Value(m, k) \in Nat
  <2>1. Parses(m, types)
    BY DEF m, types
  <2> QED BY <1>1, <2>1, ValuesAreNumbers
<1>9. Value(m, 1) \in Nat /\ Value(m, 2) \in Nat /\ Value(m, 3) \in Nat
  BY <1>1, <1>8
<1>10. \A i \in 1 .. n : Value(nested[i].value, 1) \in Nat /\ Value(nested[i].value, 2) \in Nat
  <2> TAKE i \in 1 .. n
  <2>1. DOMAIN PostingTypes = 1 .. 2 /\ \A k \in DOMAIN PostingTypes : PostingTypes[k].values \subseteq Nat
    BY CiffAssumption DEF PostingTypes, Int32
  <2>2. \A k \in DOMAIN PostingTypes : Value(nested[i].value, k) \in Nat
    BY <1>5, <2>1, ValuesAreNumbers
  <2> QED BY <2>1, <2>2
<1>11. \A i \in 1 .. n : DocumentAt(i) \in Nat
  <2> TAKE i \in 1 .. n
  <2> DEFINE g == [k \in 1 .. i |-> Value(nested[k].value, 1)]
  <2>1. IsFiniteSet(1 .. i)
    BY FS_Interval
  <2>2. DOMAIN g = 1 .. i /\ \A k \in 1 .. i : g[k] \in Nat
    <3>1. \A k \in 1 .. i : k \in 1 .. n
      BY <1>4
    <3> QED BY <1>10, <3>1
  <2>3. DocumentAt(i) = SumFunction(g)
    BY <1>7
  <2> HIDE DEF g
  <2> QED BY <2>1, <2>2, <2>3, SumOfNaturals
<1>12. postings \in [1 .. n -> PostingType]
  <2>1. \A i \in 1 .. n : [document |-> DocumentAt(i), frequency |-> Value(nested[i].value, 2)]
                            \in PostingType
    BY <1>10, <1>11 DEF PostingType
  <2> QED BY <1>4, <1>6, <2>1
<1>13. postings \in Seq(PostingType)
  BY <1>4, <1>12, FunctionIsSeq
<1> QED BY <1>2, <1>9, <1>13 DEF ListType

\* Changes of a file leave a file.
LEMMA ShortenedSequence ==
  ASSUME NEW s, IsSequence(s), NEW i \in DOMAIN s
  PROVE  IsSequence(RemoveAt(s, i)) /\ \A k \in DOMAIN RemoveAt(s, i) : \E j \in DOMAIN s : RemoveAt(s, i)[k] = s[j]
<1> DEFINE T == ToSet(s)
           shorter == RemoveAt(s, i)
<1>1. s \in Seq(T) /\ DOMAIN s = 1 .. Len(s) /\ Len(s) \in Nat /\ T = {s[j] : j \in DOMAIN s}
  BY SequenceIs DEF ToSet
<1> HIDE DEF T
<1>2. SubSeq(s, 1, i - 1) \in Seq(T) /\ SubSeq(s, i + 1, Len(s)) \in Seq(T)
  BY <1>1
<1>3. shorter \in Seq(T)
  BY <1>2 DEF RemoveAt
<1> HIDE DEF shorter
<1>4. IsSequence(shorter)
  BY <1>3, SeqIsSequence
<1>5. \A k \in DOMAIN shorter : shorter[k] \in T
  BY <1>3, SeqElements
<1> QED BY <1>1, <1>4, <1>5 DEF shorter

LEMMA UpdatedSequence ==
  ASSUME NEW s, IsSequence(s), NEW i \in DOMAIN s, NEW x
  PROVE  /\ IsSequence([s EXCEPT ![i] = x])
         /\ DOMAIN [s EXCEPT ![i] = x] = DOMAIN s
         /\ \A k \in DOMAIN s : [s EXCEPT ![i] = x][k] = IF k = i THEN x ELSE s[k]
<1> DEFINE t == [s EXCEPT ![i] = x]
           n == Len(s)
<1>1. n \in Nat /\ DOMAIN s = 1 .. n
  BY SequenceIs
<1>2. t = [k \in 1 .. n |-> t[k]] /\ \A k \in 1 .. n : t[k] = IF k = i THEN x ELSE s[k]
  BY <1>1
<1> HIDE DEF t, n
<1>3. IsSequence(t) /\ DOMAIN t = 1 .. n
  BY <1>1, <1>2, FunctionIsSequence
<1> QED BY <1>1, <1>2, <1>3 DEF t

LEMMA UpdatedFile ==
  ASSUME NEW file, IsFile(file), NEW i \in DOMAIN file, NEW x, IsSequence(x)
  PROVE  IsFile([file EXCEPT ![i] = x])
<1> DEFINE t == [file EXCEPT ![i] = x]
<1>1. IsSequence(file) /\ \A k \in DOMAIN file : IsSequence(file[k])
  BY DEF IsFile
<1>2. /\ IsSequence(t) /\ DOMAIN t = DOMAIN file
      /\ \A k \in DOMAIN file : t[k] = IF k = i THEN x ELSE file[k]
  BY <1>1, UpdatedSequence
<1> HIDE DEF t
<1> QED BY <1>1, <1>2 DEF IsFile, t


-----------------------------------------------------------------------------
\* The invariant.  Whatever was read has its type, and an index that waits to be written
\* is in order.  What was written stays the meaning of the file for some order of its
\* lists and documents, and what was read so far follows that order.

Reading == state \in {"lists", "documents"}
Idle == state \in {"building", "exported", "written", "loaded"}

TypedReader ==
  /\ Reading => /\ header \in HeaderType /\ read \in Nat
                /\ IsSequence(lists) /\ \A i \in DOMAIN lists : lists[i] \in ListType
                /\ IsSequence(documents) /\ \A i \in DOMAIN documents : documents[i] \in RecordType
  /\ Idle => read = 0 /\ lists = <<>> /\ documents = <<>>

TypedIndex == state \in {"exported", "loaded"} => index \in IndexType /\ Ordered(index)

NothingWritten == state \in {"building", "exported"} => written = NoIndex

Follows(p, q) ==
  /\ FileSays(stream, written, p, q)
  /\ Reading => /\ header = written.header
                /\ read = 1 + Len(lists) + Len(documents)
                /\ Len(lists) <= Len(written.lists) /\ Len(documents) <= Len(written.documents)
                /\ \A i \in 1 .. Len(lists) : lists[i] = written.lists[p[i]]
                /\ \A i \in 1 .. Len(documents) : documents[i] = written.documents[q[i]]
  /\ state = "lists" => documents = <<>>
  /\ state = "documents" => Len(lists) = Len(written.lists)

FollowsWritten ==
  written /= NoIndex =>
    /\ state /= "refused"
    /\ state = "loaded" => written = index
    /\ state = "written" \/ Reading =>
         /\ written \in IndexType /\ Ordered(written) /\ Valid(written, Limits)
         /\ \E p, q : Follows(p, q)

WrittenInv ==
  /\ IsFile(stream) /\ native \in Seq(Documents)
  /\ TypedReader /\ TypedIndex /\ NothingWritten /\ FollowsWritten

LEMMA NothingIs == IsSequence(<<>>) /\ Len(<<>>) = 0 /\ DOMAIN <<>> = {}
<1>1. <<>> \in Seq({}) /\ Len(<<>>) = 0 /\ DOMAIN <<>> = {}
  OBVIOUS
<1> QED BY ONLY <1>1, SeqIsSequence

LEMMA WrittenInvInit == Init => WrittenInv
<1> SUFFICES ASSUME Init PROVE WrittenInv
  OBVIOUS
<1>1. IsFile(stream)
  BY NothingIs DEF Init, IsFile
<1>2. native \in Seq(Documents)
  BY DEF Init
<1>3. state = "building" /\ read = 0 /\ lists = <<>> /\ documents = <<>> /\ written = NoIndex
  BY DEF Init
<1> QED BY <1>1, <1>2, <1>3 DEF WrittenInv, TypedReader, TypedIndex, NothingWritten, FollowsWritten, Reading, Idle

LEMMA CorruptLeavesFile == IsFile(stream) /\ Corrupt => IsFile(stream')
<1> SUFFICES ASSUME IsFile(stream), Corrupt PROVE IsFile(stream')
  OBVIOUS
<1>0. IsSequence(stream) /\ \A i \in DOMAIN stream : IsSequence(stream[i])
  BY DEF IsFile
<1>1. ASSUME NEW i \in DOMAIN stream, Change(RemoveAt(stream, i)) PROVE IsFile(stream')
  <2>1. stream' = RemoveAt(stream, i)
    BY <1>1 DEF Change
  <2> DEFINE shorter == RemoveAt(stream, i)
  <2>2. IsSequence(shorter) /\ \A k \in DOMAIN shorter : \E j \in DOMAIN stream : shorter[k] = stream[j]
    BY <1>0, ShortenedSequence
  <2> HIDE DEF shorter
  <2>3. IsFile(shorter)
    BY <1>0, <2>2 DEF IsFile
  <2> QED BY <2>1, <2>3 DEF shorter
<1>2. ASSUME NEW i \in DOMAIN stream, Change(Append(stream, stream[i])) PROVE IsFile(stream')
  <2>1. stream' = Append(stream, stream[i])
    BY <1>2 DEF Change
  <2> DEFINE longer == Append(stream, stream[i])
             l == Len(stream) + 1
  <2>2. /\ IsSequence(longer) /\ DOMAIN longer = 1 .. l
        /\ \A k \in DOMAIN stream : longer[k] = stream[k]
        /\ longer[l] = stream[i]
    BY <1>0, AppendedSequence
  <2>3. \A k \in 1 .. l : k \in DOMAIN stream \/ k = l
    BY <1>0, SequenceIs
  <2> HIDE DEF longer, l
  <2>4. IsFile(longer)
    BY <1>0, <2>2, <2>3 DEF IsFile
  <2> QED BY <2>1, <2>4 DEF longer
<1>3. ASSUME NEW i \in DOMAIN stream, NEW x, IsSequence(x), stream' = [stream EXCEPT ![i] = x]
      PROVE  IsFile(stream')
  BY <1>3, UpdatedFile
<1>4. ASSUME NEW i \in DOMAIN stream, NEW j \in DOMAIN stream[i], NEW x,
             stream' = [stream EXCEPT ![i] = [@ EXCEPT ![j] = x]]
      PROVE  IsFile(stream')
  <2>1. IsSequence([stream[i] EXCEPT ![j] = x])
    BY <1>0, UpdatedSequence
  <2>2. stream' = [stream EXCEPT ![i] = [stream[i] EXCEPT ![j] = x]]
    BY <1>4
  <2> QED BY <1>3, <2>1, <2>2
<1>5. ASSUME NEW i \in DOMAIN stream, NEW j \in DOMAIN stream[i],
             \/ Change([stream EXCEPT ![i] = RemoveAt(@, j)])
             \/ Change([stream EXCEPT ![i] = Append(@, stream[i][j])])
      PROVE  IsFile(stream')
  <2>1. IsSequence(RemoveAt(stream[i], j)) /\ IsSequence(Append(stream[i], stream[i][j]))
    BY <1>0, ShortenedSequence, AppendedSequence
  <2>2. \/ stream' = [stream EXCEPT ![i] = RemoveAt(stream[i], j)]
        \/ stream' = [stream EXCEPT ![i] = Append(stream[i], stream[i][j])]
    BY <1>5 DEF Change
  <2> QED BY <1>3, <2>1, <2>2
<1>6. ASSUME NEW i \in DOMAIN stream, NEW j \in DOMAIN stream[i], NEW v,
             Change([stream EXCEPT ![i][j].value = v])
      PROVE  IsFile(stream')
  <2>1. stream' = [stream EXCEPT ![i] = [@ EXCEPT ![j] = [stream[i][j] EXCEPT !.value = v]]]
    BY <1>6 DEF Change
  <2> QED BY <1>4, <2>1
<1>7. ASSUME NEW i \in DOMAIN stream, NEW j \in DOMAIN stream[i], NEW k,
             Change([stream EXCEPT ![i][j].value = RemoveAt(@, k)])
      PROVE  IsFile(stream')
  <2>1. stream' = [stream EXCEPT ![i] = [@ EXCEPT ![j] =
                     [stream[i][j] EXCEPT !.value = RemoveAt(@, k)]]]
    BY <1>7 DEF Change
  <2> QED BY <1>4, <2>1
<1>8. ASSUME NEW i \in DOMAIN stream, NEW j \in DOMAIN stream[i], NEW k, NEW v,
             Change([stream EXCEPT ![i][j].value[k].value = v])
      PROVE  IsFile(stream')
  <2>1. stream' = [stream EXCEPT ![i] = [@ EXCEPT ![j] =
                     [stream[i][j] EXCEPT !.value =
                       [stream[i][j].value EXCEPT ![k] = [stream[i][j].value[k] EXCEPT !.value = v]]]]]
    BY <1>8 DEF Change
  <2> QED BY <1>4, <2>1
<1> QED BY <1>1, <1>2, <1>5, <1>6, <1>7, <1>8 DEF Corrupt


LEMMA RearrangeLeavesFile == IsFile(stream) /\ Rearrange => IsFile(stream')
<1> SUFFICES ASSUME IsFile(stream), Rearrange PROVE IsFile(stream')
  OBVIOUS
<1>0. IsSequence(stream) /\ \A i \in DOMAIN stream : IsSequence(stream[i])
  BY DEF IsFile
<1>1. ASSUME NEW i \in 2 .. Len(stream) - 1, Change(Swapped(stream, i)) PROVE IsFile(stream')
  <2>1. stream' = Swapped(stream, i)
    BY <1>1 DEF Change
  <2>2. Len(stream) \in Nat /\ DOMAIN stream = 1 .. Len(stream)
    BY <1>0, SequenceIs
  <2>3. i \in 1 .. Len(stream) - 1
    BY <2>2
  <2> DEFINE other == Swapped(stream, i)
  <2>4. /\ IsSequence(other) /\ DOMAIN other = 1 .. Len(stream)
        /\ \A k \in 1 .. Len(stream) : SwapOf(i, k) \in 1 .. Len(stream) /\ other[k] = stream[SwapOf(i, k)]
    BY <1>0, <2>3, SwappedIs
  <2> HIDE DEF other
  <2>5. IsFile(other)
    BY <1>0, <2>2, <2>4 DEF IsFile
  <2> QED BY <2>1, <2>5 DEF other
<1>2. ASSUME NEW i \in DOMAIN stream, NEW x, IsSequence(x), stream' = [stream EXCEPT ![i] = x]
      PROVE  IsFile(stream')
  BY <1>2, UpdatedFile
<1>3. ASSUME NEW i \in DOMAIN stream, NEW j \in 1 .. Len(stream[i]) - 1,
             Change([stream EXCEPT ![i] = Swapped(@, j)])
      PROVE  IsFile(stream')
  <2>1. IsSequence(Swapped(stream[i], j))
    BY <1>0, SwappedIs
  <2>2. stream' = [stream EXCEPT ![i] = Swapped(stream[i], j)]
    BY <1>3 DEF Change
  <2> QED BY <1>2, <2>1, <2>2
<1>4. ASSUME NEW i \in DOMAIN stream, Change([stream EXCEPT ![i] = Append(@, Field(9, "varint", 1))])
      PROVE  IsFile(stream')
  <2>1. IsSequence(Append(stream[i], Unknown))
    BY <1>0, AppendedSequence
  <2>2. stream' = [stream EXCEPT ![i] = Append(stream[i], Unknown)]
    BY <1>4 DEF Change, Unknown
  <2> QED BY <1>2, <2>1, <2>2
<1> QED BY <1>1, <1>3, <1>4 DEF Rearrange

LEMMA RearrangeSays ==
  ASSUME written \in IndexType, written.header.numLists = Len(written.lists),
         NEW p, NEW q, FileSays(stream, written, p, q), Rearrange
  PROVE  \E a, b : FileSays(stream', written, a, b)
<1>0. /\ IsFile(stream) /\ IsSequence(stream) /\ \A i \in DOMAIN stream : IsSequence(stream[i])
  BY SayingIsFile DEF IsFile
<1>1. ASSUME NEW i \in 2 .. Len(stream) - 1,
             (i + 1 <= 1 + Value(stream[1], 2)) \/ (i > 1 + Value(stream[1], 2)),
             Change(Swapped(stream, i))
      PROVE  \E a, b : FileSays(stream', written, a, b)
  <2>1. stream' = Swapped(stream, i)
    BY <1>1 DEF Change
  <2>2. \E a, b : FileSays(Swapped(stream, i), written, a, b)
    BY <1>1, PartsSwapped
  <2> QED BY <2>1, <2>2
<1>2. ASSUME NEW i \in DOMAIN stream, NEW x, SaysAsMuch(x, stream[i]), stream' = [stream EXCEPT ![i] = x]
      PROVE  FileSays(stream', written, p, q)
  BY <1>2, MessageReplaced
<1>3. ASSUME NEW i \in DOMAIN stream, NEW j \in 1 .. Len(stream[i]) - 1,
             stream[i][j].number /= stream[i][j + 1].number,
             Change([stream EXCEPT ![i] = Swapped(@, j)])
      PROVE  FileSays(stream', written, p, q)
  <2>1. SaysAsMuch(Swapped(stream[i], j), stream[i])
    BY <1>0, <1>3, FieldsSwapped
  <2>2. stream' = [stream EXCEPT ![i] = Swapped(stream[i], j)]
    BY <1>3 DEF Change
  <2> QED BY <1>2, <2>1, <2>2
<1>4. ASSUME NEW i \in DOMAIN stream, Change([stream EXCEPT ![i] = Append(@, Field(9, "varint", 1))])
      PROVE  FileSays(stream', written, p, q)
  <2>1. SaysAsMuch(Append(stream[i], Unknown), stream[i])
    BY <1>0, UnknownAdded
  <2>2. stream' = [stream EXCEPT ![i] = Append(stream[i], Unknown)]
    BY <1>4 DEF Change, Unknown
  <2> QED BY <1>2, <2>1, <2>2
<1> QED BY <1>1, <1>3, <1>4 DEF Rearrange


LEMMA ChangedInv ==
  ASSUME WrittenInv, Rearrange \/ Corrupt
  PROVE  WrittenInv'
<1>1. /\ IsFile(stream) /\ native \in Seq(Documents)
      /\ TypedReader /\ TypedIndex /\ NothingWritten /\ FollowsWritten
  BY DEF WrittenInv
<1>2. state = "written" /\ UNCHANGED <<native, index, state, read, header, lists, documents>>
  <2>1. PICK file : Change(file)
    BY DEF Rearrange, Corrupt
  <2> QED BY <2>1 DEF Change, reader
<1>3. IsFile(stream')
  BY <1>1, CorruptLeavesFile, RearrangeLeavesFile
<1>4. native' \in Seq(Documents) /\ TypedReader' /\ TypedIndex' /\ NothingWritten'
  BY <1>1, <1>2 DEF TypedReader, TypedIndex, NothingWritten, Reading, Idle
<1>5. FollowsWritten'
  <2>1. CASE Corrupt
    BY <2>1 DEF Corrupt, FollowsWritten
  <2>2. CASE Rearrange
    <3>1. UNCHANGED written
      BY <2>2 DEF Rearrange
    <3> SUFFICES ASSUME written /= NoIndex PROVE FollowsWritten'
      BY <3>1 DEF FollowsWritten
    <3>2. /\ written \in IndexType /\ Ordered(written) /\ Valid(written, Limits)
          /\ \E p, q : Follows(p, q)
      BY <1>1, <1>2 DEF FollowsWritten
    <3>3. PICK p, q : FileSays(stream, written, p, q)
      BY <3>2 DEF Follows
    <3>4. written.header.numLists = Len(written.lists)
      BY <3>2 DEF Valid
    <3>5. PICK a, b : FileSays(stream', written, a, b)
      BY <2>2, <3>2, <3>3, <3>4, RearrangeSays
    <3>6. state' = "written" /\ ~ Reading' /\ state' /= "lists" /\ state' /= "documents"
      BY <1>2 DEF Reading
    <3>7. Follows(a, b)'
      BY <3>1, <3>5, <3>6 DEF Follows
    <3> QED BY <3>1, <3>2, <3>6, <3>7 DEF FollowsWritten
  <2> QED BY <2>1, <2>2
<1> QED BY <1>3, <1>4, <1>5 DEF WrittenInv


LEMMA NativeInv ==
  ASSUME WrittenInv, AverageIsNatural, (\E document \in Documents : AddNative(document)) \/ Export
  PROVE  WrittenInv'
<1>1. /\ IsFile(stream) /\ native \in Seq(Documents)
      /\ TypedReader /\ TypedIndex /\ NothingWritten /\ FollowsWritten
  BY DEF WrittenInv
<1>2. state = "building" /\ written = NoIndex /\ UNCHANGED <<stream, written, read, header, lists, documents>>
  BY <1>1 DEF AddNative, Export, NothingWritten, reader, history
<1>3. read = 0 /\ lists = <<>> /\ documents = <<>>
  BY <1>1, <1>2 DEF TypedReader, Idle
<1>4. FollowsWritten' /\ NothingWritten' /\ IsFile(stream')
  BY <1>1, <1>2 DEF FollowsWritten, NothingWritten
<1>5. state' \in {"building", "exported", "rejected"}
  BY <1>2 DEF AddNative, Export
<1>6. TypedReader'
  BY <1>2, <1>3, <1>5 DEF TypedReader, Reading, Idle
<1>7. ASSUME NEW document \in Documents, AddNative(document)
      PROVE  native' \in Seq(Documents) /\ TypedIndex'
  <2>1. native' = Append(native, document) /\ state' = "building"
    BY <1>2, <1>7 DEF AddNative
  <2> QED BY <1>1, <2>1 DEF TypedIndex
<1>8. CASE Export
  <2>1. native' = native
    BY <1>8 DEF Export
  <2>2. state' = "exported" => index' = Flattened
    BY <1>8, <1>2 DEF Export
  <2>3. Flattened \in IndexType /\ Ordered(Flattened)
    BY <1>1, FlattenedIs
  <2>4. TypedIndex'
    BY <1>5, <2>2, <2>3 DEF TypedIndex
  <2> QED BY <1>1, <1>4, <1>6, <2>1, <2>4 DEF WrittenInv
<1> QED BY <1>4, <1>6, <1>7, <1>8 DEF WrittenInv

LEMMA WriteInv ==
  ASSUME WrittenInv, Write
  PROVE  WrittenInv'
<1>1. /\ IsFile(stream) /\ native \in Seq(Documents)
      /\ TypedReader /\ TypedIndex /\ NothingWritten /\ FollowsWritten
  BY DEF WrittenInv
<1>2. /\ state \in {"exported", "loaded"} /\ written = NoIndex
      /\ UNCHANGED <<native, read, header, lists, documents>>
  BY <1>1 DEF Write, NothingWritten, reader
<1>3. index \in IndexType /\ Ordered(index)
  BY <1>1, <1>2 DEF TypedIndex
<1>4. state' \in {"written", "rejected"}
  BY DEF Write
<1>5. TypedReader' /\ TypedIndex' /\ NothingWritten' /\ native' \in Seq(Documents)
  BY <1>1, <1>2, <1>4 DEF TypedReader, TypedIndex, NothingWritten, Reading, Idle
<1>6. CASE Valid(index, Limits)
  <2>1. stream' = Messages(index) /\ state' = "written" /\ written' = index
    BY <1>6 DEF Write
  <2>2. PICK p, q : FileSays(Messages(index), index, p, q)
    BY <1>3, <1>6, WrittenSays
  <2>3. IsFile(stream')
    BY <1>3, <2>1, <2>2, SayingIsFile
  <2>4. ~ Reading' /\ state' /= "lists" /\ state' /= "documents"
    BY <2>1 DEF Reading
  <2>5. Follows(p, q)'
    BY <2>1, <2>2, <2>4 DEF Follows
  <2>6. FollowsWritten'
    BY <1>3, <1>6, <2>1, <2>5 DEF FollowsWritten
  <2> QED BY <1>5, <2>3, <2>6 DEF WrittenInv
<1>7. CASE ~ Valid(index, Limits)
  <2>1. UNCHANGED <<stream, written>>
    BY <1>7 DEF Write
  <2> QED BY <1>1, <1>2, <1>5, <2>1 DEF WrittenInv, FollowsWritten
<1> QED BY <1>6, <1>7

LEMMA ReceiveInv ==
  ASSUME WrittenInv, NEW file \in Foreign, Receive(file)
  PROVE  WrittenInv'
<1>1. /\ IsFile(stream) /\ native \in Seq(Documents)
      /\ TypedReader /\ TypedIndex /\ NothingWritten /\ FollowsWritten
  BY DEF WrittenInv
<1>2. /\ state = "building" /\ state' = "written" /\ stream' = file
      /\ UNCHANGED <<native, index, read, header, lists, documents, written>>
  BY DEF Receive, reader, history
<1>3. IsFile(stream')
  BY <1>2, FilesAssumption
<1>4. written' = NoIndex
  BY <1>1, <1>2 DEF NothingWritten
<1>5. TypedReader' /\ TypedIndex' /\ NothingWritten' /\ native' \in Seq(Documents)
  BY <1>1, <1>2, <1>4 DEF TypedReader, TypedIndex, NothingWritten, Reading, Idle
<1> QED BY <1>3, <1>4, <1>5 DEF WrittenInv, FollowsWritten

\* A step to a state in which nothing is read.
LEMMA SettledInv ==
  ASSUME WrittenInv, UNCHANGED <<native, stream, written>>,
         state' \in {"refused", "searching", "answered", "rejected"},
         state' = "refused" => written = NoIndex
  PROVE  WrittenInv'
<1>1. IsFile(stream) /\ native \in Seq(Documents)
  BY DEF WrittenInv
<1>2. IsFile(stream')
  BY <1>1
<1>3. TypedReader' /\ TypedIndex' /\ NothingWritten' /\ native' \in Seq(Documents)
  BY <1>1 DEF TypedReader, TypedIndex, NothingWritten, Reading, Idle
<1>4. FollowsWritten'
  BY DEF FollowsWritten, Reading
<1> QED BY <1>2, <1>3, <1>4 DEF WrittenInv


LEMMA ReadHeaderInv ==
  ASSUME WrittenInv, ReadHeader
  PROVE  WrittenInv'
<1>1. /\ IsFile(stream) /\ native \in Seq(Documents)
      /\ TypedReader /\ TypedIndex /\ NothingWritten /\ FollowsWritten
  BY DEF WrittenInv
<1>2. /\ state = "written" /\ UNCHANGED <<native, stream, written>>
      /\ read = 0 /\ lists = <<>> /\ documents = <<>>
  BY <1>1 DEF ReadHeader, history, TypedReader, Idle
<1> DEFINE Reads == More /\ Parses(Current, HeaderTypes) /\ ValidHeader(ParsedHeader, Limits)
<1>3. ASSUME written /= NoIndex, NEW p, NEW q, Follows(p, q),
             written \in IndexType, Valid(written, Limits)
      PROVE  Reads /\ ParsedHeader = written.header
  <2>1. FileSays(stream, written, p, q)
    BY <1>3 DEF Follows
  <2>2. Len(written.lists) \in Nat /\ Len(written.documents) \in Nat /\ written.header \in HeaderType
    BY <1>3, PartsAre
  <2>3. More
    <3>1. PICK n, m : n = Len(written.lists) /\ m = Len(written.documents)
      OBVIOUS
    <3>2. n \in Nat /\ m \in Nat /\ Len(stream) = 1 + n + m
      BY <2>1, <2>2, <3>1 DEF FileSays
    <3> QED BY <1>2, <3>2 DEF More
  <2>4. SaysHeader(Current, written.header)
    <3>1. Current = stream[1]
      BY <1>2 DEF Current
    <3> QED BY <2>1, <3>1 DEF FileSays
  <2>5. Parses(Current, HeaderTypes) /\ ParsedHeader = written.header
    BY <2>2, <2>4, HeaderReads
  <2> QED BY <1>3, <2>3, <2>5 DEF Valid
<1>4. CASE ~ Reads
  <2>1. state' = "refused"
    BY <1>4 DEF ReadHeader, Refuse
  <2>2. written = NoIndex
    BY <1>1, <1>2, <1>3, <1>4 DEF FollowsWritten
  <2> HIDE DEF Reads
  <2> QED BY <1>2, <2>1, <2>2, SettledInv
<1>5. CASE Reads
  <2>1. /\ header' = ParsedHeader /\ read' = 1 /\ state' = "lists"
        /\ UNCHANGED <<index, lists, documents>>
    BY <1>5 DEF ReadHeader
  <2>2. ParsedHeader \in HeaderType
    BY <1>5, ParsedHeaderIsTyped
  <2>3. TypedReader' /\ TypedIndex' /\ NothingWritten' /\ native' \in Seq(Documents) /\ IsFile(stream')
    BY <1>1, <1>2, <2>1, <2>2, NothingIs DEF TypedReader, TypedIndex, NothingWritten, Reading, Idle
  <2>4. ASSUME written /= NoIndex PROVE FollowsWritten'
    <3>1. written \in IndexType /\ Ordered(written) /\ Valid(written, Limits)
      BY <1>1, <1>2, <2>4 DEF FollowsWritten
    <3>2. PICK p, q : Follows(p, q)
      BY <1>1, <1>2, <2>4 DEF FollowsWritten
    <3>3. ParsedHeader = written.header
      BY <1>3, <2>4, <3>1, <3>2
    <3>4. /\ header' = written'.header /\ lists' = <<>> /\ documents' = <<>>
          /\ FileSays(stream', written', p, q) /\ written' = written
      BY <1>2, <2>1, <3>2, <3>3 DEF Follows
    <3>5. Len(written.lists) \in Nat /\ Len(written.documents) \in Nat
      BY <3>1, PartsAre
    <3>6. Len(lists') = 0 /\ Len(documents') = 0 /\ read' = 1 + Len(lists') + Len(documents')
      BY <2>1, <3>4, NothingIs
    <3>7. Follows(p, q)'
      BY <2>1, <3>4, <3>5, <3>6 DEF Follows
    <3> QED BY <1>2, <2>1, <3>1, <3>7 DEF FollowsWritten
  <2>5. FollowsWritten'
    BY <1>2, <2>4 DEF FollowsWritten
  <2> QED BY <2>3, <2>5 DEF WrittenInv
<1> QED BY <1>4, <1>5

LEMMA EndListsInv ==
  ASSUME WrittenInv, EndLists
  PROVE  WrittenInv'
<1>1. /\ IsFile(stream) /\ native \in Seq(Documents)
      /\ TypedReader /\ TypedIndex /\ NothingWritten /\ FollowsWritten
  BY DEF WrittenInv
<1>2. /\ state = "lists" /\ Len(lists) = header.numLists /\ state' = "documents"
      /\ UNCHANGED <<native, index, stream, read, header, lists, documents, written>>
  BY DEF EndLists, reader, history
<1>3. TypedReader' /\ TypedIndex' /\ NothingWritten' /\ native' \in Seq(Documents) /\ IsFile(stream')
  BY <1>1, <1>2 DEF TypedReader, TypedIndex, NothingWritten, Reading, Idle
<1>4. ASSUME written /= NoIndex PROVE FollowsWritten'
  <2>1. written \in IndexType /\ Ordered(written) /\ Valid(written, Limits)
    BY <1>1, <1>2, <1>4 DEF FollowsWritten, Reading
  <2>2. PICK p, q : Follows(p, q)
    BY <1>1, <1>2, <1>4 DEF FollowsWritten, Reading
  <2>3. Len(lists) = Len(written.lists)
    BY <1>2, <2>1, <2>2 DEF Follows, Reading, Valid
  <2>4. Follows(p, q)'
    BY <1>2, <2>2, <2>3 DEF Follows, Reading
  <2> QED BY <1>2, <2>1, <2>4 DEF FollowsWritten
<1>5. FollowsWritten'
  BY <1>2, <1>4 DEF FollowsWritten
<1> QED BY <1>3, <1>5 DEF WrittenInv


\* The next list of a file that was written is read as it was written.
LEMMA NextListReads ==
  ASSUME TypedReader, state = "lists", Len(lists) < header.numLists,
         written \in IndexType, Valid(written, Limits), Ordered(written),
         NEW p, NEW q, Follows(p, q)
  PROVE  /\ More /\ Parses(Current, ListTypes) /\ PostingsParse
         /\ ValidList(ParsedList, header.totalDocuments)
         /\ \A list \in ToSet(lists) : list.term /= ParsedList.term
         /\ ParsedList = written.lists[p[Len(lists) + 1]]
         /\ Len(lists) + 1 <= Len(written.lists)
<1> DEFINE n == Len(written.lists)
           m == Len(written.documents)
           k == Len(lists)
           r == k + 1
           list == written.lists[p[r]]
<1>1. /\ n \in Nat /\ m \in Nat /\ DOMAIN written.lists = 1 .. n
      /\ \A i \in 1 .. n : written.lists[i] \in ListType
  BY PartsAre
<1>2. IsSequence(lists) /\ k \in Nat /\ DOMAIN lists = 1 .. k
  BY SequenceIs DEF TypedReader, Reading
<1>3. documents = <<>>
  BY DEF Follows
<1>4. /\ header = written.header /\ read = 1 + k + Len(documents)
      /\ \A i \in 1 .. k : lists[i] = written.lists[p[i]]
  BY DEF Follows, Reading
<1>5. header.numLists = n
  BY <1>4 DEF Valid
<1>6. /\ Len(stream) = 1 + n + m /\ Order(p, n)
      /\ \A i \in 1 .. n : SaysList(stream[1 + i], written.lists[p[i]])
  BY DEF Follows, FileSays
<1>7. PostingCount(written.lists) <= Limits.postings
  BY DEF Valid
<1>8. \A i \in 1 .. n : ValidList(written.lists[i], written.header.totalDocuments)
  <2> TAKE i \in 1 .. n
  <2>1. written.lists[i] \in ToSet(written.lists)
    BY <1>1 DEF ToSet
  <2> QED BY <2>1 DEF Valid
<1>9. read = 1 + k
  <2>1. read = 1 + k + 0
    BY <1>3, <1>4, NothingIs
  <2> QED BY <1>2, <2>1
<1>10. PostingCount(lists) + Len(list.postings) <= Limits.postings
  <2>1. Len(lists) < Len(written.lists)
    BY <1>5
  <2>2. \A i \in 1 .. Len(lists) : lists[i] = written.lists[p[i]]
    BY <1>4
  <2>3. Order(p, Len(written.lists))
    BY <1>6
  <2>4. /\ PostingCount(lists) + Len(list.postings) <= PostingCount(written.lists)
        /\ PostingCount(lists) \in Nat /\ PostingCount(written.lists) \in Nat
        /\ Len(list.postings) \in Nat
    BY <1>2, <2>1, <2>2, <2>3, PostingsFit
  <2> HIDE DEF list
  <2> QED BY <1>7, <2>4, FilesAssumption
<1>11. \A i, j \in 1 .. n : i < j => written.lists[i].term < written.lists[j].term
  BY DEF Ordered
<1>12. k < n
  BY <1>5
<1>13. Current = stream[1 + r] /\ More
  <2> HIDE DEF n, m, k
  <2>1. read + 1 = 1 + r /\ read < 1 + n + m
    BY <1>1, <1>2, <1>9, <1>12
  <2> QED BY <1>6, <2>1 DEF Current, More
<1>14. r \in 1 .. n
  <2> HIDE DEF n, k
  <2> QED BY <1>1, <1>2, <1>12
<1>15. p[r] \in 1 .. n /\ \A i \in 1 .. k : i \in 1 .. n /\ p[i] \in 1 .. n /\ p[i] /= p[r]
  <2> HIDE DEF n, k
  <2>1. \A i \in 1 .. k : i \in 1 .. n /\ i /= r
    BY <1>1, <1>2, <1>12
  <2> HIDE DEF r
  <2> QED BY <1>6, <1>14, <2>1 DEF Order
<1>16. list \in ListType /\ ValidList(list, header.totalDocuments) /\ SaysList(Current, list)
  <2> HIDE DEF r, n
  <2> QED BY <1>1, <1>4, <1>6, <1>8, <1>13, <1>14, <1>15
<1>17. \A other \in ToSet(lists) : other.term /= list.term
  <2> TAKE other \in ToSet(lists)
  <2>1. PICK i \in 1 .. k : other = written.lists[p[i]]
    BY <1>2, <1>4 DEF ToSet
  <2>2. p[i] \in 1 .. n /\ p[r] \in 1 .. n /\ p[i] /= p[r]
    BY <1>15
  <2> DEFINE a == p[i]
             b == p[r]
             x == written.lists[a].term
             y == written.lists[b].term
  <2>3. a < b \/ b < a
    <3> HIDE DEF n, a, b
    <3> QED BY <1>1, <2>2 DEF a, b
  <2>4. x \in Nat /\ y \in Nat
    BY <1>1, <2>2 DEF ListType
  <2>5. x < y \/ y < x
    BY <1>11, <2>2, <2>3
  <2> HIDE DEF x, y
  <2>6. x /= y
    BY <2>4, <2>5
  <2> QED BY <2>1, <2>6 DEF x, y
<1> HIDE DEF list
<1>18. /\ Parses(Current, ListTypes) /\ ParsedList = list
       /\ \A i \in DOMAIN NestedPostings :
            NestedPostings[i].wire = "bytes" /\ Parses(NestedPostings[i].value, PostingTypes)
       /\ Len(NestedPostings) = Len(list.postings)
       /\ DocumentAt(Len(NestedPostings)) <= 2 * MaxInt + 1
  BY <1>16, ListReads
<1>19. PostingsParse
  BY <1>10, <1>18 DEF PostingsParse
<1>20. Len(lists) + 1 <= Len(written.lists)
  BY <1>14
<1> QED BY <1>13, <1>16, <1>17, <1>18, <1>19, <1>20 DEF list


LEMMA ReadListInv ==
  ASSUME WrittenInv, ReadList
  PROVE  WrittenInv'
<1> DEFINE Reads == /\ More /\ Parses(Current, ListTypes) /\ PostingsParse
                    /\ ValidList(ParsedList, header.totalDocuments)
                    /\ \A list \in ToSet(lists) : list.term /= ParsedList.term
           longer == Append(lists, ParsedList)
           r == Len(lists) + 1
<1>1. /\ IsFile(stream) /\ native \in Seq(Documents)
      /\ TypedReader /\ TypedIndex /\ NothingWritten /\ FollowsWritten
  BY DEF WrittenInv
<1>2. /\ state = "lists" /\ Len(lists) < header.numLists
      /\ UNCHANGED <<native, stream, written>>
  BY DEF ReadList, history
<1>3. /\ header \in HeaderType /\ IsSequence(lists) /\ IsSequence(documents)
      /\ \A i \in DOMAIN lists : lists[i] \in ListType
      /\ \A i \in DOMAIN documents : documents[i] \in RecordType
  BY <1>1, <1>2 DEF TypedReader, Reading
<1>4. Len(lists) \in Nat /\ DOMAIN lists = 1 .. Len(lists) /\ Len(documents) \in Nat
  BY <1>3, SequenceIs
<1>5. ASSUME written /= NoIndex
      PROVE  /\ written \in IndexType /\ Ordered(written) /\ Valid(written, Limits)
             /\ \E p, q : Follows(p, q)
  BY <1>1, <1>2, <1>5 DEF FollowsWritten, Reading
<1>6. CASE ~ Reads
  <2>1. state' = "refused"
    BY <1>6 DEF ReadList, Refuse
  <2>2. written = NoIndex
    BY <1>1, <1>2, <1>5, <1>6, NextListReads
  <2> HIDE DEF Reads
  <2> QED BY <1>2, <2>1, <2>2, SettledInv
<1>7. CASE Reads
  <2>1. lists' = longer /\ read' = read + 1 /\ UNCHANGED <<index, state, header, documents>>
    BY <1>7 DEF ReadList
  <2>2. ParsedList \in ListType
    <3>1. read + 1 \in DOMAIN stream => IsSequence(Current)
      BY <1>1 DEF IsFile, Current
    <3>2. read \in Nat /\ DOMAIN stream = 1 .. Len(stream) /\ Len(stream) \in Nat
      BY <1>1, <1>2, SequenceIs DEF IsFile, TypedReader, Reading
    <3>3. IsSequence(Current)
      BY <1>7, <3>1, <3>2 DEF More
    <3> QED BY <1>7, <3>3, ParsedListIsTyped
  <2>3. /\ IsSequence(longer) /\ Len(longer) = r /\ DOMAIN longer = 1 .. r
        /\ \A i \in DOMAIN lists : longer[i] = lists[i]
        /\ longer[r] = ParsedList
    BY <1>3, AppendedSequence
  <2>4. \A i \in 1 .. r : i \in DOMAIN lists \/ i = r
    BY <1>4
  <2> HIDE DEF longer, r
  <2>5. \A i \in DOMAIN longer : longer[i] \in ListType
    BY <1>3, <2>2, <2>3, <2>4
  <2>6. TypedReader' /\ TypedIndex' /\ NothingWritten' /\ native' \in Seq(Documents) /\ IsFile(stream')
    <3>1. read' \in Nat
      BY <1>1, <1>2, <2>1 DEF TypedReader, Reading
    <3> QED BY <1>1, <1>2, <1>3, <2>1, <2>3, <2>5, <3>1 DEF TypedReader, TypedIndex, NothingWritten, Reading, Idle
  <2>7. ASSUME written /= NoIndex PROVE FollowsWritten'
    <3>1. written \in IndexType /\ Ordered(written) /\ Valid(written, Limits)
      BY <1>5, <2>7
    <3>2. PICK p, q : Follows(p, q)
      BY <1>5, <2>7
    <3>3. ParsedList = written.lists[p[r]] /\ r <= Len(written.lists)
      BY <1>1, <1>2, <3>1, <3>2, NextListReads DEF r
    <3>4. /\ FileSays(stream, written, p, q)
          /\ header = written.header /\ read = 1 + Len(lists) + Len(documents)
          /\ Len(documents) <= Len(written.documents)
          /\ \A i \in 1 .. Len(lists) : lists[i] = written.lists[p[i]]
          /\ \A i \in 1 .. Len(documents) : documents[i] = written.documents[q[i]]
          /\ documents = <<>>
      BY <1>2, <3>2 DEF Follows, Reading
    <3>5. \A i \in 1 .. r : longer[i] = written.lists[p[i]]
      BY <1>4, <2>3, <2>4, <3>3, <3>4
    <3>6. read' = 1 + r + Len(documents)
      BY <1>4, <2>1, <3>4 DEF r
    <3>7. Follows(p, q)'
      BY <1>2, <2>1, <2>3, <3>3, <3>4, <3>5, <3>6 DEF Follows, Reading
    <3> QED BY <1>2, <2>1, <3>1, <3>7 DEF FollowsWritten
  <2>8. FollowsWritten'
    BY <1>2, <2>7 DEF FollowsWritten
  <2> QED BY <2>6, <2>8 DEF WrittenInv
<1> QED BY <1>6, <1>7

\* So is the next record.
LEMMA NextRecordReads ==
  ASSUME TypedReader, state = "documents", Len(documents) < header.numDocuments,
         written \in IndexType, Valid(written, Limits),
         NEW p, NEW q, Follows(p, q)
  PROVE  /\ More /\ Parses(Current, RecordTypes)
         /\ ValidRecord(ParsedRecord, header.totalDocuments)
         /\ \A record \in ToSet(documents) :
              record.document /= ParsedRecord.document /\ record.external /= ParsedRecord.external
         /\ ParsedRecord = written.documents[q[Len(documents) + 1]]
         /\ Len(documents) + 1 <= Len(written.documents)
<1> DEFINE n == Len(written.lists)
           m == Len(written.documents)
           k == Len(documents)
           r == k + 1
           record == written.documents[q[r]]
<1>1. /\ n \in Nat /\ m \in Nat /\ DOMAIN written.documents = 1 .. m
      /\ \A i \in 1 .. m : written.documents[i] \in RecordType
  BY PartsAre
<1>2. IsSequence(documents) /\ k \in Nat /\ DOMAIN documents = 1 .. k
  BY SequenceIs DEF TypedReader, Reading
<1>3. /\ header = written.header /\ read = 1 + n + k
      /\ \A i \in 1 .. k : documents[i] = written.documents[q[i]]
  BY DEF Follows, Reading
<1>4. header.numDocuments = m
  BY <1>3 DEF Valid
<1>5. /\ Len(stream) = 1 + n + m /\ Order(q, m)
      /\ \A i \in 1 .. m : SaysRecord(stream[1 + n + i], written.documents[q[i]])
  BY DEF Follows, FileSays
<1>6. \A i \in 1 .. m : ValidRecord(written.documents[i], written.header.totalDocuments)
  <2> TAKE i \in 1 .. m
  <2>1. written.documents[i] \in ToSet(written.documents)
    BY <1>1 DEF ToSet
  <2> QED BY <2>1 DEF Valid
<1>7. /\ \A i, j \in 1 .. m : written.documents[i].document = written.documents[j].document => i = j
      /\ \A i, j \in 1 .. m : written.documents[i].external = written.documents[j].external => i = j
  BY <1>1 DEF Valid, Distinct
<1>8. k < m
  BY <1>4
<1>9. Current = stream[1 + n + r] /\ More
  <2> HIDE DEF n, m, k
  <2>1. read + 1 = 1 + n + r /\ read < 1 + n + m
    BY <1>1, <1>2, <1>3, <1>8
  <2> QED BY <1>5, <2>1 DEF Current, More
<1>10. r \in 1 .. m
  <2> HIDE DEF m, k
  <2> QED BY <1>1, <1>2, <1>8
<1>11. q[r] \in 1 .. m /\ \A i \in 1 .. k : i \in 1 .. m /\ q[i] \in 1 .. m /\ q[i] /= q[r]
  <2> HIDE DEF m, k
  <2>1. \A i \in 1 .. k : i \in 1 .. m /\ i /= r
    BY <1>1, <1>2, <1>8
  <2> HIDE DEF r
  <2> QED BY <1>5, <1>10, <2>1 DEF Order
<1>12. record \in RecordType /\ ValidRecord(record, header.totalDocuments) /\ SaysRecord(Current, record)
  <2> HIDE DEF r, m
  <2> QED BY <1>1, <1>3, <1>5, <1>6, <1>9, <1>10, <1>11
<1>13. \A other \in ToSet(documents) :
         other.document /= record.document /\ other.external /= record.external
  <2> TAKE other \in ToSet(documents)
  <2>1. PICK i \in 1 .. k : other = written.documents[q[i]]
    BY <1>2, <1>3 DEF ToSet
  <2>2. q[i] \in 1 .. m /\ q[r] \in 1 .. m /\ q[i] /= q[r]
    BY <1>11
  <2> HIDE DEF m, r
  <2> QED BY <1>7, <2>1, <2>2
<1> HIDE DEF record
<1>14. Parses(Current, RecordTypes) /\ ParsedRecord = record
  BY <1>12, RecordReads
<1> QED BY <1>9, <1>10, <1>12, <1>13, <1>14 DEF record


LEMMA ReadRecordInv ==
  ASSUME WrittenInv, ReadRecord
  PROVE  WrittenInv'
<1> DEFINE Reads == /\ More /\ Parses(Current, RecordTypes)
                    /\ ValidRecord(ParsedRecord, header.totalDocuments)
                    /\ \A record \in ToSet(documents) :
                         /\ record.document /= ParsedRecord.document
                         /\ record.external /= ParsedRecord.external
           longer == Append(documents, ParsedRecord)
           r == Len(documents) + 1
<1>1. /\ IsFile(stream) /\ native \in Seq(Documents)
      /\ TypedReader /\ TypedIndex /\ NothingWritten /\ FollowsWritten
  BY DEF WrittenInv
<1>2. /\ state = "documents" /\ Len(documents) < header.numDocuments
      /\ UNCHANGED <<native, stream, written>>
  BY DEF ReadRecord, history
<1>3. /\ header \in HeaderType /\ read \in Nat /\ IsSequence(lists) /\ IsSequence(documents)
      /\ \A i \in DOMAIN lists : lists[i] \in ListType
      /\ \A i \in DOMAIN documents : documents[i] \in RecordType
  BY <1>1, <1>2 DEF TypedReader, Reading
<1>4. Len(documents) \in Nat /\ DOMAIN documents = 1 .. Len(documents) /\ Len(lists) \in Nat
  BY <1>3, SequenceIs
<1>5. ASSUME written /= NoIndex
      PROVE  /\ written \in IndexType /\ Ordered(written) /\ Valid(written, Limits)
             /\ \E p, q : Follows(p, q)
  BY <1>1, <1>2, <1>5 DEF FollowsWritten, Reading
<1>6. CASE ~ Reads
  <2>1. state' = "refused"
    BY <1>6 DEF ReadRecord, Refuse
  <2>2. written = NoIndex
    BY <1>1, <1>2, <1>5, <1>6, NextRecordReads
  <2> HIDE DEF Reads
  <2> QED BY <1>2, <2>1, <2>2, SettledInv
<1>7. CASE Reads
  <2>1. documents' = longer /\ read' = read + 1 /\ UNCHANGED <<index, state, header, lists>>
    BY <1>7 DEF ReadRecord
  <2>2. ParsedRecord \in RecordType
    BY <1>7, ParsedRecordIsTyped
  <2>3. /\ IsSequence(longer) /\ Len(longer) = r /\ DOMAIN longer = 1 .. r
        /\ \A i \in DOMAIN documents : longer[i] = documents[i]
        /\ longer[r] = ParsedRecord
    BY <1>3, AppendedSequence
  <2>4. \A i \in 1 .. r : i \in DOMAIN documents \/ i = r
    BY <1>4
  <2> HIDE DEF longer, r
  <2>5. \A i \in DOMAIN longer : longer[i] \in RecordType
    BY <1>3, <2>2, <2>3, <2>4
  <2>6. TypedReader' /\ TypedIndex' /\ NothingWritten' /\ native' \in Seq(Documents) /\ IsFile(stream')
    <3>1. read' \in Nat
      BY <1>3, <2>1
    <3> QED BY <1>1, <1>2, <1>3, <2>1, <2>3, <2>5, <3>1 DEF TypedReader, TypedIndex, NothingWritten, Reading, Idle
  <2>7. ASSUME written /= NoIndex PROVE FollowsWritten'
    <3>1. written \in IndexType /\ Ordered(written) /\ Valid(written, Limits)
      BY <1>5, <2>7
    <3>2. PICK p, q : Follows(p, q)
      BY <1>5, <2>7
    <3>3. ParsedRecord = written.documents[q[r]] /\ r <= Len(written.documents)
      BY <1>1, <1>2, <3>1, <3>2, NextRecordReads DEF r
    <3>4. /\ FileSays(stream, written, p, q)
          /\ header = written.header /\ read = 1 + Len(lists) + Len(documents)
          /\ Len(lists) = Len(written.lists) /\ Len(lists) <= Len(written.lists)
          /\ \A i \in 1 .. Len(lists) : lists[i] = written.lists[p[i]]
          /\ \A i \in 1 .. Len(documents) : documents[i] = written.documents[q[i]]
      BY <1>2, <3>2 DEF Follows, Reading
    <3>5. \A i \in 1 .. r : longer[i] = written.documents[q[i]]
      BY <1>4, <2>3, <2>4, <3>3, <3>4
    <3>6. read' = 1 + Len(lists) + r
      <4>1. PICK n, m : n = Len(lists) /\ m = Len(documents)
        OBVIOUS
      <4>2. n \in Nat /\ m \in Nat /\ read = 1 + n + m /\ read' = read + 1 /\ r = m + 1
        BY <1>4, <2>1, <3>4, <4>1 DEF r
      <4> QED BY <4>1, <4>2
    <3>7. Follows(p, q)'
      BY <1>2, <2>1, <2>3, <3>3, <3>4, <3>5, <3>6 DEF Follows, Reading
    <3> QED BY <1>2, <2>1, <3>1, <3>7 DEF FollowsWritten
  <2>8. FollowsWritten'
    BY <1>2, <2>7 DEF FollowsWritten
  <2> QED BY <2>6, <2>8 DEF WrittenInv
<1> QED BY <1>6, <1>7

\* And nothing follows the last one.
LEMMA WholeReads ==
  ASSUME TypedReader, state = "documents", Len(documents) = header.numDocuments,
         written \in IndexType, Valid(written, Limits), Ordered(written),
         NEW p, NEW q, Follows(p, q)
  PROVE  ~ More /\ Assembled(header, lists, documents) = written
<1> DEFINE n == Len(written.lists)
           m == Len(written.documents)
<1>1. /\ n \in Nat /\ m \in Nat
  BY PartsAre
<1>2. /\ IsSequence(lists) /\ IsSequence(documents)
  BY DEF TypedReader, Reading
<1>3. /\ header = written.header /\ read = 1 + n + Len(documents) /\ Len(lists) = n
      /\ \A i \in 1 .. Len(lists) : lists[i] = written.lists[p[i]]
      /\ \A i \in 1 .. Len(documents) : documents[i] = written.documents[q[i]]
  BY DEF Follows, Reading
<1>4. Len(documents) = m
  BY <1>3 DEF Valid
<1>5. Len(stream) = 1 + n + m /\ Order(p, n) /\ Order(q, m)
  BY DEF Follows, FileSays
<1>6. ~ More
  <2> HIDE DEF n, m
  <2> QED BY <1>1, <1>3, <1>4, <1>5 DEF More
<1>7. lists = [i \in 1 .. n |-> written.lists[p[i]]]
  <2>1. lists = [i \in 1 .. n |-> lists[i]] /\ \A i \in 1 .. n : lists[i] = written.lists[p[i]]
    BY <1>2, <1>3 DEF IsSequence
  <2> HIDE DEF n
  <2> QED BY <2>1
<1>8. documents = [i \in 1 .. m |-> written.documents[q[i]]]
  <2>1. documents = [i \in 1 .. m |-> documents[i]] /\ \A i \in 1 .. m : documents[i] = written.documents[q[i]]
    BY <1>2, <1>3, <1>4 DEF IsSequence
  <2> HIDE DEF m
  <2> QED BY <2>1
<1>9. Assembled(written.header, lists, documents) = written
  <2>1. written \in IndexType /\ Ordered(written) /\ Order(p, Len(written.lists))
        /\ Order(q, Len(written.documents))
    BY <1>5
  <2>2. PICK l, d : l = lists /\ d = documents
    OBVIOUS
  <2>3. /\ l = Through(written.lists, p, Len(written.lists))
        /\ d = Through(written.documents, q, Len(written.documents))
    BY <1>7, <1>8, <2>2 DEF Through
  <2>4. Assembled(written.header, l, d) = written
    BY ONLY <2>1, <2>3, AssembledIs
  <2> QED BY <2>2, <2>4
<1> QED BY <1>3, <1>6, <1>9

LEMMA LoadInv ==
  ASSUME WrittenInv, Load
  PROVE  WrittenInv'
<1> DEFINE ciff == Assembled(header, lists, documents)
           Loads == ~ More /\ Valid(ciff, Limits)
<1>1. /\ IsFile(stream) /\ native \in Seq(Documents)
      /\ TypedReader /\ TypedIndex /\ NothingWritten /\ FollowsWritten
  BY DEF WrittenInv
<1>2. /\ state = "documents" /\ Len(documents) = header.numDocuments
      /\ UNCHANGED <<native, stream, written>>
  BY DEF Load, history
<1>3. /\ header \in HeaderType /\ IsSequence(lists) /\ IsSequence(documents)
      /\ \A i \in DOMAIN lists : lists[i] \in ListType
      /\ \A i \in DOMAIN documents : documents[i] \in RecordType
  BY <1>1, <1>2 DEF TypedReader, Reading
<1>4. ASSUME written /= NoIndex
      PROVE  ~ More /\ ciff = written /\ Valid(ciff, Limits)
  <2>1. written \in IndexType /\ Ordered(written) /\ Valid(written, Limits)
    BY <1>1, <1>2, <1>4 DEF FollowsWritten, Reading
  <2>2. PICK p, q : Follows(p, q)
    BY <1>1, <1>2, <1>4 DEF FollowsWritten, Reading
  <2>3. ~ More /\ ciff = written
    BY <1>1, <1>2, <2>1, <2>2, WholeReads
  <2> QED BY <2>1, <2>3
<1>5. CASE ~ Loads
  <2>1. state' = "refused"
    BY <1>5 DEF Load, Refuse
  <2>2. written = NoIndex
    BY <1>4, <1>5
  <2> HIDE DEF Loads
  <2> QED BY <1>2, <2>1, <2>2, SettledInv
<1>6. CASE Loads
  <2>1. /\ index' = ciff /\ state' = "loaded"
        /\ read' = 0 /\ lists' = <<>> /\ documents' = <<>>
    BY <1>6 DEF Load
  <2>2. ciff \in IndexType /\ Ordered(ciff)
    BY <1>3, <1>6, AssembledIsTyped
  <2> HIDE DEF ciff, Loads
  <2>3. TypedReader' /\ TypedIndex' /\ NothingWritten' /\ native' \in Seq(Documents) /\ IsFile(stream')
    BY <1>1, <1>2, <2>1, <2>2 DEF TypedReader, TypedIndex, NothingWritten, Reading, Idle
  <2>4. FollowsWritten'
    BY <1>2, <1>4, <2>1 DEF FollowsWritten, Reading
  <2> QED BY <2>3, <2>4 DEF WrittenInv
<1> QED BY <1>5, <1>6


LEMMA WrittenInvNext ==
  ASSUME WrittenInv, AverageIsNatural, [Next]_vars
  PROVE  WrittenInv'
<1>1. CASE (\E document \in Documents : AddNative(document)) \/ Export
  BY <1>1, NativeInv
<1>2. CASE Write
  BY <1>2, WriteInv
<1>3. ASSUME NEW file \in Foreign, Receive(file) PROVE WrittenInv'
  BY <1>3, ReceiveInv
<1>4. CASE Rearrange \/ Corrupt
  BY <1>4, ChangedInv
<1>5. CASE ReadHeader
  BY <1>5, ReadHeaderInv
<1>6. CASE ReadList
  BY <1>6, ReadListInv
<1>7. CASE EndLists
  BY <1>7, EndListsInv
<1>8. CASE ReadRecord
  BY <1>8, ReadRecordInv
<1>9. CASE Load
  BY <1>9, LoadInv
<1>10. CASE \/ \E q \in Requests : Search(Request(q), "loaded", "searching")
            \/ Search(ScoreTerm, "searching", "searching")
            \/ Search(Rank, "searching", "answered")
  <2>1. /\ state' \in {"searching", "answered"}
        /\ UNCHANGED <<native, stream, written>>
    BY <1>10 DEF Search, history
  <2> QED BY <2>1, SettledInv
<1>11. CASE UNCHANGED vars
  BY <1>11 DEF vars, reader, history, WrittenInv, TypedReader, TypedIndex, NothingWritten,
               FollowsWritten, Follows, Reading, Idle
<1> QED BY <1>1, <1>2, <1>3, <1>4, <1>5, <1>6, <1>7, <1>8, <1>9, <1>10, <1>11 DEF Next

\* What is written is read back: for every native index, every file of other programs and
\* every limit.  Whatever Write writes under some limits, ReadHeader, ReadList, ReadRecord
\* and Load accept under the same limits, and load as the same index; so they do when lists
\* or documents were put in another order, fields swapped or unknown fields added.
THEOREM WrittenIsReadBack ==
  ASSUME AverageIsNatural
  PROVE  Spec => []WrittenReadsBack
<1>1. Init => WrittenInv
  BY WrittenInvInit
<1>2. WrittenInv /\ [Next]_vars => WrittenInv'
  BY WrittenInvNext
<1>3. WrittenInv => WrittenReadsBack
  BY DEF WrittenInv, FollowsWritten, WrittenReadsBack
<1> QED BY <1>1, <1>2, <1>3, PTL DEF Spec

-----------------------------------------------------------------------------
\* Both ways to an index, Export and Load, end with validate.
Validated == index = NoIndex \/ \E limits : Valid(index, limits)

\* The same for every file and every change of it: documents have different numbers and
\* the last cross-check finds one for each posting, so a search looks up exactly one record.
THEOREM EveryPostingHasItsRecord == Spec => []NoDanglingPosting
<1>1. Init => Validated
  BY DEF Init, Validated
<1>2. Validated /\ [Next]_vars => Validated'
  <2> SUFFICES ASSUME Validated, [Next]_vars PROVE Validated'
    OBVIOUS
  <2>1. ASSUME NEW document \in Documents, AddNative(document) PROVE Validated'
    BY <2>1 DEF AddNative, Validated
  <2>2. CASE Export
    BY <2>2 DEF Export, Validated
  <2>3. CASE Write
    BY <2>3 DEF Write, Validated
  <2>4. ASSUME NEW file \in Foreign, Receive(file) PROVE Validated'
    BY <2>4 DEF Receive, Validated
  <2>5. CASE Rearrange \/ Corrupt
    <3>1. UNCHANGED index
      BY <2>5 DEF Rearrange, Corrupt, Change
    <3> QED BY <3>1 DEF Validated
  <2>6. CASE ReadHeader
    BY <2>6 DEF ReadHeader, Refuse, Validated
  <2>7. CASE ReadList
    BY <2>7 DEF ReadList, Refuse, Validated
  <2>8. CASE EndLists
    BY <2>8 DEF EndLists, Validated
  <2>9. CASE ReadRecord
    BY <2>9 DEF ReadRecord, Refuse, Validated
  <2>10. CASE Load
    BY <2>10 DEF Load, Refuse, Validated
  <2>11. CASE \/ \E q \in Requests : Search(Request(q), "loaded", "searching")
              \/ Search(ScoreTerm, "searching", "searching")
              \/ Search(Rank, "searching", "answered")
    <3>1. UNCHANGED index
      BY <2>11 DEF Search
    <3> QED BY <3>1 DEF Validated
  <2>12. CASE UNCHANGED vars
    BY <2>12 DEF vars, Validated
  <2> QED BY <2>1, <2>2, <2>3, <2>4, <2>5, <2>6, <2>7, <2>8, <2>9, <2>10, <2>11, <2>12 DEF Next
<1>3. Validated => NoDanglingPosting
  <2>1. CASE index = NoIndex
    BY <2>1 DEF NoIndex, NoDanglingPosting, ToSet
  <2>2. ASSUME NEW limits, Valid(index, limits),
               NEW list \in ToSet(index.lists), NEW posting \in ToSet(list.postings)
        PROVE  Cardinality({record \in ToSet(index.documents) :
                              record.document = posting.document}) = 1
    <3> DEFINE records == index.documents
    <3>1. \A i, j \in DOMAIN records : records[i].document = records[j].document => i = j
      BY <2>2 DEF Valid, Distinct
    <3>2. PICK record \in ToSet(records) : record.document = posting.document
      BY <2>2 DEF Valid, ReferencesResolve
    <3>3. {other \in ToSet(records) : other.document = posting.document} = {record}
      BY <3>1, <3>2 DEF ToSet
    <3> QED BY <3>3, FS_Singleton
  <2> QED BY <2>1, <2>2 DEF Validated, NoDanglingPosting
<1> QED BY <1>1, <1>2, <1>3, PTL DEF Spec


-----------------------------------------------------------------------------
\* The search of an export.

\* What the collection holds: the documents of a term, the tokens of all, and what a term
\* is worth in a document.
HoldersOf(docs, t) == {d \in 0 .. Len(docs) - 1 : Frequency(docs[d + 1], t) > 0}
TokensOf(docs) == SumFunction([i \in 1 .. Len(docs) |-> LengthOf(docs[i])])
Worth(docs, d, t) ==
  Impact(Frequency(docs[d + 1], t), LengthOf(docs[d + 1]), Cardinality(HoldersOf(docs, t)),
         Len(docs), Average(TokensOf(docs), Len(docs)))
Matching(docs, terms, d) == {t \in terms : d \in HoldersOf(docs, t)}
Total(docs, terms, d) == SumFunction([t \in Matching(docs, terms, d) |-> Worth(docs, d, t)])
Wanted(docs, q) ==
  {d \in 0 .. Len(docs) - 1 :
     IF q.operator = "Or" THEN Matching(docs, q.terms, d) /= {}
                          ELSE Matching(docs, q.terms, d) = q.terms}
Answers(docs, q) == {[doc |-> d, score |-> Total(docs, q.terms, d)] : d \in Wanted(docs, q)}

\* Collection says the same of the documents with their fields joined.
Bag(docs) == [i \in DOMAIN docs |-> Joined(docs[i])]
Asked(q, docs) ==
  [terms |-> q.terms, operator |-> q.operator, top_k |-> q.top_k, accepts |-> ToSet(Bag(docs))]

LEMMA NativeSums == \A f : Native!SumFunction(f) = SumFunction(f)
BY DEF SumFunction, SumFunctionOnSet, FoldFunctionOnSet, MapThenFoldSet,
       Native!SumFunction, Native!SumFunctionOnSet, Native!FoldFunctionOnSet,
       Native!MapThenFoldSet

LEMMA NativeCardinality == \A S : Native!Cardinality(S) = Cardinality(S)
BY DEF Native!Cardinality, Cardinality

LEMMA JoinedIs ==
  ASSUME NEW document
  PROVE  /\ \A t \in Terms : Joined(document).tf[t] = Frequency(document, t)
         /\ Native!Length(Joined(document)) = LengthOf(document)
<1>1. Joined(document).tf = [t \in Terms |-> Frequency(document, t)]
  BY DEF Joined, Frequency
<1>2. Native!Length(Joined(document)) = SumFunction(Joined(document).tf)
  BY NativeSums DEF Native!Length
<1> QED BY <1>1, <1>2 DEF LengthOf

LEMMA StatisticsAre ==
  ASSUME NEW docs \in Seq(Documents)
  PROVE  /\ Native!Statistics(Bag(docs)).count = Len(docs)
         /\ \A t \in Terms :
              Native!Statistics(Bag(docs)).frequency[t] = Cardinality(HoldersOf(docs, t))
         /\ Native!Statistics(Bag(docs)).tokens = TokensOf(docs)
<1> DEFINE n == Len(docs)
           bag == Bag(docs)
           Held(t) == {i \in DOMAIN bag : bag[i].tf[t] > 0}
           lengths == [i \in DOMAIN bag |-> Native!Length(bag[i])]
<1>1. n \in Nat /\ DOMAIN docs = 1 .. n
  BY SeqElements
<1>2. DOMAIN bag = 1 .. n /\ \A i \in 1 .. n : bag[i] = Joined(docs[i])
  BY <1>1 DEF Bag
<1>3. Len(bag) = n
  <2> HIDE DEF bag, n
  <2>1. bag \in [1 .. n -> {bag[i] : i \in 1 .. n}]
    <3>1. bag = [i \in 1 .. n |-> bag[i]]
      BY <1>1, <1>2 DEF bag, Bag, n
    <3> QED BY <3>1
  <2> QED BY <1>1, <2>1, FunctionIsSeq
<1>4. /\ Native!Statistics(bag).count = Len(bag)
      /\ \A t \in Terms : Native!Statistics(bag).frequency[t] = Native!Cardinality(Held(t))
      /\ Native!Statistics(bag).tokens = Native!SumFunction(lengths)
  <2> HIDE DEF bag
  <2> QED BY DEF Native!Statistics
<1> HIDE DEF bag, n
<1>5. lengths = [i \in 1 .. n |-> LengthOf(docs[i])]
  <2>1. \A i \in 1 .. n : Native!Length(bag[i]) = LengthOf(docs[i])
    BY <1>2, JoinedIs
  <2> QED BY <1>2, <2>1
<1>6. TokensOf(docs) = SumFunction([i \in 1 .. n |-> LengthOf(docs[i])])
  BY DEF TokensOf, n
<1>7. ASSUME NEW t \in Terms PROVE Cardinality(Held(t)) = Cardinality(HoldersOf(docs, t))
  <2> DEFINE S == HoldersOf(docs, t)
             held == Held(t)
             f == [d \in S |-> d + 1]
  <2>1. S \subseteq 0 .. n - 1 /\ \A d \in 0 .. n - 1 : d \in S <=> Frequency(docs[d + 1], t) > 0
    BY DEF HoldersOf, n
  <2>2. held \subseteq 1 .. n /\ \A i \in 1 .. n : i \in held <=> Frequency(docs[i], t) > 0
    <3>1. \A i \in 1 .. n : bag[i].tf[t] = Frequency(docs[i], t)
      BY <1>2, JoinedIs
    <3> QED BY <1>2, <3>1
  <2> HIDE DEF S, held
  <2>3. IsFiniteSet(S)
    <3>1. IsFiniteSet(0 .. n - 1)
      BY <1>1, FS_Interval
    <3> QED BY <2>1, <3>1, FS_Subset
  <2>4. f \in Bijection(S, held)
    <3>1. \A d \in S : f[d] \in held
      BY <1>1, <2>1, <2>2
    <3>2. \A a, b \in S : f[a] = f[b] => a = b
      BY <1>1, <2>1
    <3>3. \A i \in held : \E d \in S : f[d] = i
      <4> TAKE i \in held
      <4>1. i - 1 \in 0 .. n - 1 /\ (i - 1) + 1 = i
        BY <1>1, <2>2
      <4>2. i - 1 \in S
        BY <2>1, <2>2, <4>1
      <4> QED BY <4>1, <4>2
    <3> QED BY <3>1, <3>2, <3>3 DEF Bijection, Injection, Surjection, IsInjective
  <2>5. Cardinality(S) = Cardinality(held)
    BY <2>3, <2>4, FS_Bijection DEF ExistsBijection
  <2> QED BY <2>5 DEF S, held
<1> HIDE DEF Held, lengths
<1>8. Native!Statistics(bag).tokens = TokensOf(docs)
  BY <1>4, <1>5, <1>6, NativeSums
<1> QED BY <1>3, <1>4, <1>7, <1>8, NativeCardinality DEF bag, n

LEMMA ResultsAre ==
  ASSUME NEW docs \in Seq(Documents), NEW q, q.terms \subseteq Terms
  PROVE  Native!Results(Asked(q, docs), Bag(docs), Native!Statistics(Bag(docs))) = Answers(docs, q)
<1> DEFINE n == Len(docs)
           bag == Bag(docs)
           stats == Native!Statistics(bag)
           asked == Asked(q, docs)
           terms == q.terms
<1>1. n \in Nat /\ DOMAIN docs = 1 .. n
  BY SeqElements
<1>2. DOMAIN bag = 1 .. n /\ \A i \in 1 .. n : bag[i] = Joined(docs[i])
  BY <1>1 DEF Bag
<1>3. /\ asked.terms = terms /\ asked.operator = q.operator
      /\ \A i \in 1 .. n : bag[i] \in asked.accepts
  BY <1>2 DEF Asked, ToSet
<1>4. /\ stats.count = n /\ stats.tokens = TokensOf(docs)
      /\ \A t \in Terms : stats.frequency[t] = Cardinality(HoldersOf(docs, t))
  BY StatisticsAre
<1>5. /\ \A i \in 1 .. n : \A t \in Terms : bag[i].tf[t] = Frequency(docs[i], t)
      /\ \A i \in 1 .. n : Native!Length(bag[i]) = LengthOf(docs[i])
  BY <1>2, JoinedIs
<1>6. Native!Results(asked, bag, stats) =
        {[doc |-> i - 1, score |-> Native!Score(bag[i], terms, stats)] :
           i \in {i \in 1 .. n : Native!Selects(asked, bag[i])}}
  <2> HIDE DEF bag, stats, asked, terms
  <2> QED BY <1>2, <1>3 DEF Native!Results
<1> HIDE DEF bag, stats, asked, n, terms
<1>7. ASSUME NEW i \in 1 .. n, NEW d, d = i - 1
      PROVE  /\ d \in 0 .. n - 1
             /\ {t \in terms : bag[i].tf[t] > 0} = Matching(docs, terms, d)
             /\ Native!Score(bag[i], terms, stats) = Total(docs, terms, d)
             /\ Native!Selects(asked, bag[i]) <=> d \in Wanted(docs, q)
  <2>1. d \in 0 .. n - 1 /\ d + 1 = i
    BY <1>1, <1>7
  <2>2. \A t \in terms : t \in Terms
    BY DEF terms
  <2>3. \A t \in Terms : d \in HoldersOf(docs, t) <=> bag[i].tf[t] > 0
    BY <1>5, <2>1 DEF HoldersOf, n
  <2>4. {t \in terms : bag[i].tf[t] > 0} = Matching(docs, terms, d)
    BY <2>2, <2>3 DEF Matching
  <2>5. Native!Score(bag[i], terms, stats) =
          SumFunction([t \in Matching(docs, terms, d) |->
                         JoinedImpact(bag[i].tf[t], Native!Length(bag[i]), stats.frequency[t],
                                      stats.count, stats.tokens)])
    BY <2>4, NativeSums DEF Native!Score
  <2>6. ASSUME NEW t \in Terms
        PROVE  JoinedImpact(bag[i].tf[t], Native!Length(bag[i]), stats.frequency[t],
                            stats.count, stats.tokens) = Worth(docs, d, t)
    BY <1>4, <1>5, <2>1 DEF JoinedImpact, Worth, n
  <2>7. \A t \in Matching(docs, terms, d) : t \in Terms
    BY <2>2 DEF Matching
  <2>8. Native!Score(bag[i], terms, stats) = Total(docs, terms, d)
    BY <2>5, <2>6, <2>7 DEF Total
  <2>9. Native!Selects(asked, bag[i]) <=> d \in Wanted(docs, q)
    <3>1. Native!Selects(asked, bag[i]) <=>
            IF q.operator = "Or" THEN \E t \in terms : bag[i].tf[t] > 0
                                 ELSE \A t \in terms : bag[i].tf[t] > 0
      BY <1>3 DEF Native!Selects
    <3>2. d \in Wanted(docs, q) <=>
            IF q.operator = "Or" THEN Matching(docs, terms, d) /= {}
                                 ELSE Matching(docs, terms, d) = terms
      BY <2>1 DEF Wanted, terms, n
    <3>3. (\E t \in terms : bag[i].tf[t] > 0) <=> Matching(docs, terms, d) /= {}
      BY <2>2, <2>3 DEF Matching
    <3>4. (\A t \in terms : bag[i].tf[t] > 0) <=> Matching(docs, terms, d) = terms
      BY <2>2, <2>3 DEF Matching
    <3> QED BY <3>1, <3>2, <3>3, <3>4
  <2> QED BY <2>1, <2>4, <2>8, <2>9
<1>8. \A d \in Wanted(docs, q) : d + 1 \in 1 .. n /\ (d + 1) - 1 = d
  BY <1>1 DEF Wanted, n
<1>9. Answers(docs, q) = {[doc |-> d, score |-> Total(docs, terms, d)] : d \in Wanted(docs, q)}
  BY DEF Answers, terms
<1>10. \A x : x \in Native!Results(asked, bag, stats) => x \in Answers(docs, q)
  <2> SUFFICES ASSUME NEW i \in 1 .. n, Native!Selects(asked, bag[i])
               PROVE  [doc |-> i - 1, score |-> Native!Score(bag[i], terms, stats)] \in Answers(docs, q)
    BY <1>6
  <2>1. PICK d : d = i - 1
    OBVIOUS
  <2>2. d \in Wanted(docs, q) /\ Native!Score(bag[i], terms, stats) = Total(docs, terms, d)
    BY <1>7, <2>1
  <2> QED BY <1>9, <2>1, <2>2
<1>11. \A x : x \in Answers(docs, q) => x \in Native!Results(asked, bag, stats)
  <2> SUFFICES ASSUME NEW d \in Wanted(docs, q)
               PROVE  [doc |-> d, score |-> Total(docs, terms, d)] \in Native!Results(asked, bag, stats)
    BY <1>9
  <2>1. PICK i \in 1 .. n : d = i - 1
    BY <1>8
  <2>2. Native!Selects(asked, bag[i]) /\ Native!Score(bag[i], terms, stats) = Total(docs, terms, d)
    BY <1>7, <2>1
  <2> QED BY <1>6, <2>1, <2>2
<1> QED BY <1>10, <1>11 DEF asked, bag, stats


\* What a search needs of an index: the list of a term has the documents that hold it, and
\* every document its record.
Tallies(list, docs, t) ==
  /\ list.df = Cardinality(HoldersOf(docs, t))
  /\ ToSet(list.postings) =
       {[document |-> d, frequency |-> Frequency(docs[d + 1], t)] : d \in HoldersOf(docs, t)}

ListOfTerm(ix, t) == {list \in ToSet(ix.lists) : list.term = t}
RecordOf(ix, d) == {record \in ToSet(ix.documents) : record.document = d}

IsFlat(ix, docs) ==
  /\ ix \in IndexType
  /\ ix.header.totalDocuments = Len(docs)
  /\ ix.header.average = Average(TokensOf(docs), Len(docs))
  /\ \A t \in Terms : HoldersOf(docs, t) = {} => ListOfTerm(ix, t) = {}
  /\ \A t \in Terms : HoldersOf(docs, t) /= {} =>
       \E list : ListOfTerm(ix, t) = {list} /\ Tallies(list, docs, t)
  /\ \A d \in 0 .. Len(docs) - 1 :
       \E record : RecordOf(ix, d) = {record} /\ record.length = LengthOf(docs[d + 1])

LEMMA FlatListTallies ==
  ASSUME native \in Seq(Documents), NEW t \in Terms
  PROVE  /\ Tallies(FlatList(t), native, t)
         /\ Holding(t) = <<>> <=> HoldersOf(native, t) = {}
<1> DEFINE held == Holding(t)
           S == HoldersOf(native, t)
           n == Cardinality(S)
           postings == [i \in DOMAIN held |-> [document |-> held[i],
                                               frequency |-> Frequency(native[held[i] + 1], t)]]
<1>1. Enumerates(held, n, S) /\ \A d \in S : d \in Nat
  <2>1. HolderSet(t) = S
    BY DEF HolderSet, HoldersOf
  <2> QED BY <2>1, HoldersAre
<1>2. FlatList(t) = [term |-> t, df |-> Len(postings), cf |-> SumOfFrequencies(postings),
                     postings |-> postings]
  BY DEF FlatList
<1> HIDE DEF held, n
<1>3. n \in Nat /\ DOMAIN held = 1 .. n
  <2>1. n \in Nat /\ held = [k \in 1 .. n |-> held[k]]
    BY <1>1 DEF Enumerates
  <2> QED BY <2>1
<1>4. DOMAIN postings = 1 .. n /\ \A i \in 1 .. n :
        postings[i] = [document |-> held[i], frequency |-> Frequency(native[held[i] + 1], t)]
  BY <1>3
<1>5. Len(postings) = n
  <2> DEFINE T == {postings[i] : i \in 1 .. n}
  <2>1. postings = [i \in 1 .. n |-> postings[i]]
    BY <1>3
  <2> HIDE DEF postings
  <2>2. postings \in [1 .. n -> T]
    BY <2>1
  <2> HIDE DEF T
  <2> QED BY <1>3, <2>2, FunctionIsSeq
<1> DEFINE Posting(d) == [document |-> d, frequency |-> Frequency(native[d + 1], t)]
<1> HIDE DEF postings, S
<1>6. ToSet(postings) = {Posting(d) : d \in S}
  <2>1. ToSet(postings) = {postings[i] : i \in 1 .. n}
    BY <1>4 DEF ToSet
  <2>2. \A i \in 1 .. n : held[i] \in S
    BY <1>1 DEF Enumerates
  <2>3. \A d \in S : \E i \in 1 .. n : held[i] = d
    BY <1>1 DEF Enumerates
  <2> QED BY <1>4, <2>1, <2>2, <2>3
<1>7. Tallies(FlatList(t), native, t)
  BY <1>2, <1>5, <1>6 DEF Tallies, S, n
<1>8. held = <<>> <=> S = {}
  <2>1. S = {} => n = 0
    BY FS_EmptySet DEF n
  <2>2. ASSUME n = 0 PROVE held = <<>>
    <3>1. DOMAIN held = {}
      BY <1>3, <2>2
    <3>2. held \in [1 .. 0 -> {}]
      BY <1>1, <2>2 DEF Enumerates
    <3>3. held \in Seq({}) /\ Len(held) = 0
      BY <3>2, FunctionIsSeq
    <3> QED BY <3>3
  <2>3. ASSUME held = <<>> PROVE S = {}
    <3>1. 1 .. n = {}
      BY <1>3, <2>3, NothingIs
    <3> QED BY <1>1, <3>1 DEF Enumerates
  <2> QED BY <2>1, <2>2, <2>3
<1> QED BY <1>7, <1>8 DEF held, S


LEMMA FlattenedIsFlat ==
  ASSUME native \in Seq(Documents), AverageIsNatural
  PROVE  IsFlat(Flattened, native)
<1> DEFINE n == Len(native)
           S == {t \in Terms : Holding(t) /= <<>>}
           m == Cardinality(S)
           terms == InOrder(S)
           ix == Flattened
           lengths == [i \in DOMAIN Records |-> Records[i].length]
<1>1. n \in Nat /\ DOMAIN native = 1 .. n
  BY NativeIs
<1>2. /\ ix.header.totalDocuments = n
      /\ ix.header.average = Average(SumFunction(lengths), n)
      /\ ix.lists = FlatLists /\ ix.documents = Records
  BY DEF Flattened
<1>3. Enumerates(terms, m, S)
  <2>1. S \subseteq Terms /\ IsFiniteSet(Terms) /\ Terms \subseteq Nat
    BY CiffAssumption
  <2> HIDE DEF S
  <2>2. S \in SUBSET Nat /\ IsFiniteSet(S)
    BY <2>1, FS_Subset
  <2> QED BY <2>2, InOrderIs
<1>4. S \subseteq Terms /\ \A t \in Terms : t \in S <=> HoldersOf(native, t) /= {}
  BY FlatListTallies
<1>5. FlatLists = [i \in DOMAIN terms |-> FlatList(terms[i])]
  BY DEF FlatLists
<1>6. Records = [i \in 1 .. n |-> [document |-> i - 1, external |-> native[i].id,
                                   length |-> LengthOf(native[i])]]
  BY <1>1 DEF Records
<1> HIDE DEF n, S, m, terms, ix
<1>7. DOMAIN FlatLists = 1 .. m /\ \A i \in 1 .. m : FlatLists[i] = FlatList(terms[i]) /\ terms[i] \in S
  <2>1. terms = [i \in 1 .. m |-> terms[i]] /\ \A i \in 1 .. m : terms[i] \in S
    BY <1>3 DEF Enumerates
  <2>2. DOMAIN terms = 1 .. m
    BY <2>1
  <2> QED BY <1>5, <2>1, <2>2
<1>8. ToSet(ix.lists) = {FlatList(t) : t \in S}
  <2>1. ToSet(ix.lists) = {FlatLists[i] : i \in 1 .. m}
    BY <1>2, <1>7 DEF ToSet
  <2>2. \A t \in S : \E i \in 1 .. m : terms[i] = t
    BY <1>3 DEF Enumerates
  <2> QED BY <1>7, <2>1, <2>2
<1>9. \A t \in S : FlatList(t).term = t
  BY <1>4, FlatListIsTyped
<1>10. ASSUME NEW t \in Terms, HoldersOf(native, t) = {} PROVE ListOfTerm(ix, t) = {}
  <2>1. t \notin S
    BY <1>4, <1>10
  <2> QED BY <1>8, <1>9, <2>1 DEF ListOfTerm
<1>11. ASSUME NEW t \in Terms, HoldersOf(native, t) /= {}
       PROVE  \E list : ListOfTerm(ix, t) = {list} /\ Tallies(list, native, t)
  <2>1. t \in S
    BY <1>4, <1>11
  <2>2. ListOfTerm(ix, t) = {FlatList(t)}
    BY <1>8, <1>9, <2>1 DEF ListOfTerm
  <2> QED BY <2>2, FlatListTallies
<1>12. ASSUME NEW d \in 0 .. n - 1
       PROVE  \E record : RecordOf(ix, d) = {record} /\ record.length = LengthOf(native[d + 1])
  <2>1. PICK i \in 1 .. n : d = i - 1 /\ d + 1 = i
    BY <1>1
  <2>2. ToSet(ix.documents) = {Records[k] : k \in 1 .. n}
    BY <1>2, <1>6 DEF ToSet
  <2>3. \A k \in 1 .. n : Records[k].document = k - 1
    BY <1>6
  <2>4. \A k \in 1 .. n : k - 1 = d => k = i
    BY <1>1, <2>1
  <2>5. RecordOf(ix, d) = {Records[i]}
    BY <2>1, <2>2, <2>3, <2>4 DEF RecordOf
  <2>6. Records[i].length = LengthOf(native[d + 1])
    BY <1>6, <2>1
  <2> QED BY <2>5, <2>6
<1>13. SumFunction(lengths) = TokensOf(native)
  <2>1. lengths = [i \in 1 .. n |-> LengthOf(native[i])]
    BY <1>6
  <2> QED BY <2>1 DEF TokensOf, n
<1>14. ix \in IndexType
  BY FlattenedIs DEF ix
<1> HIDE DEF lengths
<1>15. ix.header.totalDocuments = Len(native) /\ ix.header.average = Average(TokensOf(native), Len(native))
  BY <1>2, <1>13 DEF n
<1>16. \A d \in 0 .. Len(native) - 1 :
         \E record : RecordOf(ix, d) = {record} /\ record.length = LengthOf(native[d + 1])
  BY <1>12 DEF n
<1>17. IsFlat(ix, native)
  BY <1>10, <1>11, <1>14, <1>15, <1>16 DEF IsFlat
<1> QED BY <1>17 DEF ix

\* What one term adds.
Gains(t) ==
  UNION {{[document |-> posting.document, score |-> Contribution(list, posting)] :
            posting \in ToSet(list.postings)} : list \in ListsOf(t)}

LEMMA GainsAre ==
  ASSUME IsFlat(index, native), Len(native) \in Nat, NEW t \in Terms
  PROVE  /\ Gains(t) = {[document |-> d, score |-> Worth(native, d, t)] : d \in HoldersOf(native, t)}
         /\ ListsOf(t) = {} <=> HoldersOf(native, t) = {}
<1> DEFINE S == HoldersOf(native, t)
           Posting(d) == [document |-> d, frequency |-> Frequency(native[d + 1], t)]
<1>1. ListsOf(t) = ListOfTerm(index, t)
  BY DEF ListsOf, ListOfTerm
<1>2. CASE S = {}
  <2>1. ListsOf(t) = {}
    BY <1>1, <1>2 DEF IsFlat
  <2>2. Gains(t) = {}
    BY <2>1 DEF Gains
  <2> QED BY <1>2, <2>1, <2>2
<1>3. CASE S /= {}
  <2>1. PICK list : ListsOf(t) = {list} /\ Tallies(list, native, t)
    BY <1>1, <1>3 DEF IsFlat
  <2>2. /\ list.df = Cardinality(S)
        /\ ToSet(list.postings) = {Posting(d) : d \in S}
    BY <2>1 DEF Tallies
  <2>3. Gains(t) = {[document |-> posting.document, score |-> Contribution(list, posting)] :
                      posting \in ToSet(list.postings)}
    BY <2>1 DEF Gains
  <2>4. ASSUME NEW d \in S
        PROVE  Posting(d).document = d /\ Contribution(list, Posting(d)) = Worth(native, d, t)
    <3>1. d \in 0 .. Len(native) - 1
      BY DEF HoldersOf
    <3>2. PICK record : RecordOf(index, d) = {record} /\ record.length = LengthOf(native[d + 1])
      BY <3>1 DEF IsFlat
    <3>3. Lookup(d) = record
      <4>1. Lookup(d) = CHOOSE other \in ToSet(index.documents) : other.document = d
        BY DEF Lookup
      <4>2. record \in ToSet(index.documents) /\ record.document = d
        BY <3>2 DEF RecordOf
      <4>3. \A other \in ToSet(index.documents) : other.document = d => other = record
        BY <3>2 DEF RecordOf
      <4> QED BY <4>1, <4>2, <4>3
    <3>4. /\ index.header.totalDocuments = Len(native)
          /\ index.header.average = Average(TokensOf(native), Len(native))
      BY DEF IsFlat
    <3> QED BY <2>2, <3>2, <3>3, <3>4 DEF Contribution, Worth
  <2>5. Gains(t) = {[document |-> d, score |-> Worth(native, d, t)] : d \in S}
    <3> HIDE DEF Posting, S
    <3>1. Gains(t) = {[document |-> Posting(d).document, score |-> Contribution(list, Posting(d))] : d \in S}
      BY <2>2, <2>3
    <3> QED BY <2>4, <3>1
  <2> QED BY <1>3, <2>1, <2>5
<1> QED BY <1>2, <1>3


\* Scores are integers, so that they add up exactly.
ScoresAreIntegers ==
  \A tf, length, df, count, average \in Nat : Impact(tf, length, df, count, average) \in Int

LEMMA WorthIsInteger ==
  ASSUME NEW docs \in Seq(Documents), AverageIsNatural, ScoresAreIntegers,
         NEW t \in Terms, NEW d \in HoldersOf(docs, t)
  PROVE  Worth(docs, d, t) \in Int
<1> DEFINE n == Len(docs)
           lengths == [i \in 1 .. n |-> LengthOf(docs[i])]
           tf == Frequency(docs[d + 1], t)
           length == LengthOf(docs[d + 1])
           df == Cardinality(HoldersOf(docs, t))
           average == Average(TokensOf(docs), n)
<1>1. n \in Nat /\ \A i \in 1 .. n : docs[i] \in Documents
  BY SeqElements
<1>2. d \in 0 .. n - 1 /\ HoldersOf(docs, t) \subseteq 0 .. n - 1
  BY DEF HoldersOf
<1>3. docs[d + 1] \in Documents
  <2>1. d + 1 \in 1 .. n
    BY <1>1, <1>2
  <2> QED BY <1>1, <2>1
<1>4. tf \in Nat /\ length \in Nat
  BY <1>3, FrequencyIsNatural, LengthIsNatural
<1>5. df \in Nat
  <2>1. IsFiniteSet(0 .. n - 1)
    BY <1>1, FS_Interval
  <2>2. IsFiniteSet(HoldersOf(docs, t))
    BY <1>2, <2>1, FS_Subset
  <2> QED BY <2>2, FS_CardinalityType
<1>6. TokensOf(docs) \in Nat
  <2>1. DOMAIN lengths = 1 .. n /\ \A i \in 1 .. n : lengths[i] \in Nat
    BY <1>1, LengthIsNatural
  <2>2. IsFiniteSet(1 .. n)
    BY <1>1, FS_Interval
  <2>3. TokensOf(docs) = SumFunction(lengths)
    BY DEF TokensOf
  <2> HIDE DEF lengths, n
  <2> QED BY <2>1, <2>2, <2>3, SumOfNaturals
<1>7. average \in Nat
  BY <1>1, <1>6 DEF AverageIsNatural
<1>8. Worth(docs, d, t) = Impact(tf, length, df, n, average)
  BY DEF Worth
<1> HIDE DEF tf, length, df, n, average
<1> QED BY <1>1, <1>4, <1>5, <1>7, <1>8 DEF ScoresAreIntegers

\* One more term.
LEMMA TotalOfMore ==
  ASSUME NEW docs \in Seq(Documents), AverageIsNatural, ScoresAreIntegers,
         NEW done \in SUBSET Terms, NEW t \in Terms \ done, NEW d
  PROVE  /\ d \notin HoldersOf(docs, t) =>
              Matching(docs, done \union {t}, d) = Matching(docs, done, d)
         /\ d \in HoldersOf(docs, t) =>
              /\ Matching(docs, done \union {t}, d) /= {}
              /\ Total(docs, done \union {t}, d) = Total(docs, done, d) + Worth(docs, d, t)
              /\ Cardinality(Matching(docs, done \union {t}, d)) =
                   Cardinality(Matching(docs, done, d)) + 1
         /\ Matching(docs, done, d) = {} =>
              Total(docs, done, d) = 0 /\ Cardinality(Matching(docs, done, d)) = 0
<1> DEFINE S == Matching(docs, done, d)
           more == Matching(docs, done \union {t}, d)
           f == [u \in more |-> Worth(docs, d, u)]
           g == [u \in S |-> Worth(docs, d, u)]
<1>1. Total(docs, done, d) = SumFunction(g) /\ Total(docs, done \union {t}, d) = SumFunction(f)
  BY DEF Total
<1>2. /\ S \subseteq Terms /\ t \notin S /\ \A u \in S : d \in HoldersOf(docs, u)
      /\ d \notin HoldersOf(docs, t) => more = S
      /\ d \in HoldersOf(docs, t) => more = S \union {t}
  BY DEF Matching
<1>3. IsFiniteSet(S)
  BY <1>2, CiffAssumption, FS_Subset
<1> HIDE DEF S, more
<1>4. ASSUME d \in HoldersOf(docs, t)
      PROVE  SumFunction(f) = SumFunction(g) + Worth(docs, d, t) /\ Cardinality(more) = Cardinality(S) + 1
  <2>1. \A u \in more : Worth(docs, d, u) \in Int
    BY <1>2, <1>4, WorthIsInteger
  <2>2. more = S \union {t} /\ t \in more
    BY <1>2, <1>4
  <2>3. f[t] = Worth(docs, d, t) /\ DOMAIN f = S \union {t} /\ DOMAIN g = S
        /\ (\A u \in S \union {t} : f[u] \in Int) /\ \A u \in S : g[u] = f[u]
    BY <2>1, <2>2
  <2> HIDE DEF f, g
  <2>4. OneMore(f, g, S, t)
    BY <1>2, <1>3, <2>3 DEF OneMore
  <2>5. SumFunction(f) = SumFunction(g) + f[t]
    BY <2>4, OneMoreAdds
  <2>6. Cardinality(more) = Cardinality(S) + 1
    BY <1>2, <1>3, <2>2, FS_AddElement
  <2> QED BY <2>3, <2>5, <2>6
<1>5. ASSUME S = {} PROVE SumFunction(g) = 0 /\ Cardinality(S) = 0
  <2>1. DOMAIN g = {}
    BY <1>5
  <2> HIDE DEF g
  <2> QED BY <1>5, <2>1, SumOfNone, FS_EmptySet
<1>6. d \in HoldersOf(docs, t) => more /= {}
  BY <1>2
<1> QED BY <1>1, <1>2, <1>4, <1>5, <1>6 DEF S, more

\* The accumulators hold what the terms done so far are worth.
Scored(held, docs, done) ==
  /\ DOMAIN held = {d \in 0 .. Len(docs) - 1 : Matching(docs, done, d) /= {}}
  /\ \A d \in DOMAIN held :
       /\ held[d].score = Total(docs, done, d)
       /\ held[d].matches = Cardinality(Matching(docs, done, d))

LEMMA TermAdds ==
  ASSUME native \in Seq(Documents), IsFlat(index, native), AverageIsNatural, ScoresAreIntegers,
         NEW done \in SUBSET Terms, todo \subseteq Terms, todo \intersect done = {},
         Scored(scores, native, done), ScoreTerm
  PROVE  \E t \in todo : todo' = todo \ {t} /\ Scored(scores', native, done \union {t})
<1> DEFINE t == Min(todo)
           gains == Gains(t)
           held == {gain.document : gain \in gains}
           Gain(d) == (CHOOSE gain \in gains : gain.document = d).score
           Before(d) == IF d \in DOMAIN scores THEN scores[d] ELSE [score |-> 0, matches |-> 0]
           H == HoldersOf(native, t)
           n == Len(native)
           more == done \union {t}
<1>1. n \in Nat
  BY SeqElements
<1>2. todo /= {} /\ todo' = todo \ {t}
      /\ scores' = [d \in DOMAIN scores \union held |->
                      IF d \in held
                      THEN [score |-> Before(d).score + Gain(d), matches |-> Before(d).matches + 1]
                      ELSE scores[d]]
  BY DEF ScoreTerm, Gains
<1>3. t \in todo
  <2>1. Terms \subseteq Int /\ IsFiniteSet(Terms)
    BY CiffAssumption
  <2>2. todo \in SUBSET Int
    BY <2>1
  <2>3. IsFiniteSet(todo)
    BY <2>1, FS_Subset
  <2> QED BY <1>2, <2>2, <2>3, MinOfFinite
<1> HIDE DEF t
<1>4. t \in Terms \ done
  BY <1>3
<1>5. gains = {[document |-> d, score |-> Worth(native, d, t)] : d \in H}
  BY <1>1, <1>4, GainsAre
<1> HIDE DEF gains
<1>6. held = H
  <2> HIDE DEF H
  <2>1. \A gain \in gains : gain.document \in H
    BY <1>5
  <2>2. \A d \in H : \E gain \in gains : gain.document = d
    <3> TAKE d \in H
    <3>1. PICK gain : gain = [document |-> d, score |-> Worth(native, d, t)]
      OBVIOUS
    <3>2. gain \in gains /\ gain.document = d
      BY <1>5, <3>1
    <3> QED BY <3>2
  <2> QED BY <2>1, <2>2
<1>7. ASSUME NEW d \in H PROVE Gain(d) = Worth(native, d, t)
  <2> DEFINE gain == [document |-> d, score |-> Worth(native, d, t)]
  <2>1. gain \in gains /\ gain.document = d
    BY <1>5
  <2>2. \A other \in gains : other.document = d => other.score = Worth(native, d, t)
    BY <1>5
  <2> HIDE DEF gain
  <2> QED BY <2>1, <2>2
<1>8. H \subseteq 0 .. n - 1
  BY DEF HoldersOf
<1> HIDE DEF held, Gain, H
<1>9. DOMAIN scores = {d \in 0 .. n - 1 : Matching(native, done, d) /= {}}
  BY DEF Scored
<1>10. \A d : /\ d \notin H => Matching(native, more, d) = Matching(native, done, d)
              /\ d \in H => /\ Matching(native, more, d) /= {}
                            /\ Total(native, more, d) = Total(native, done, d) + Worth(native, d, t)
                            /\ Cardinality(Matching(native, more, d)) =
                                 Cardinality(Matching(native, done, d)) + 1
              /\ Matching(native, done, d) = {} =>
                   Total(native, done, d) = 0 /\ Cardinality(Matching(native, done, d)) = 0
  BY <1>4, TotalOfMore DEF H
<1>11. \A d \in 0 .. n - 1 : /\ Before(d).score = Total(native, done, d)
                            /\ Before(d).matches = Cardinality(Matching(native, done, d))
  BY <1>9, <1>10 DEF Scored
<1> HIDE DEF Before, n, more
<1>12. DOMAIN scores' = DOMAIN scores \union H
  BY <1>2, <1>6
<1>13. DOMAIN scores' = {d \in 0 .. n - 1 : Matching(native, more, d) /= {}}
  BY <1>8, <1>9, <1>10, <1>12
<1>14. ASSUME NEW d \in DOMAIN scores'
       PROVE  /\ scores'[d].score = Total(native, more, d)
              /\ scores'[d].matches = Cardinality(Matching(native, more, d))
  <2>1. CASE d \in H
    <3>1. scores'[d] = [score |-> Before(d).score + Gain(d), matches |-> Before(d).matches + 1]
      BY <1>2, <1>6, <1>12, <2>1
    <3>2. d \in 0 .. n - 1
      BY <1>8, <2>1
    <3> QED BY <1>7, <1>10, <1>11, <2>1, <3>1, <3>2
  <2>2. CASE d \notin H
    <3>1. d \in DOMAIN scores /\ scores'[d] = scores[d]
      BY <1>2, <1>6, <1>12, <2>2
    <3>2. Matching(native, more, d) = Matching(native, done, d)
      BY <1>10, <2>2
    <3>3. Total(native, more, d) = Total(native, done, d)
      BY <3>2 DEF Total
    <3> QED BY <3>1, <3>2, <3>3 DEF Scored
  <2> QED BY <2>1, <2>2
<1>15. Scored(scores', native, more)
  BY <1>13, <1>14 DEF Scored, n
<1> QED BY <1>2, <1>3, <1>15 DEF more


-----------------------------------------------------------------------------
\* An export that was not changed in meaning stays the collection's, and a search of it
\* has scored the terms that are done.

Unheld(docs, q) == q.operator = "And" /\ \E t \in q.terms : HoldersOf(docs, t) = {}

Progress ==
  /\ todo \subseteq request.terms
  /\ IF Unheld(native, request)
     THEN todo = {} /\ DOMAIN scores = {}
     ELSE Scored(scores, native, request.terms \ todo)

OriginInv ==
  origin =>
    /\ state /= "building"
    /\ state = "exported" => IsFlat(index, native)
    /\ state \in {"written", "lists", "documents", "loaded"} => IsFlat(written, native)
    /\ state \in {"searching", "answered"} => IsFlat(index, native) /\ request \in Requests
    /\ state = "searching" => Progress
    /\ state = "answered" => IsBest(hits, Answers(native, request), request.top_k)

LEMMA NoIndexIsNone == NoIndex \notin IndexType
<1> SUFFICES ASSUME NoIndex \in IndexType PROVE FALSE
  OBVIOUS
<1>1. NoIndex.header = <<>> /\ NoIndex.header \in HeaderType
  BY DEF NoIndex, IndexType
<1>2. DOMAIN NoIndex.header = {} /\ "version" \in DOMAIN NoIndex.header
  BY <1>1, NothingIs DEF HeaderType
<1> QED BY <1>2

\* What is ranked is what the collection would rank.
LEMMA RankedAre ==
  ASSUME native \in Seq(Documents), request \in Requests, Progress, todo = {},
         NEW kept, kept = {d \in DOMAIN scores :
                             request.operator = "And" => scores[d].matches = Cardinality(request.terms)}
  PROVE  {[doc |-> d, score |-> scores[d].score] : d \in kept} = Answers(native, request)
<1> DEFINE q == request
           terms == q.terms
           n == Len(native)
           M(d) == Matching(native, terms, d)
<1>1. terms \subseteq Terms /\ terms /= {} /\ q.operator \in {"Or", "And"}
  BY RequestsAssumption
<1>2. \A d : M(d) \subseteq terms /\ \A t \in terms : t \in M(d) <=> d \in HoldersOf(native, t)
  BY DEF Matching
<1>3. IsFiniteSet(terms)
  BY <1>1, CiffAssumption, FS_Subset
<1> HIDE DEF M
<1>4. Wanted(native, q) = {d \in 0 .. n - 1 : IF q.operator = "Or" THEN M(d) /= {} ELSE M(d) = terms}
  BY DEF Wanted, M
<1>5. Answers(native, q) = {[doc |-> d, score |-> Total(native, terms, d)] : d \in Wanted(native, q)}
  BY DEF Answers
<1>6. CASE Unheld(native, q)
  <2>1. kept = {}
    BY <1>6 DEF Progress
  <2>2. PICK t \in terms : q.operator = "And" /\ HoldersOf(native, t) = {}
    BY <1>6 DEF Unheld
  <2>3. \A d : M(d) /= terms
    BY <1>2, <2>2
  <2>4. Wanted(native, q) = {}
    BY <1>4, <2>2, <2>3
  <2> QED BY <1>5, <2>1, <2>4
<1>7. CASE ~ Unheld(native, q)
  <2>1. Scored(scores, native, terms)
    <3>1. terms \ todo = terms
      OBVIOUS
    <3> QED BY <1>7, <3>1 DEF Progress
  <2>2. DOMAIN scores = {d \in 0 .. n - 1 : M(d) /= {}}
    BY <2>1 DEF Scored, M
  <2>3. \A d \in DOMAIN scores : /\ scores[d].score = Total(native, terms, d)
                                 /\ scores[d].matches = Cardinality(M(d))
    BY <2>1 DEF Scored, M
  <2>4. ASSUME NEW d PROVE Cardinality(M(d)) = Cardinality(terms) <=> M(d) = terms
    BY <1>2, <1>3, FS_Subset
  <2>5. kept = Wanted(native, q)
    <3>1. CASE q.operator = "Or"
      BY <1>4, <2>2, <3>1
    <3>2. CASE q.operator = "And"
      <4>1. \A d \in DOMAIN scores : d \in kept <=> M(d) = terms
        BY <2>3, <2>4, <3>2
      <4>2. \A d \in 0 .. n - 1 : M(d) = terms => d \in DOMAIN scores
        BY <1>1, <2>2
      <4> QED BY <1>4, <2>2, <3>2, <4>1, <4>2
    <3> QED BY <1>1, <3>1, <3>2
  <2>6. \A d \in kept : scores[d].score = Total(native, terms, d)
    BY <2>3
  <2>7. {[doc |-> d, score |-> scores[d].score] : d \in kept} = Answers(native, q)
    <3> HIDE DEF q, terms
    <3> QED BY <1>5, <2>5, <2>6
  <2> QED BY <2>7
<1> QED BY <1>6, <1>7

LEMMA SearchInv ==
  ASSUME WrittenInv, OriginInv, AverageIsNatural, ScoresAreIntegers,
         \/ \E q \in Requests : Search(Request(q), "loaded", "searching")
         \/ Search(ScoreTerm, "searching", "searching")
         \/ Search(Rank, "searching", "answered")
  PROVE  OriginInv'
<1>1. UNCHANGED <<native, index, written, origin>> /\ native \in Seq(Documents)
  BY DEF Search, history, WrittenInv
<1> SUFFICES ASSUME origin PROVE OriginInv'
  BY <1>1 DEF OriginInv
<1>2. ASSUME NEW q \in Requests, Search(Request(q), "loaded", "searching") PROVE OriginInv'
  <2>1. state = "loaded" /\ state' = "searching" /\ Request(q)
    BY <1>2 DEF Search
  <2>2. IsFlat(index, native)
    <3>1. IsFlat(written, native)
      BY <2>1 DEF OriginInv
    <3>2. written /= NoIndex
      BY <3>1, NoIndexIsNone DEF IsFlat
    <3> QED BY <2>1, <3>1, <3>2 DEF WrittenInv, FollowsWritten
  <2>3. /\ request' = q /\ scores' = <<>>
        /\ todo' = IF q.operator = "And" /\ \E t \in q.terms : ListsOf(t) = {} THEN {} ELSE q.terms
    BY <2>1 DEF Request
  <2>4. \A t \in q.terms : ListsOf(t) = {} <=> HoldersOf(native, t) = {}
    <3>1. Len(native) \in Nat
      BY <1>1, SeqElements
    <3>2. q.terms \subseteq Terms
      BY RequestsAssumption
    <3> QED BY <2>2, <3>1, <3>2, GainsAre
  <2>5. todo' = IF Unheld(native, q) THEN {} ELSE q.terms
    BY <2>3, <2>4 DEF Unheld
  <2>6. DOMAIN scores' = {}
    BY <2>3, NothingIs
  <2>7. Scored(scores', native, {})
    <3>1. \A d : Matching(native, {}, d) = {}
      BY DEF Matching
    <3> QED BY <2>6, <3>1 DEF Scored
  <2>8. Progress'
    <3>1. CASE Unheld(native, q)
      BY <1>1, <2>3, <2>5, <2>6, <3>1 DEF Progress
    <3>2. CASE ~ Unheld(native, q)
      <4>1. todo' = q.terms /\ q.terms \ q.terms = {}
        BY <2>5, <3>2
      <4> QED BY <1>1, <2>3, <2>7, <3>2, <4>1 DEF Progress
    <3> QED BY <3>1, <3>2
  <2> QED BY <1>1, <2>1, <2>2, <2>3, <2>8 DEF OriginInv
<1>3. CASE Search(ScoreTerm, "searching", "searching")
  <2>1. state = "searching" /\ state' = "searching" /\ ScoreTerm
    BY <1>3 DEF Search
  <2>2. IsFlat(index, native) /\ request \in Requests /\ Progress
    BY <2>1 DEF OriginInv
  <2>3. todo /= {} /\ request' = request
    BY <2>1 DEF ScoreTerm
  <2> DEFINE done == request.terms \ todo
  <2>4. ~ Unheld(native, request) /\ Scored(scores, native, done)
    BY <2>2, <2>3 DEF Progress
  <2>5. /\ done \in SUBSET Terms /\ todo \subseteq Terms /\ todo \intersect done = {}
        /\ todo \subseteq request.terms
    BY <2>2, RequestsAssumption DEF Progress
  <2> HIDE DEF done
  <2>6. PICK t \in todo : todo' = todo \ {t} /\ Scored(scores', native, done \union {t})
    BY <1>1, <2>1, <2>2, <2>4, <2>5, TermAdds
  <2>7. done \union {t} = request.terms \ todo'
    BY <2>5, <2>6 DEF done
  <2>8. Progress'
    BY <1>1, <2>3, <2>4, <2>5, <2>6, <2>7 DEF Progress
  <2> QED BY <1>1, <2>1, <2>2, <2>3, <2>8 DEF OriginInv
<1>4. CASE Search(Rank, "searching", "answered")
  <2>1. state = "searching" /\ state' = "answered" /\ Rank
    BY <1>4 DEF Search
  <2>2. IsFlat(index, native) /\ request \in Requests /\ Progress
    BY <2>1 DEF OriginInv
  <2>3. todo = {} /\ request' = request
    BY <2>1 DEF Rank
  <2> DEFINE kept == {d \in DOMAIN scores :
                        request.operator = "And" => scores[d].matches = Cardinality(request.terms)}
  <2>4. IsBest(hits', {[doc |-> d, score |-> scores[d].score] : d \in kept}, request.top_k)
    BY <2>1 DEF Rank
  <2>5. {[doc |-> d, score |-> scores[d].score] : d \in kept} = Answers(native, request)
    BY <1>1, <2>2, <2>3, RankedAre
  <2>6. IsBest(hits', Answers(native, request), request.top_k)
    BY <2>4, <2>5
  <2> QED BY <1>1, <2>1, <2>2, <2>3, <2>6 DEF OriginInv
<1> QED BY <1>2, <1>3, <1>4


LEMMA OriginInvNext ==
  ASSUME WrittenInv, OriginInv, AverageIsNatural, ScoresAreIntegers, [Next]_vars
  PROVE  OriginInv'
<1>0. native \in Seq(Documents)
  BY DEF WrittenInv
<1>1. ASSUME NEW document \in Documents, AddNative(document) PROVE OriginInv'
  BY <1>1 DEF AddNative, history, OriginInv
<1>2. CASE Export
  <2>1. CASE Valid(Flattened, DefaultLimits)
    <3>1. index' = Flattened /\ state' = "exported" /\ native' = native
      BY <1>2, <2>1 DEF Export
    <3>2. IsFlat(Flattened, native)
      BY <1>0, FlattenedIsFlat
    <3>3. IsFlat(index', native')
      BY <3>1, <3>2
    <3> QED BY <3>1, <3>3 DEF OriginInv
  <2>2. CASE ~ Valid(Flattened, DefaultLimits)
    BY <1>2, <2>2 DEF Export, OriginInv
  <2> QED BY <2>1, <2>2
<1>3. CASE Write
  <2>1. state \in {"exported", "loaded"} /\ UNCHANGED <<native, origin>>
    BY <1>3 DEF Write
  <2>2. CASE Valid(index, Limits)
    <3>1. state' = "written" /\ written' = index
      BY <1>3, <2>2 DEF Write
    <3>2. origin => IsFlat(index, native)
      <4> SUFFICES ASSUME origin PROVE IsFlat(index, native)
        OBVIOUS
      <4>1. CASE state = "exported"
        BY <4>1 DEF OriginInv
      <4>2. CASE state = "loaded"
        <5>1. written = NoIndex /\ IsFlat(written, native)
          BY <1>3, <4>2 DEF Write, OriginInv
        <5> QED BY <5>1, NoIndexIsNone DEF IsFlat
      <4> QED BY <2>1, <4>1, <4>2
    <3>3. origin' => IsFlat(written', native')
      BY <2>1, <3>1, <3>2
    <3> QED BY <3>1, <3>3 DEF OriginInv
  <2>3. CASE ~ Valid(index, Limits)
    <3>1. state' = "rejected"
      BY <1>3, <2>3 DEF Write
    <3> QED BY <3>1 DEF OriginInv
  <2> QED BY <2>2, <2>3
<1>4. ASSUME NEW file \in Foreign, Receive(file) PROVE OriginInv'
  <2>1. state = "building" /\ origin' = origin
    BY <1>4 DEF Receive, history
  <2> QED BY <2>1 DEF OriginInv
<1>5. CASE Rearrange
  <2>1. state = "written" /\ UNCHANGED <<native, state, written, origin>>
    BY <1>5 DEF Rearrange, Change
  <2> QED BY <2>1 DEF OriginInv
<1>6. CASE Corrupt
  BY <1>6 DEF Corrupt, OriginInv
<1>7. CASE ReadHeader \/ ReadList \/ EndLists \/ ReadRecord \/ Load
  <2>1. state \in {"written", "lists", "documents"} /\ UNCHANGED <<native, written, origin>>
    BY <1>7 DEF ReadHeader, ReadList, EndLists, ReadRecord, Load, history
  <2>2. state' \in {"lists", "documents", "loaded", "refused"}
    BY <1>7 DEF ReadHeader, ReadList, EndLists, ReadRecord, Load, Refuse
  <2> QED BY <2>1, <2>2 DEF OriginInv
<1>8. CASE \/ \E q \in Requests : Search(Request(q), "loaded", "searching")
           \/ Search(ScoreTerm, "searching", "searching")
           \/ Search(Rank, "searching", "answered")
  BY <1>8, SearchInv
<1>9. CASE UNCHANGED vars
  <2>1. UNCHANGED <<native, index, state, written, origin, request, todo, scores, hits>>
    BY <1>9 DEF vars, search, history
  <2>2. Progress' <=> Progress
    BY <2>1 DEF Progress
  <2> QED BY <2>1, <2>2 DEF OriginInv
<1> QED BY <1>1, <1>2, <1>3, <1>4, <1>5, <1>6, <1>7, <1>8, <1>9 DEF Next

LEMMA OriginAnswers == OriginInv /\ native \in Seq(Documents) => AnswersAsCollection
<1> SUFFICES ASSUME OriginInv, native \in Seq(Documents), state = "answered", origin
             PROVE  AnswersAsCollection
  BY DEF AnswersAsCollection
<1>1. request \in Requests /\ IsBest(hits, Answers(native, request), request.top_k)
  BY DEF OriginInv
<1>2. request.terms \subseteq Terms
  BY <1>1, RequestsAssumption
<1>3. Native!Results(Asked(request, native), Bag(native), Native!Statistics(Bag(native))) = Answers(native, request)
  BY <1>2, ResultsAre
<1>4. IsBest(hits, Native!Results(Asked(request, native), Bag(native), Native!Statistics(Bag(native))), request.top_k)
  BY <1>1, <1>3
<1> QED BY <1>4 DEF AnswersAsCollection, Asked, Bag

\* A collection that is exported, written, read back (its lists, documents and fields in
\* another order, unknown fields added) and searched answers every query as the collection
\* itself with the fields of each document joined.  For every collection, query and limit,
\* with scores that add up exactly: search_ranked adds one list after the other to its
\* accumulators, finds every length by the document's number, and ranks what the flattened
\* statistics say.
THEOREM ExportAnswersAsCollection ==
  ASSUME AverageIsNatural, ScoresAreIntegers
  PROVE  Spec => []AnswersAsCollection
<1>1. Init => WrittenInv /\ OriginInv
  BY WrittenInvInit DEF Init, OriginInv
<1>2. WrittenInv /\ OriginInv /\ [Next]_vars => WrittenInv' /\ OriginInv'
  BY WrittenInvNext, OriginInvNext
<1>3. WrittenInv /\ OriginInv => AnswersAsCollection
  BY OriginAnswers DEF WrittenInv
<1> QED BY <1>1, <1>2, <1>3, PTL DEF Spec
=============================================================================
