---------------------------- MODULE IndexProofs ----------------------------
(***************************************************************************)
(* Proofs about the index: what the builder has built is exact, what the   *)
(* readers accept is exact, however the parts have been changed, what is   *)
(* exact is accepted, and queries find the block bounds of what they       *)
(* score.  A forward index inverts to the index of its documents.          *)
(***************************************************************************)
EXTENDS ForwardIndex, SetProofs, SequenceTheorems

\* Types of the parts, whoever changed them.
Postings == [doc : Nat, positions : Seq(Nat)]

PartsType ==
  /\ documents \in Seq(Documents)
  /\ IsFiniteSet(DOMAIN postings)
  /\ \A key \in DOMAIN postings : postings[key] \in Seq(Postings)

\* A list has the documents that hold the key, ascending, with the positions they hold it at.
Lists(corpus, list, key) ==
  /\ \A i, j \in DOMAIN list : i < j => list[i].doc < list[j].doc
  /\ \A i \in DOMAIN list :
       /\ list[i].doc + 1 \in DOMAIN corpus
       /\ key \in AllKeys(corpus[list[i].doc + 1])
       /\ list[i].positions = Positions(corpus[list[i].doc + 1], key[1], key[2])
  /\ \A d \in DOMAIN corpus :
       key \in AllKeys(corpus[d]) => \E i \in DOMAIN list : list[i].doc = d - 1

PostingsAre ==
  /\ DOMAIN postings = UNION {AllKeys(documents[d]) : d \in DOMAIN documents}
  /\ \A key \in DOMAIN postings : Lists(documents, postings[key], key)

LengthsAre == fieldLengths = [d \in DOMAIN documents |->
                                Lengths(documents[d], DOMAIN documents[d].fields)]

\* The identifiers taken are those of the documents, each of one document.
IdsAre ==
  /\ externalIds = {documents[d].id : d \in DOMAIN documents}
  /\ \A d, e \in DOMAIN documents : documents[d].id = documents[e].id => d = e

\* The tokens of a field, in all documents.
InField(field) == {o \in Written : o[1][1] = field}

TotalsAre ==
  /\ DOMAIN fieldTotals = UNION {DOMAIN documents[d].fields : d \in DOMAIN documents}
  /\ \A field \in DOMAIN fieldTotals : fieldTotals[field] = Cardinality(InField(field))

IndexInv ==
  /\ PartsType
  /\ state \in {"building", "finished"} /\ ~partial =>
       PostingsAre /\ LengthsAre /\ IdsAre /\ TotalsAre
  /\ state \in {"finished", "loaded"} => blockMax = ComputeBlockMax(postings)
  /\ state = "loaded" => Accepted /\ fieldTotals = SummedTotals

-----------------------------------------------------------------------------
\* The forward index: its types, what is ready is valid, and what is not edited has the
\* documents it was built from.
SourceDocuments == UNION {ToSet(sources) : sources \in Sources}
ForwardEntries ==
  [document : SourceDocuments,
   ids : UNION {[DOMAIN document.fields -> Seq(Nat)] : document \in SourceDocuments}]

ForwardType ==
  /\ terms \in Seq(TermKeys)
  /\ source \in Seq(SourceDocuments)
  /\ entries \in Seq(ForwardEntries)
  /\ forwardEdits \in Nat

ReadyInv == ForwardType /\ (phase = "ready" => ForwardValid)

ForwardInv ==
  /\ ReadyInv
  /\ phase = "stored" /\ forwardEdits = 0 => ForwardValid
  /\ phase \in {"ready", "stored"} /\ forwardEdits = 0 =>
       /\ Len(entries) = Len(source)
       /\ {entries[i].document : i \in DOMAIN entries} = ToSet(source)
  /\ InversionIsFaithful

-----------------------------------------------------------------------------
\* Sorted sets.

\* Each element stands where its rank is; then they are all there, in order.
Ranked(seq, S, R) ==
  /\ DOMAIN seq = 1 .. Cardinality(S)
  /\ \A i \in DOMAIN seq : seq[i] = CHOOSE x \in S : Place(R, S, x) = i - 1

Arranged(seq, S, R) ==
  /\ \A i \in DOMAIN seq : seq[i] \in S
  /\ \A i, j \in DOMAIN seq : i < j => <<seq[i], seq[j]>> \in R
  /\ \A i, j \in DOMAIN seq : seq[i] = seq[j] => i = j
  /\ {seq[i] : i \in DOMAIN seq} = S

LEMMA RanksAscend ==
  ASSUME NEW S, IsFiniteSet(S), NEW R, StrictOrder(R, S), NEW seq, Ranked(seq, S, R)
  PROVE  Arranged(seq, S, R)
<1>1. \A i \in DOMAIN seq : \E x \in S : Place(R, S, x) = i - 1
  BY EveryPlaceTaken DEF Ranked
<1>2. \A i \in DOMAIN seq : seq[i] \in S /\ Place(R, S, seq[i]) = i - 1
  BY <1>1 DEF Ranked
<1>3. PICK n : n = Cardinality(S)
  OBVIOUS
<1>4. DOMAIN seq = 1 .. n
  BY <1>3 DEF Ranked
<1>5. \A i \in 1 .. n : seq[i] \in S /\ Place(R, S, seq[i]) = i - 1
  BY <1>2, <1>4
<1>6. /\ \A i, j \in 1 .. n : i < j => <<seq[i], seq[j]>> \in R
      /\ \A i, j \in 1 .. n : seq[i] = seq[j] => i = j
      /\ {seq[i] : i \in 1 .. n} = S
  BY <1>3, <1>5, RankedIsSorted
<1> QED BY <1>2, <1>4, <1>6 DEF Arranged

\* A set of numbers in ascending order.
Ascends(seq, S) ==
  /\ seq \in Seq(S)
  /\ Len(seq) = Cardinality(S)
  /\ \A i, j \in DOMAIN seq : i < j => seq[i] < seq[j]
  /\ ToSet(seq) = S

LEMMA SortedAscends ==
  ASSUME NEW S \in SUBSET Nat, IsFiniteSet(S)
  PROVE  Ascends(Sorted(S, <), S)
<1> DEFINE R == {p \in S \X S : p[1] < p[2]}
           seq == Sorted(S, <)
           pick(i) == CHOOSE x \in S : Cardinality({y \in S : y < x}) = i - 1
<1>1. StrictOrder(R, S)
  BY DEF StrictOrder
<1>2. \A x \in S : {y \in S : <<y, x>> \in R} = {y \in S : y < x}
  OBVIOUS
<1>3. \A x \in S : Place(R, S, x) = Cardinality({y \in S : y < x})
  BY <1>2 DEF Place
<1>4. seq = [i \in 1 .. Cardinality(S) |-> pick(i)]
  BY DEF Sorted
<1>5. ASSUME NEW i PROVE pick(i) = CHOOSE x \in S : Place(R, S, x) = i - 1
  <2>1. \A x \in S : Cardinality({y \in S : y < x}) = i - 1 <=> Place(R, S, x) = i - 1
    BY <1>3
  <2> HIDE DEF R
  <2> QED BY <2>1
<1>6. \A a, b \in S : <<a, b>> \in R => a < b
  OBVIOUS
<1> HIDE DEF R, seq, pick
<1>7. Ranked(seq, S, R)
  BY <1>4, <1>5 DEF Ranked
<1>8. Arranged(seq, S, R)
  BY <1>1, <1>7, RanksAscend
<1>9. seq = [i \in 1 .. Cardinality(S) |-> seq[i]] /\ Cardinality(S) \in Nat
  BY <1>4, FS_CardinalityType
<1>10. seq \in Seq(S) /\ Len(seq) = Cardinality(S)
  BY <1>4, <1>8, <1>9 DEF Arranged
<1>11. \A i, j \in DOMAIN seq : i < j => seq[i] < seq[j]
  BY <1>6, <1>8 DEF Arranged
<1> QED BY <1>8, <1>10, <1>11 DEF Ascends, Arranged, ToSet, seq

\* Neighbours ascend, so all do.
LEMMA AscendingIsTotal ==
  ASSUME NEW seq \in Seq(Nat), Ascending(seq), NEW i \in DOMAIN seq, NEW j \in DOMAIN seq, i < j
  PROVE  seq[i] < seq[j]
<1> DEFINE S == i .. j
           Bad == {T \in SUBSET S : \E k \in S : k /= i /\ T = i .. k /\ ~ (seq[i] < seq[k])}
<1>1. i \in Nat /\ j \in Nat /\ \A k \in S : k \in Nat /\ k \in DOMAIN seq /\ seq[k] \in Nat
  OBVIOUS
<1>2. ASSUME NEW T \in Bad PROVE \E U \in Bad : U \subseteq T /\ U /= T
  <2>1. PICK k \in S : k /= i /\ T = i .. k /\ ~ (seq[i] < seq[k])
    OBVIOUS
  <2>2. k - 1 \in S /\ k - 1 \in 1 .. Len(seq) - 1 /\ (k - 1) + 1 = k
    BY <1>1, <2>1
  <2>3. seq[k - 1] < seq[k]
    BY <2>2 DEF Ascending
  <2>4. k - 1 /= i /\ ~ (seq[i] < seq[k - 1])
    BY <1>1, <2>1, <2>2, <2>3
  <2>5. i .. (k - 1) \subseteq T /\ i .. (k - 1) /= T /\ i .. (k - 1) \in SUBSET S
    BY <1>1, <2>1, <2>2
  <2>6. i .. (k - 1) \in Bad
    BY <2>2, <2>4, <2>5
  <2> QED BY <2>5, <2>6
<1>3. IsFiniteSet(S)
  BY <1>1, FS_Interval
<1>4. Bad = {}
  <2>1. Bad \in SUBSET (SUBSET S)
    OBVIOUS
  <2> HIDE DEF Bad, S
  <2> QED BY <1>2, <1>3, <2>1, NoLeast
<1>5. j \in S /\ i .. j \in SUBSET S /\ j /= i
  BY <1>1
<1> QED BY <1>4, <1>5

-----------------------------------------------------------------------------
\* The tokens of a text.

Begun == [tokens |-> <<>>, current |-> <<>>]
ScanStates == [tokens : Seq(Seq(Characters)), current : Seq(Characters)]

\* The recursion of FoldLeft for the texts's scan.
Scans(scan, text, S) ==
  scan = [T \in SUBSET S |-> IF T = {} THEN Begun ELSE Scan(scan[T \ {Max(T)}], text[Max(T)])]

LEMMA ScanKeepsType ==
  ASSUME NEW sc \in ScanStates, NEW character
  PROVE  Scan(sc, character) \in ScanStates
<1>1. CASE character \in Alphanumeric
  <2>1. Lowercase[character] \in Seq(Characters)
    BY <1>1, CharactersAssumption
  <2>2. sc.current \o Lowercase[character] \in Seq(Characters)
    BY <2>1 DEF ScanStates
  <2> QED BY <1>1, <2>2 DEF Scan, ScanStates
<1>2. CASE character \notin Alphanumeric
  <2>1. Append(sc.tokens, sc.current) \in Seq(Seq(Characters)) /\ <<>> \in Seq(Characters)
    BY DEF ScanStates
  <2> QED BY <1>2, <2>1 DEF Scan, ScanStates
<1> QED BY <1>1, <1>2

LEMMA GreatestIsIn ==
  ASSUME NEW n \in Nat, NEW T \in SUBSET (1 .. n), T /= {}
  PROVE  Max(T) \in T
<1> DEFINE S == 1 .. n
           Bad == {U \in SUBSET S : \E k \in T : U = k .. n /\ ~ (\A y \in T : k >= y)}
<1>1. ASSUME \A x \in T : ~ (\A y \in T : x >= y) PROVE FALSE
  <2>1. ASSUME NEW U \in Bad PROVE \E V \in Bad : V \subseteq U /\ V /= U
    <3>1. PICK k \in T : U = k .. n /\ ~ (\A y \in T : k >= y)
      OBVIOUS
    <3>2. PICK y \in T : ~ (k >= y)
      BY <3>1
    <3>3. k \in 1 .. n /\ y \in 1 .. n
      BY <3>1, <3>2
    <3>4. y .. n \subseteq U /\ y .. n /= U /\ y .. n \in SUBSET S
      BY <3>1, <3>2, <3>3
    <3>5. y .. n \in Bad
      BY <1>1, <3>2, <3>4
    <3> QED BY <3>4, <3>5
  <2>2. IsFiniteSet(S)
    BY FS_Interval
  <2>3. Bad = {}
    <3>1. Bad \in SUBSET (SUBSET S)
      OBVIOUS
    <3> HIDE DEF Bad, S
    <3> QED BY <2>1, <2>2, <3>1, NoLeast
  <2>4. PICK k \in T : TRUE
    OBVIOUS
  <2>5. k .. n \in SUBSET S
    <3>1. k \in 1 .. n
      BY <2>4
    <3> QED BY <3>1
  <2> QED BY <1>1, <2>3, <2>4, <2>5
<1>2. \E x \in T : \A y \in T : x >= y
  BY <1>1
<1> QED BY <1>2 DEF Max

LEMMA ScanIsRecursive ==
  ASSUME NEW text
  PROVE  FoldLeft(Scan, Begun, text) = (CHOOSE scan : Scans(scan, text, DOMAIN text))[DOMAIN text]
BY DEF FoldLeft, MapThenFoldSet, Scans

AreIndices(S) == \E n \in Nat : S \subseteq 1 .. n

LEMMA OnlyOneScan ==
  ASSUME NEW text, NEW S, AreIndices(S), NEW A, S \subseteq A,
         NEW scan, NEW other, Scans(scan, text, A), Scans(other, text, S)
  PROVE  scan[S] = other[S]
<1>n. PICK n \in Nat : S \subseteq 1 .. n
  BY DEF AreIndices
<1> DEFINE Bad == {T \in SUBSET S : scan[T] /= other[T]}
<1>1. ASSUME NEW T \in Bad PROVE T \ {Max(T)} \in Bad /\ T \ {Max(T)} /= T
  <2>1. T /= {}
    BY DEF Scans
  <2>2. Max(T) \in T
    BY <1>n, <2>1, GreatestIsIn
  <2>3. /\ scan[T] = Scan(scan[T \ {Max(T)}], text[Max(T)])
        /\ other[T] = Scan(other[T \ {Max(T)}], text[Max(T)])
    BY <2>1 DEF Scans
  <2> QED BY <2>2, <2>3
<1>2. IsFiniteSet(S)
  <2>1. IsFiniteSet(1 .. n)
    BY FS_Interval
  <2> QED BY <1>n, <2>1, FS_Subset
<1>3. Bad = {}
  <2>1. Bad \in SUBSET (SUBSET S) /\ \A T \in Bad : \E U \in Bad : U \subseteq T /\ U /= T
    BY <1>1
  <2> HIDE DEF Bad
  <2> QED BY <1>2, <2>1, NoLeast
<1> QED BY <1>3

LEMMA ScanExists ==
  ASSUME NEW n \in Nat, NEW text
  PROVE  \E scan : Scans(scan, text, 1 .. n)
<1> DEFINE S == 1 .. n
           Bad == {T \in SUBSET S : ~ \E scan : Scans(scan, text, T)}
           ScanOf(T) == CHOOSE scan : Scans(scan, text, T)
<1>1. ASSUME NEW T \in Bad PROVE \E U \in Bad : U \subseteq T /\ U /= T
  <2>0. SUFFICES ASSUME \A U \in SUBSET T : U /= T => \E scan : Scans(scan, text, U)
               PROVE  \E scan : Scans(scan, text, T)
    OBVIOUS
  <2>1. \A U \in SUBSET T : U /= T => Scans(ScanOf(U), text, U)
    BY <2>0
  <2> DEFINE Rest(U) == U \ {Max(U)}
             scan == [U \in SUBSET T |->
                       IF U = {} THEN Begun
                       ELSE Scan(ScanOf(U \ {Max(U)})[U \ {Max(U)}], text[Max(U)])]
  <2>2. ASSUME NEW U \in SUBSET T, U /= {} PROVE Max(U) \in U
    <3>1. U \in SUBSET (1 .. n)
      OBVIOUS
    <3> QED BY <2>2, <3>1, GreatestIsIn
  <2>3. ASSUME NEW U \in SUBSET T, U /= T PROVE scan[U] = ScanOf(U)[U]
    <3>1. Scans(ScanOf(U), text, U)
      BY <2>1, <2>3
    <3>2. CASE U = {}
      <4>1. ScanOf(U)[U] = Begun
        <5> HIDE DEF ScanOf
        <5> QED BY <3>1, <3>2 DEF Scans
      <4> QED BY <3>2, <4>1
    <3>3. CASE U /= {}
      <4>1. Rest(U) \in SUBSET T /\ Rest(U) /= T /\ Rest(U) \in SUBSET U
        BY <2>2, <3>3
      <4>2. Scans(ScanOf(Rest(U)), text, Rest(U))
        BY <2>1, <4>1
      <4>3. ScanOf(U)[Rest(U)] = ScanOf(Rest(U))[Rest(U)]
        <5>1. Rest(U) \in SUBSET (1 .. n)
          BY <4>1
        <5>2. PICK V, f, g : V = Rest(U) /\ f = ScanOf(U) /\ g = ScanOf(Rest(U))
          OBVIOUS
        <5>3. AreIndices(V) /\ V \subseteq U
          BY <4>1, <5>1, <5>2 DEF AreIndices
        <5>4. Scans(f, text, U) /\ Scans(g, text, V)
          BY <3>1, <4>2, <5>2
        <5> HIDE DEF Bad
        <5>5. f[V] = g[V]
          BY <5>3, <5>4, OnlyOneScan
        <5> QED BY <5>2, <5>5
      <4>4. ScanOf(U)[U] = Scan(ScanOf(U)[Rest(U)], text[Max(U)])
        <5> HIDE DEF ScanOf
        <5> QED BY <3>1, <3>3 DEF Scans
      <4>5. scan[U] = Scan(ScanOf(Rest(U))[Rest(U)], text[Max(U)])
        BY <3>3
      <4> QED BY <4>3, <4>4, <4>5
    <3> QED BY <3>2, <3>3
  <2>4. ASSUME NEW U \in SUBSET T, U /= {}
        PROVE  scan[U \ {Max(U)}] = ScanOf(U \ {Max(U)})[U \ {Max(U)}]
    BY <2>2, <2>3, <2>4
  <2>5. Scans(scan, text, T)
    <3>1. scan = [U \in SUBSET T |->
                   IF U = {} THEN Begun ELSE Scan(scan[U \ {Max(U)}], text[Max(U)])]
      <4> HIDE DEF ScanOf
      <4> QED BY <2>4
    <3> HIDE DEF scan
    <3> QED BY <3>1 DEF Scans
  <2> QED BY <2>5
<1>2. IsFiniteSet(S)
  BY FS_Interval
<1>3. Bad = {}
  <2>1. Bad \in SUBSET (SUBSET S) /\ \A T \in Bad : \E U \in Bad : U \subseteq T /\ U /= T
    BY <1>1
  <2> HIDE DEF Bad, S
  <2> QED BY <1>2, <2>1, NoLeast
<1> QED BY <1>3

LEMMA ScanHasType ==
  ASSUME NEW n \in Nat, NEW text, NEW scan, Scans(scan, text, 1 .. n)
  PROVE  scan[1 .. n] \in ScanStates
<1> DEFINE S == 1 .. n
           Bad == {T \in SUBSET S : scan[T] \notin ScanStates}
<1>1. ASSUME NEW T \in Bad PROVE T \ {Max(T)} \in Bad /\ T \ {Max(T)} /= T
  <2>1. Begun \in ScanStates
    BY DEF Begun, ScanStates
  <2>2. T /= {}
    BY <2>1 DEF Scans
  <2>3. Max(T) \in T
    BY <2>2, GreatestIsIn
  <2>4. scan[T] = Scan(scan[T \ {Max(T)}], text[Max(T)])
    BY <2>2 DEF Scans
  <2> QED BY <2>3, <2>4, ScanKeepsType
<1>2. IsFiniteSet(S)
  BY FS_Interval
<1>3. Bad = {}
  <2>1. Bad \in SUBSET (SUBSET S) /\ \A T \in Bad : \E U \in Bad : U \subseteq T /\ U /= T
    BY <1>1
  <2> HIDE DEF Bad, S
  <2> QED BY <1>2, <2>1, NoLeast
<1>4. 1 .. n \in SUBSET S
  OBVIOUS
<1> QED BY <1>3, <1>4

\* The tokens of a text are a sequence.
LEMMA TokensAreSequence ==
  ASSUME NEW text \in Seq(Characters)
  PROVE  Analyze(text) \in Seq(Seq(Characters))
<1> DEFINE scan == CHOOSE f : Scans(f, text, DOMAIN text)
           end == FoldLeft(Scan, Begun, text)
<1>1. PICK n \in Nat : DOMAIN text = 1 .. n
  OBVIOUS
<1>2. Scans(scan, text, 1 .. n)
  BY <1>1, ScanExists
<1>3. end = scan[1 .. n]
  BY <1>1, ScanIsRecursive
<1> HIDE DEF scan, end
<1>4. end \in ScanStates
  BY <1>2, <1>3, ScanHasType
<1>5. end.tokens \in Seq(Seq(Characters)) /\ end.current \in Seq(Characters)
  BY <1>4 DEF ScanStates
<1>6. Analyze(text) = IF end.current = <<>> THEN end.tokens ELSE Append(end.tokens, end.current)
  BY DEF Analyze, end, Begun
<1> QED BY <1>5, <1>6

-----------------------------------------------------------------------------
\* Counting.

Together(F, S) == UNION {F[x] : x \in S}
Sizes(F, S) == [x \in S |-> Cardinality(F[x])]

\* Sets that have nothing in common have as many elements together as they have each.
LEMMA DisjointSetsAddUp ==
  ASSUME NEW S, IsFiniteSet(S), NEW F, \A x \in S : IsFiniteSet(F[x]),
         \A x, y \in S : x /= y => F[x] \intersect F[y] = {}
  PROVE  /\ IsFiniteSet(Together(F, S))
         /\ Cardinality(Together(F, S)) = SumFunction(Sizes(F, S))
<1> DEFINE All(T) == UNION {F[x] : x \in T}
           c(x) == Cardinality(F[x])
           Some(T) == [x \in T |-> c(x)]
           Bad == {T \in SUBSET S : ~ (IsFiniteSet(All(T)) /\ Cardinality(All(T)) = SumFunction(Some(T)))}
<1>0. \A x \in S : c(x) \in Nat
  BY FS_CardinalityType
<1>1. ASSUME NEW T \in Bad PROVE \E U \in Bad : U \subseteq T /\ U /= T
  <2>1. T /= {}
    <3> SUFFICES ASSUME T = {} PROVE FALSE
      OBVIOUS
    <3>1. All(T) = {} /\ DOMAIN Some(T) = {}
      OBVIOUS
    <3>2. SumFunction(Some(T)) = 0
      <4> HIDE DEF Some
      <4> QED BY <3>1, SumOfNone
    <3> QED BY <3>1, <3>2, FS_EmptySet
  <2>2. PICK x \in T : TRUE
    BY <2>1
  <2>3. PICK U : U = T \ {x}
    OBVIOUS
  <2>4. U \in SUBSET S /\ x \in S /\ x \notin U /\ T = U \union {x} /\ U \subseteq T /\ U /= T
    BY <2>2, <2>3
  <2>5. ASSUME U \notin Bad PROVE FALSE
    <3>1. IsFiniteSet(All(U)) /\ Cardinality(All(U)) = SumFunction(Some(U))
      BY <2>4, <2>5
    <3>2. All(T) = All(U) \union F[x]
      BY <2>4
    <3>3. All(U) \intersect F[x] = {}
      <4>1. \A y \in U : F[y] \intersect F[x] = {}
        BY <2>4
      <4> QED BY <4>1
    <3>4. /\ IsFiniteSet(All(T))
          /\ Cardinality(All(T)) = Cardinality(All(U)) + Cardinality(F[x])
      <4>1. IsFiniteSet(F[x]) /\ IsFiniteSet(All(U))
        BY <2>4, <3>1
      <4>2. /\ IsFiniteSet(All(U) \union F[x])
            /\ Cardinality(All(U) \union F[x])
                 = Cardinality(All(U)) + Cardinality(F[x]) - Cardinality(All(U) \intersect F[x])
        <5> HIDE DEF All
        <5> QED BY <4>1, FS_Union
      <4>3. Cardinality(All(U) \intersect F[x]) = 0
        BY <3>3, FS_EmptySet
      <4>4. Cardinality(All(U)) \in Nat /\ Cardinality(F[x]) \in Nat
        BY <4>1, FS_CardinalityType
      <4> HIDE DEF All
      <4> QED BY <3>2, <4>2, <4>3, <4>4
    <3>5. SumFunction(Some(T)) = c(x) + SumFunction(Some(U)) /\ SumFunction(Some(U)) \in Int
      <4>1. /\ DOMAIN Some(T) = U \union {x} /\ DOMAIN Some(U) = U
            /\ \A y \in U \union {x} : Some(T)[y] \in Int
            /\ \A y \in U : Some(U)[y] = Some(T)[y]
            /\ Some(T)[x] = c(x)
        BY <1>0, <2>4
      <4>2. IsFiniteSet(U)
        BY <2>4, FS_Subset
      <4>3. PICK f, g : f = Some(T) /\ g = Some(U)
        OBVIOUS
      <4> HIDE DEF Some, c, All, Bad
      <4>4. x \notin U /\ DOMAIN f = U \union {x} /\ DOMAIN g = U
        BY <2>4, <4>1, <4>3
      <4>5. (\A y \in U \union {x} : f[y] \in Int) /\ \A y \in U : g[y] = f[y]
        BY <4>1, <4>3
      <4>6. SumFunction(f) = SumFunction(g) + f[x]
        BY <4>2, <4>4, <4>5, SumOfMore
      <4>7. SumFunction(g) \in Int
        BY <4>2, <4>4, <4>5, SumOfMore
      <4>8. f[x] = c(x) /\ c(x) \in Int
        BY <4>1, <4>3, <4>5
      <4> QED BY <4>3, <4>6, <4>7, <4>8
    <3>6. c(x) = Cardinality(F[x]) /\ c(x) \in Nat
      BY <1>0, <2>4
    <3>7. SumFunction(Some(T)) = Cardinality(All(T))
      <4> HIDE DEF All, Some
      <4> QED BY <3>1, <3>4, <3>5, <3>6
    <3> QED BY <3>4, <3>7
  <2> HIDE DEF Bad
  <2> QED BY <2>4, <2>5
<1>2. Bad = {}
  <2>1. Bad \in SUBSET (SUBSET S)
    OBVIOUS
  <2> HIDE DEF Bad
  <2> QED BY <1>1, <2>1, NoLeast
<1>3. IsFiniteSet(All(S)) /\ Cardinality(All(S)) = SumFunction(Some(S))
  BY <1>2
<1> QED BY <1>3 DEF Together, Sizes

\* The values of a function that has as many as arguments.
ValuesOf(f, n) == {f[i] : i \in 1 .. n}
OneToOne(f, n) == \A i, j \in 1 .. n : f[i] = f[j] => i = j

LEMMA OneForEach ==
  ASSUME NEW n \in Nat, NEW f, OneToOne(f, n)
  PROVE  IsFiniteSet(ValuesOf(f, n)) /\ Cardinality(ValuesOf(f, n)) = n
<1> DEFINE S == {f[i] : i \in 1 .. n}
           g == [i \in 1 .. n |-> f[i]]
<1>1. g \in [1 .. n -> S] /\ (\A i, j \in 1 .. n : g[i] = g[j] => i = j) /\ \A s \in S : \E i \in 1 .. n : g[i] = s
  BY DEF OneToOne
<1> HIDE DEF S, g
<1>2. g \in Bijection(1 .. n, S)
  BY <1>1 DEF Bijection, Injection, IsInjective, Surjection
<1>3. ExistsBijection(1 .. n, S)
  BY <1>2 DEF ExistsBijection
<1>4. IsFiniteSet(S) /\ Cardinality(S) = n
  BY <1>3, FS_NatBijection, FS_CountingElements
<1> QED BY <1>4 DEF S, ValuesOf

\* The occurrences that one posting, and one list, hold.
InPosting(key, posting) == {<<key, posting.doc, spot>> : spot \in ToSet(posting.positions)}
InList(key, list) == UNION {InPosting(key, posting) : posting \in ToSet(list)}

LEMMA PostingCounts ==
  ASSUME NEW key, NEW posting \in Postings,
         \A i, j \in DOMAIN posting.positions : i < j => posting.positions[i] < posting.positions[j]
  PROVE  /\ IsFiniteSet(InPosting(key, posting))
         /\ Cardinality(InPosting(key, posting)) = Len(posting.positions)
<1> DEFINE n == Len(posting.positions)
           f == [i \in 1 .. n |-> <<key, posting.doc, posting.positions[i]>>]
<1>1. n \in Nat /\ DOMAIN posting.positions = 1 .. n /\ \A i \in 1 .. n : posting.positions[i] \in Nat
  BY DEF Postings
<1>2. ASSUME NEW i \in 1 .. n, NEW j \in 1 .. n, f[i] = f[j] PROVE i = j
  <2>1. posting.positions[i] = posting.positions[j]
    BY <1>2
  <2>2. ~ (i < j) /\ ~ (j < i)
    BY <1>1, <2>1
  <2> QED BY <1>1, <2>2
<1>3. ValuesOf(f, n) = InPosting(key, posting)
  BY <1>1 DEF InPosting, ToSet, ValuesOf
<1>4. IsFiniteSet(ValuesOf(f, n)) /\ Cardinality(ValuesOf(f, n)) = n
  <2> HIDE DEF f, n
  <2>1. n \in Nat /\ OneToOne(f, n)
    BY ONLY <1>1, <1>2 DEF OneToOne
  <2> QED BY ONLY <2>1, OneForEach
<1> HIDE DEF f
<1> QED BY <1>3, <1>4

\* Lists as the readers want them: documents and positions ascend.
InOrder(list) ==
  /\ \A i, j \in DOMAIN list : i < j => list[i].doc < list[j].doc
  /\ \A n \in DOMAIN list : \A i, j \in DOMAIN list[n].positions :
       i < j => list[n].positions[i] < list[n].positions[j]

LEMMA ListCounts ==
  ASSUME NEW key, NEW list \in Seq(Postings), InOrder(list)
  PROVE  /\ IsFiniteSet(InList(key, list))
         /\ Cardinality(InList(key, list)) = SumFunction([i \in DOMAIN list |-> Len(list[i].positions)])
<1> DEFINE S == DOMAIN list
           F == [i \in S |-> InPosting(key, list[i])]
<1>1. IsFiniteSet(S) /\ S = 1 .. Len(list) /\ Len(list) \in Nat /\ \A i \in S : list[i] \in Postings
  <2>1. S = 1 .. Len(list) /\ Len(list) \in Nat
    OBVIOUS
  <2>2. IsFiniteSet(1 .. Len(list))
    BY <2>1, FS_Interval
  <2> QED BY <2>1, <2>2
<1>2. ASSUME NEW i \in S PROVE IsFiniteSet(F[i]) /\ Cardinality(F[i]) = Len(list[i].positions)
  <2>1. \A k, l \in DOMAIN list[i].positions : k < l => list[i].positions[k] < list[i].positions[l]
    BY DEF InOrder
  <2>2. F[i] = InPosting(key, list[i])
    OBVIOUS
  <2> HIDE DEF F
  <2> QED BY <1>1, <2>1, <2>2, PostingCounts
<1>3. ASSUME NEW i \in S, NEW j \in S, i /= j PROVE F[i] \intersect F[j] = {}
  <2>1. list[i].doc /= list[j].doc
    <3>1. list[i].doc \in Nat /\ list[j].doc \in Nat /\ i \in Nat /\ j \in Nat
      BY <1>1 DEF Postings
    <3> QED BY <1>3, <3>1 DEF InOrder
  <2>2. \A o \in F[i] : o[2] = list[i].doc
    BY DEF InPosting
  <2>3. \A o \in F[j] : o[2] = list[j].doc
    BY DEF InPosting
  <2> HIDE DEF F
  <2> QED BY <2>1, <2>2, <2>3
<1>4. Together(F, S) = InList(key, list)
  <2>1. {F[i] : i \in S} = {InPosting(key, posting) : posting \in ToSet(list)}
    BY DEF ToSet
  <2> QED BY <2>1 DEF InList, Together
<1>5. Sizes(F, S) = [i \in DOMAIN list |-> Len(list[i].positions)]
  <2> HIDE DEF F
  <2> QED BY <1>2 DEF Sizes
<1> HIDE DEF S, F
<1>6. /\ \A i \in S : IsFiniteSet(F[i])
      /\ \A i, j \in S : i /= j => F[i] \intersect F[j] = {}
      /\ IsFiniteSet(S)
  BY <1>1, <1>2, <1>3
<1>7. IsFiniteSet(Together(F, S)) /\ Cardinality(Together(F, S)) = SumFunction(Sizes(F, S))
  BY <1>6, DisjointSetsAddUp
<1> QED BY <1>4, <1>5, <1>7

LEMMA ListedCounts ==
  ASSUME IsFiniteSet(DOMAIN postings),
         \A key \in DOMAIN postings : postings[key] \in Seq(Postings) /\ InOrder(postings[key])
  PROVE  /\ IsFiniteSet(Listed)
         /\ Cardinality(Listed)
              = SumFunction([key \in DOMAIN postings |->
                  SumFunction([i \in DOMAIN postings[key] |-> Len(postings[key][i].positions)])])
<1> DEFINE S == DOMAIN postings
           F == [key \in S |-> InList(key, postings[key])]
           Tokenss(key) == SumFunction([i \in DOMAIN postings[key] |-> Len(postings[key][i].positions)])
<1>1. ASSUME NEW key \in S PROVE IsFiniteSet(F[key]) /\ Cardinality(F[key]) = Tokenss(key)
  <2>1. postings[key] \in Seq(Postings) /\ InOrder(postings[key]) /\ F[key] = InList(key, postings[key])
    OBVIOUS
  <2> HIDE DEF F
  <2> QED BY <2>1, ListCounts
<1>2. \A key \in S : \A o \in F[key] : o[1] = key
  BY DEF InList, InPosting
<1>3. Together(F, S) = Listed
  <2>1. \A key \in S : F[key] = UNION {{<<key, posting.doc, spot>> : spot \in ToSet(posting.positions)} :
                                         posting \in ToSet(postings[key])}
    BY DEF InList, InPosting
  <2> HIDE DEF F
  <2> QED BY <2>1 DEF Together, Listed
<1> HIDE DEF F, Tokenss
<1>4. /\ \A key \in S : IsFiniteSet(F[key])
      /\ \A k, l \in S : k /= l => F[k] \intersect F[l] = {}
      /\ IsFiniteSet(S)
  BY <1>1, <1>2
<1>5. Sizes(F, S) = [key \in S |-> Tokenss(key)]
  BY <1>1 DEF Sizes
<1>6. IsFiniteSet(Together(F, S)) /\ Cardinality(Together(F, S)) = SumFunction(Sizes(F, S))
  <2> HIDE DEF S
  <2> QED BY <1>4, DisjointSetsAddUp
<1> QED BY <1>3, <1>5, <1>6 DEF Tokenss

LEMMA DocumentTokens ==
  ASSUME NEW document \in Documents, NEW field \in DOMAIN document.fields
  PROVE  /\ Tokens(document, field) \in Seq(Seq(Characters))
         /\ Len(Tokens(document, field)) \in Nat
         /\ DOMAIN Tokens(document, field) = 1 .. Len(Tokens(document, field))
<1>1. document.fields[field] \in Seq(Characters)
  BY DocumentsAssumption
<1>2. Tokens(document, field) \in Seq(Seq(Characters))
  BY <1>1, TokensAreSequence DEF Tokens
<1> QED BY <1>2

\* The occurrences that a field, and a document, of the number i - 1 hold.
InText(document, i, field) ==
  {<<<<field, Tokens(document, field)[p]>>, i - 1, p - 1>> : p \in DOMAIN Tokens(document, field)}
InDocument(document, i) == UNION {InText(document, i, field) : field \in DOMAIN document.fields}

LEMMA TextCounts ==
  ASSUME NEW document \in Documents, NEW field \in DOMAIN document.fields, NEW i \in Nat
  PROVE  /\ IsFiniteSet(InText(document, i, field))
         /\ Cardinality(InText(document, i, field)) = Len(Tokens(document, field))
<1> DEFINE n == Len(Tokens(document, field))
           f == [p \in 1 .. n |-> <<<<field, Tokens(document, field)[p]>>, i - 1, p - 1>>]
<1>1. n \in Nat /\ DOMAIN Tokens(document, field) = 1 .. n
  BY DocumentTokens
<1>2. ASSUME NEW p \in 1 .. n, NEW q \in 1 .. n, f[p] = f[q] PROVE p = q
  <2>1. p - 1 = q - 1
    BY <1>2
  <2> QED BY <1>1, <2>1
<1>3. ValuesOf(f, n) = InText(document, i, field)
  BY <1>1 DEF InText, ValuesOf
<1>4. IsFiniteSet(ValuesOf(f, n)) /\ Cardinality(ValuesOf(f, n)) = n
  <2> HIDE DEF f, n
  <2>1. n \in Nat /\ OneToOne(f, n)
    BY ONLY <1>1, <1>2 DEF OneToOne
  <2> QED BY ONLY <2>1, OneForEach
<1> HIDE DEF f
<1> QED BY <1>3, <1>4

LEMMA DocumentCounts ==
  ASSUME NEW document \in Documents, NEW i \in Nat
  PROVE  /\ IsFiniteSet(InDocument(document, i))
         /\ Cardinality(InDocument(document, i)) = SumFunction(Lengths(document, DOMAIN document.fields))
<1> DEFINE S == DOMAIN document.fields
           F == [field \in S |-> InText(document, i, field)]
<1>1. IsFiniteSet(S)
  BY DocumentsAssumption
<1>2. ASSUME NEW field \in S
      PROVE  IsFiniteSet(F[field]) /\ Cardinality(F[field]) = Len(Tokens(document, field))
  BY TextCounts
<1>3. \A field \in S : \A o \in F[field] : o[1][1] = field
  BY DEF InText
<1>4. Together(F, S) = InDocument(document, i)
  BY DEF Together, InDocument
<1> HIDE DEF F
<1>5. Sizes(F, S) = Lengths(document, S)
  BY <1>2 DEF Sizes, Lengths
<1>6. /\ \A field \in S : IsFiniteSet(F[field])
      /\ \A k, l \in S : k /= l => F[k] \intersect F[l] = {}
  BY <1>2, <1>3
<1>7. IsFiniteSet(Together(F, S)) /\ Cardinality(Together(F, S)) = SumFunction(Sizes(F, S))
  <2> HIDE DEF S
  <2> QED BY <1>1, <1>6, DisjointSetsAddUp
<1> QED BY <1>4, <1>5, <1>7

LEMMA WrittenIs ==
  Written = UNION {InDocument(documents[i], i) : i \in DOMAIN documents}
BY DEF Written, InDocument, InText

LEMMA WrittenCounts ==
  ASSUME documents \in Seq(Documents)
  PROVE  /\ IsFiniteSet(Written)
         /\ Cardinality(Written)
              = SumFunction([i \in DOMAIN documents |->
                  SumFunction(Lengths(documents[i], DOMAIN documents[i].fields))])
<1> DEFINE S == DOMAIN documents
           F == [i \in S |-> InDocument(documents[i], i)]
           total(i) == SumFunction(Lengths(documents[i], DOMAIN documents[i].fields))
<1>1. IsFiniteSet(S) /\ \A i \in S : i \in Nat /\ documents[i] \in Documents
  <2>1. S = 1 .. Len(documents) /\ Len(documents) \in Nat
    OBVIOUS
  <2>2. IsFiniteSet(1 .. Len(documents))
    BY <2>1, FS_Interval
  <2> QED BY <2>1, <2>2
<1>2. ASSUME NEW i \in S PROVE IsFiniteSet(F[i]) /\ Cardinality(F[i]) = total(i)
  BY <1>1, DocumentCounts
<1>3. \A i \in S : \A o \in F[i] : o[2] = i - 1
  BY DEF InDocument, InText
<1>4. Together(F, S) = Written
  BY WrittenIs DEF Together
<1> HIDE DEF F, total
<1>5. Sizes(F, S) = [i \in S |-> total(i)]
  BY <1>2 DEF Sizes
<1>6. ASSUME NEW k \in S, NEW l \in S, k /= l PROVE F[k] \intersect F[l] = {}
  <2>1. k - 1 /= l - 1
    BY <1>1, <1>6
  <2> QED BY <1>3, <2>1
<1>7. \A i \in S : IsFiniteSet(F[i])
  BY <1>2
<1>8. IsFiniteSet(Together(F, S)) /\ Cardinality(Together(F, S)) = SumFunction(Sizes(F, S))
  <2> HIDE DEF S
  <2> QED BY <1>1, <1>6, <1>7, DisjointSetsAddUp
<1> QED BY <1>4, <1>5, <1>8 DEF total

LEMMA FieldCounts ==
  ASSUME documents \in Seq(Documents), NEW field
  PROVE  /\ IsFiniteSet(InField(field))
         /\ Cardinality(InField(field))
              = SumFunction([i \in DOMAIN documents |->
                               Get(Lengths(documents[i], DOMAIN documents[i].fields), field, 0)])
<1> DEFINE S == DOMAIN documents
           has(i) == field \in DOMAIN documents[i].fields
           F == [i \in S |-> IF has(i) THEN InText(documents[i], i, field) ELSE {}]
           amount(i) == Get(Lengths(documents[i], DOMAIN documents[i].fields), field, 0)
<1>1. IsFiniteSet(S) /\ \A i \in S : i \in Nat /\ documents[i] \in Documents
  <2>1. S = 1 .. Len(documents) /\ Len(documents) \in Nat
    OBVIOUS
  <2>2. IsFiniteSet(1 .. Len(documents))
    BY <2>1, FS_Interval
  <2> QED BY <2>1, <2>2
<1>2. ASSUME NEW i \in S PROVE IsFiniteSet(F[i]) /\ Cardinality(F[i]) = amount(i)
  <2>1. CASE has(i)
    <3>1. F[i] = InText(documents[i], i, field) /\ amount(i) = Len(Tokens(documents[i], field))
      BY <2>1 DEF Get, Lengths
    <3>2. /\ IsFiniteSet(InText(documents[i], i, field))
          /\ Cardinality(InText(documents[i], i, field)) = Len(Tokens(documents[i], field))
      BY <1>1, <2>1, TextCounts
    <3> QED BY <3>1, <3>2
  <2>2. CASE ~ has(i)
    <3>1. F[i] = {} /\ amount(i) = 0
      BY <2>2 DEF Get, Lengths
    <3> HIDE DEF F, amount
    <3> QED BY <3>1, FS_EmptySet
  <2> QED BY <2>1, <2>2
<1>3. \A i \in S : \A o \in F[i] : o[2] = i - 1
  BY DEF InText
<1>4. Together(F, S) = InField(field)
  <2>1. ASSUME NEW i \in S, NEW o
        PROVE  o \in F[i] <=> o \in InDocument(documents[i], i) /\ o[1][1] = field
    BY DEF InDocument, InText
  <2>2. \A o : o \in Together(F, S) <=> \E i \in S : o \in F[i]
    BY DEF Together
  <2>3. \A o : o \in InField(field) <=> (\E i \in S : o \in InDocument(documents[i], i)) /\ o[1][1] = field
    BY WrittenIs DEF InField
  <2> HIDE DEF F
  <2> QED BY <2>1, <2>2, <2>3
<1> HIDE DEF F, amount
<1>5. Sizes(F, S) = [i \in S |-> amount(i)]
  BY <1>2 DEF Sizes
<1>6. ASSUME NEW k \in S, NEW l \in S, k /= l PROVE F[k] \intersect F[l] = {}
  <2>1. k - 1 /= l - 1
    BY <1>1, <1>6
  <2> QED BY <1>3, <2>1
<1>7. \A i \in S : IsFiniteSet(F[i])
  BY <1>2
<1>8. IsFiniteSet(Together(F, S)) /\ Cardinality(Together(F, S)) = SumFunction(Sizes(F, S))
  <2> HIDE DEF S
  <2> QED BY <1>1, <1>6, <1>7, DisjointSetsAddUp
<1> QED BY <1>4, <1>5, <1>8 DEF amount

-----------------------------------------------------------------------------
\* Where the tokens of a document stand.

PlacesIn(document, key) ==
  {p \in 0 .. Len(Tokens(document, key[1])) - 1 : Tokens(document, key[1])[p + 1] = key[2]}

LEMMA KeyIsHeld ==
  ASSUME NEW document \in Documents, NEW key \in AllKeys(document)
  PROVE  /\ key[1] \in DOMAIN document.fields
         /\ key = <<key[1], key[2]>>
         /\ \E p \in DOMAIN Tokens(document, key[1]) : Tokens(document, key[1])[p] = key[2]
<1>1. PICK field \in DOMAIN document.fields : key \in {field} \X ToSet(Tokens(document, field))
  BY DEF AllKeys, KeysOf
<1>2. key[1] = field /\ key = <<key[1], key[2]>> /\ key[2] \in ToSet(Tokens(document, field))
  BY <1>1
<1> QED BY <1>2 DEF ToSet

LEMMA TokenIsKey ==
  ASSUME NEW document, NEW field \in DOMAIN document.fields, NEW p \in DOMAIN Tokens(document, field)
  PROVE  <<field, Tokens(document, field)[p]>> \in AllKeys(document)
BY DEF AllKeys, KeysOf, ToSet

LEMMA PlacesAre ==
  ASSUME NEW document \in Documents, NEW key, key[1] \in DOMAIN document.fields
  PROVE  /\ Ascends(Positions(document, key[1], key[2]), PlacesIn(document, key))
         /\ PlacesIn(document, key) \in SUBSET Nat
         /\ \A p : p \in PlacesIn(document, key) <=>
              /\ p \in Nat /\ p + 1 \in DOMAIN Tokens(document, key[1])
              /\ Tokens(document, key[1])[p + 1] = key[2]
<1> DEFINE n == Len(Tokens(document, key[1]))
<1>1. n \in Nat /\ DOMAIN Tokens(document, key[1]) = 1 .. n
  BY DocumentTokens
<1>2. PlacesIn(document, key) \in SUBSET (0 .. n - 1) /\ 0 .. n - 1 \in SUBSET Nat
  BY <1>1 DEF PlacesIn
<1>3. IsFiniteSet(PlacesIn(document, key))
  <2>1. IsFiniteSet(0 .. n - 1)
    BY <1>1, FS_Interval
  <2> QED BY <1>2, <2>1, FS_Subset
<1>4. Positions(document, key[1], key[2]) = Sorted(PlacesIn(document, key), <)
  BY DEF Positions, PlacesIn
<1>5. Ascends(Sorted(PlacesIn(document, key), <), PlacesIn(document, key))
  BY <1>2, <1>3, SortedAscends
<1>6. \A p : p \in 0 .. n - 1 <=> p \in Nat /\ p + 1 \in 1 .. n
  BY <1>1
<1> QED BY <1>1, <1>2, <1>4, <1>5, <1>6 DEF PlacesIn

\* The positions of a key that a document holds.
LEMMA PositionsAre ==
  ASSUME NEW document \in Documents, NEW key \in AllKeys(document),
         NEW found, found = Positions(document, key[1], key[2])
  PROVE  /\ found \in Seq(Nat)
         /\ found /= <<>>
         /\ \A i, j \in DOMAIN found : i < j => found[i] < found[j]
         /\ ToSet(found) = PlacesIn(document, key)
<1>1. /\ key[1] \in DOMAIN document.fields
      /\ \E p \in DOMAIN Tokens(document, key[1]) : Tokens(document, key[1])[p] = key[2]
  BY KeyIsHeld
<1>2. Ascends(found, PlacesIn(document, key)) /\ PlacesIn(document, key) \in SUBSET Nat
  BY <1>1, PlacesAre
<1>3. PlacesIn(document, key) /= {}
  <2>1. PICK p \in DOMAIN Tokens(document, key[1]) : Tokens(document, key[1])[p] = key[2]
    BY <1>1
  <2>2. p \in Nat \ {0}
    BY <1>1, DocumentTokens
  <2>3. p - 1 \in Nat /\ (p - 1) + 1 = p
    BY <2>2
  <2>4. p - 1 \in PlacesIn(document, key)
    BY <1>1, <2>1, <2>3, PlacesAre
  <2> QED BY <2>4
<1>4. found /= <<>>
  BY <1>2, <1>3 DEF Ascends, ToSet
<1> QED BY <1>2, <1>4 DEF Ascends

-----------------------------------------------------------------------------
\* Exact lists hold what is written.

LEMMA DocumentAt ==
  ASSUME PartsType, NEW d, d + 1 \in DOMAIN documents, NEW list \in Seq(Postings), NEW i \in DOMAIN list,
         list[i].doc = d
  PROVE  documents[d + 1] \in Documents /\ (d + 1) - 1 = d /\ d \in Nat
<1>1. list[i] \in Postings
  OBVIOUS
<1> QED BY <1>1 DEF PartsType, Postings

LEMMA ListsAreOrdered ==
  ASSUME PartsType, PostingsAre, NEW key \in DOMAIN postings
  PROVE  /\ postings[key] \in Seq(Postings)
         /\ InOrder(postings[key])
         /\ postings[key] /= <<>>
         /\ \A i \in DOMAIN postings[key] : postings[key][i].positions /= <<>>
<1> DEFINE list == postings[key]
<1>1. list \in Seq(Postings) /\ Lists(documents, list, key)
  BY DEF PartsType, PostingsAre
<1>2. ASSUME NEW n \in DOMAIN list
      PROVE  /\ list[n].positions /= <<>>
             /\ \A i, j \in DOMAIN list[n].positions : i < j => list[n].positions[i] < list[n].positions[j]
  <2>1. list[n].doc + 1 \in DOMAIN documents /\ key \in AllKeys(documents[list[n].doc + 1])
    BY <1>1 DEF Lists
  <2>2. documents[list[n].doc + 1] \in Documents
    BY <2>1 DEF PartsType
  <2>3. list[n].positions = Positions(documents[list[n].doc + 1], key[1], key[2])
    BY <1>1 DEF Lists
  <2> HIDE DEF list
  <2> QED BY <2>1, <2>2, <2>3, PositionsAre
<1>3. list /= <<>>
  <2>1. PICK d \in DOMAIN documents : key \in AllKeys(documents[d])
    BY DEF PostingsAre
  <2>2. \E i \in DOMAIN list : list[i].doc = d - 1
    BY <1>1, <2>1 DEF Lists
  <2> HIDE DEF list
  <2> QED BY <2>2
<1>4. InOrder(list)
  BY <1>1, <1>2 DEF InOrder, Lists
<1> QED BY <1>1, <1>2, <1>3, <1>4

LEMMA ListedIsWritten ==
  ASSUME PartsType, PostingsAre
  PROVE  Listed = Written
<1>1. ASSUME NEW o \in Listed PROVE o \in Written
  <2>1. PICK key \in DOMAIN postings : \E posting \in ToSet(postings[key]) :
          \E spot \in ToSet(posting.positions) : o = <<key, posting.doc, spot>>
    BY DEF Listed
  <2>2. PICK posting \in ToSet(postings[key]) :
          \E spot \in ToSet(posting.positions) : o = <<key, posting.doc, spot>>
    BY <2>1
  <2>3. PICK spot \in ToSet(posting.positions) : o = <<key, posting.doc, spot>>
    BY <2>2
  <2>4. PICK i \in DOMAIN postings[key] : posting = postings[key][i]
    BY <2>2 DEF ToSet
  <2>5. PICK d : d = posting.doc + 1
    OBVIOUS
  <2>6. /\ d \in DOMAIN documents /\ key \in AllKeys(documents[d])
        /\ posting.positions = Positions(documents[d], key[1], key[2])
    BY <2>4, <2>5 DEF PostingsAre, Lists
  <2>7. documents[d] \in Documents /\ d - 1 = posting.doc
    BY <2>4, <2>5, <2>6, ListsAreOrdered, DocumentAt
  <2>8. spot \in PlacesIn(documents[d], key)
    BY <2>3, <2>6, <2>7, PositionsAre
  <2>9. key[1] \in DOMAIN documents[d].fields /\ key = <<key[1], key[2]>>
    BY <2>6, <2>7, KeyIsHeld
  <2>10. /\ spot \in Nat /\ spot + 1 \in DOMAIN Tokens(documents[d], key[1])
         /\ Tokens(documents[d], key[1])[spot + 1] = key[2]
    BY <2>7, <2>8, <2>9, PlacesAre
  <2>11. o = <<<<key[1], Tokens(documents[d], key[1])[spot + 1]>>, d - 1, (spot + 1) - 1>>
    BY <2>3, <2>7, <2>9, <2>10
  <2>12. o \in InText(documents[d], d, key[1])
    BY <2>10, <2>11 DEF InText
  <2> QED BY <2>6, <2>9, <2>12, WrittenIs DEF InDocument
<1>2. ASSUME NEW o \in Written PROVE o \in Listed
  <2>1. PICK d \in DOMAIN documents : o \in InDocument(documents[d], d)
    BY WrittenIs
  <2>2. PICK field \in DOMAIN documents[d].fields : o \in InText(documents[d], d, field)
    BY <2>1 DEF InDocument
  <2>3. PICK p \in DOMAIN Tokens(documents[d], field) :
          o = <<<<field, Tokens(documents[d], field)[p]>>, d - 1, p - 1>>
    BY <2>2 DEF InText
  <2>4. PICK key : key = <<field, Tokens(documents[d], field)[p]>>
    OBVIOUS
  <2>5. key \in AllKeys(documents[d]) /\ key[1] = field /\ key[2] = Tokens(documents[d], field)[p]
    BY <2>4, TokenIsKey
  <2>6. key \in DOMAIN postings /\ Lists(documents, postings[key], key)
    BY <2>5 DEF PostingsAre
  <2>7. PICK i \in DOMAIN postings[key] : postings[key][i].doc = d - 1
    BY <2>5, <2>6 DEF Lists
  <2>8. PICK posting : posting = postings[key][i]
    OBVIOUS
  <2>9. documents[d] \in Documents /\ d \in Nat /\ (d - 1) + 1 = d
    BY DEF PartsType
  <2>10. posting.positions = Positions(documents[d], key[1], key[2])
    BY <2>6, <2>7, <2>8, <2>9 DEF Lists
  <2>11. p - 1 \in PlacesIn(documents[d], key)
    <3>1. p \in Nat /\ p - 1 \in Nat /\ (p - 1) + 1 = p
      BY <2>9, DocumentTokens
    <3> QED BY <2>5, <2>9, <3>1, PlacesAre
  <2>12. p - 1 \in ToSet(posting.positions)
    BY <2>5, <2>9, <2>10, <2>11, PositionsAre
  <2>13. posting \in ToSet(postings[key])
    BY <2>8 DEF ToSet
  <2>14. o = <<key, posting.doc, p - 1>>
    BY <2>3, <2>4, <2>7, <2>8
  <2> QED BY <2>6, <2>12, <2>13, <2>14 DEF Listed
<1> QED BY <1>1, <1>2

LEMMA TotalIsAscending ==
  ASSUME NEW seq, Len(seq) \in Nat, DOMAIN seq = 1 .. Len(seq),
         \A i, j \in DOMAIN seq : i < j => seq[i] < seq[j]
  PROVE  Ascending(seq)
<1>1. \A i \in 1 .. Len(seq) - 1 : i \in DOMAIN seq /\ i + 1 \in DOMAIN seq /\ i < i + 1
  OBVIOUS
<1> QED BY <1>1 DEF Ascending

LEMMA PostingTypes ==
  ASSUME NEW list \in Seq(Postings)
  PROVE  \A i \in DOMAIN list : list[i].doc \in Nat /\ list[i].positions \in Seq(Nat)
<1> SUFFICES ASSUME NEW i \in DOMAIN list PROVE list[i].doc \in Nat /\ list[i].positions \in Seq(Nat)
  OBVIOUS
<1>1. list[i] \in Postings
  OBVIOUS
<1> QED BY <1>1 DEF Postings

\* The documents of a list as a sequence.
DocsIn(list) == [i \in DOMAIN list |-> list[i].doc]

LEMMA DocsAreSequence ==
  ASSUME NEW list \in Seq(Postings)
  PROVE  /\ DocsIn(list) \in Seq(Nat)
         /\ DOMAIN DocsIn(list) = DOMAIN list
         /\ \A i \in DOMAIN list : DocsIn(list)[i] = list[i].doc
<1>1. \A i \in DOMAIN list : list[i].doc \in Nat
  BY PostingTypes
<1>2. DOMAIN list = 1 .. Len(list) /\ Len(list) \in Nat
  OBVIOUS
<1> QED BY <1>1, <1>2 DEF DocsIn

LEMMA OrderIsAscending ==
  ASSUME NEW list \in Seq(Postings)
  PROVE  InOrder(list) <=> /\ Ascending(DocsIn(list))
                           /\ \A i \in DOMAIN list : Ascending(list[i].positions)
<1>1. /\ DocsIn(list) \in Seq(Nat) /\ DOMAIN DocsIn(list) = DOMAIN list
      /\ \A i \in DOMAIN list : DocsIn(list)[i] = list[i].doc
  BY DocsAreSequence
<1>2. \A i \in DOMAIN list : list[i].positions \in Seq(Nat)
  BY PostingTypes
<1>3. ASSUME InOrder(list)
      PROVE  Ascending(DocsIn(list)) /\ \A i \in DOMAIN list : Ascending(list[i].positions)
  <2>1. Ascending(DocsIn(list))
    <3>1. \A i, j \in DOMAIN DocsIn(list) : i < j => DocsIn(list)[i] < DocsIn(list)[j]
      BY <1>1, <1>3 DEF InOrder
    <3> QED BY <1>1, <3>1, TotalIsAscending
  <2>2. ASSUME NEW n \in DOMAIN list PROVE Ascending(list[n].positions)
    <3>1. \A i, j \in DOMAIN list[n].positions : i < j => list[n].positions[i] < list[n].positions[j]
      BY <1>3 DEF InOrder
    <3>2. list[n].positions \in Seq(Nat)
      BY <1>2
    <3> QED BY <3>1, <3>2, TotalIsAscending
  <2> QED BY <2>1, <2>2
<1>4. ASSUME Ascending(DocsIn(list)), \A i \in DOMAIN list : Ascending(list[i].positions)
      PROVE  InOrder(list)
  <2>1. ASSUME NEW i \in DOMAIN list, NEW j \in DOMAIN list, i < j PROVE list[i].doc < list[j].doc
    <3>1. DocsIn(list)[i] < DocsIn(list)[j]
      BY <1>1, <1>4, <2>1, AscendingIsTotal
    <3> QED BY <1>1, <3>1
  <2>2. ASSUME NEW n \in DOMAIN list, NEW i \in DOMAIN list[n].positions, NEW j \in DOMAIN list[n].positions,
               i < j
        PROVE  list[n].positions[i] < list[n].positions[j]
    <3>1. list[n].positions \in Seq(Nat) /\ Ascending(list[n].positions)
      BY <1>2, <1>4
    <3> QED BY <2>2, <3>1, AscendingIsTotal
  <2> QED BY <2>1, <2>2 DEF InOrder
<1> QED BY <1>3, <1>4

\* Parts with such lists and totals are exact.
LEMMA PartsAreExact ==
  ASSUME PartsType, PostingsAre, TotalsAre
  PROVE  Exact
<1>1. Listed = Written
  BY ListedIsWritten
<1>2. ASSUME NEW key \in DOMAIN postings
      PROVE  /\ postings[key] /= <<>>
             /\ Ascending([i \in DOMAIN postings[key] |-> postings[key][i].doc])
             /\ \A posting \in ToSet(postings[key]) :
                  posting.positions /= <<>> /\ Ascending(posting.positions)
  <2>1. postings[key] \in Seq(Postings) /\ InOrder(postings[key]) /\ postings[key] /= <<>>
    BY ListsAreOrdered
  <2>2. \A i \in DOMAIN postings[key] : postings[key][i].positions /= <<>>
    BY ListsAreOrdered
  <2>3. /\ Ascending(DocsIn(postings[key]))
        /\ \A i \in DOMAIN postings[key] : Ascending(postings[key][i].positions)
    BY <2>1, OrderIsAscending
  <2> QED BY <2>1, <2>2, <2>3 DEF DocsIn, ToSet
<1>3. \A field \in DOMAIN fieldTotals : fieldTotals[field] = Cardinality({o \in Written : o[1][1] = field})
  BY DEF TotalsAre, InField
<1> QED BY <1>1, <1>2, <1>3 DEF Exact

-----------------------------------------------------------------------------
\* What the readers accept is exact, whoever made it.

LEMMA ValidIsOrdered ==
  ASSUME PartsType, NEW key \in DOMAIN postings, ValidList(key)
  PROVE  /\ postings[key] \in Seq(Postings)
         /\ InOrder(postings[key])
<1>1. postings[key] \in Seq(Postings)
  BY DEF PartsType
<1>2. /\ Ascending(DocsIn(postings[key]))
      /\ \A i \in DOMAIN postings[key] : Ascending(postings[key][i].positions)
  BY DEF ValidList, DocsIn
<1> QED BY <1>1, <1>2, OrderIsAscending

\* The postings that each document must have: nothing that is written is missing.
LEMMA ValidHoldsWritten ==
  ASSUME PartsType, \A i \in DOMAIN documents : ValidDocument(i)
  PROVE  Written \subseteq Listed
<1> SUFFICES ASSUME NEW o \in Written PROVE o \in Listed
  OBVIOUS
<1>1. PICK d \in DOMAIN documents : o \in InDocument(documents[d], d)
  BY WrittenIs
<1>2. PICK field \in DOMAIN documents[d].fields : o \in InText(documents[d], d, field)
  BY <1>1 DEF InDocument
<1>3. PICK p \in DOMAIN Tokens(documents[d], field) :
        o = <<<<field, Tokens(documents[d], field)[p]>>, d - 1, p - 1>>
  BY <1>2 DEF InText
<1>4. PICK key : key = <<field, Tokens(documents[d], field)[p]>>
  OBVIOUS
<1>5. key \in AllKeys(documents[d]) /\ key[1] = field /\ key[2] = Tokens(documents[d], field)[p]
  BY <1>4, TokenIsKey
<1>6. PICK n \in DOMAIN postings[key] :
        /\ postings[key][n].doc = d - 1
        /\ postings[key][n].positions = Positions(documents[d], key[1], key[2])
  BY <1>5 DEF ValidDocument, AllKeys
<1>7. key \in DOMAIN postings
  BY <1>5 DEF ValidDocument, AllKeys
<1>8. documents[d] \in Documents /\ d \in Nat
  BY DEF PartsType
<1>9. p - 1 \in PlacesIn(documents[d], key)
  <2>1. p \in Nat /\ p - 1 \in Nat /\ (p - 1) + 1 = p
    BY <1>8, DocumentTokens
  <2> QED BY <1>5, <1>8, <2>1, PlacesAre
<1>10. PICK posting : posting = postings[key][n]
  OBVIOUS
<1>11. p - 1 \in ToSet(posting.positions)
  BY <1>5, <1>6, <1>8, <1>9, <1>10, PositionsAre
<1>12. posting \in ToSet(postings[key]) /\ o = <<key, posting.doc, p - 1>>
  BY <1>3, <1>4, <1>6, <1>10 DEF ToSet
<1> QED BY <1>7, <1>11, <1>12 DEF Listed

\* And the counts leave no room for anything else.
LEMMA AcceptedIsExact ==
  ASSUME PartsType, Accepted, fieldTotals = SummedTotals
  PROVE  Exact
<1>1. /\ \A key \in DOMAIN postings : ValidList(key)
      /\ \A i \in DOMAIN documents : ValidDocument(i)
      /\ TokensAgree
  BY DEF Accepted
<1>2. \A key \in DOMAIN postings : postings[key] \in Seq(Postings) /\ InOrder(postings[key])
  BY <1>1, ValidIsOrdered
<1>3. Cardinality(Listed) = Cardinality(Written) /\ IsFiniteSet(Listed)
  <2>1. IsFiniteSet(DOMAIN postings) /\ documents \in Seq(Documents)
    BY DEF PartsType
  <2>2. /\ IsFiniteSet(Listed)
        /\ Cardinality(Listed)
             = SumFunction([key \in DOMAIN postings |->
                 SumFunction([i \in DOMAIN postings[key] |-> Len(postings[key][i].positions)])])
    BY <1>2, <2>1, ListedCounts
  <2>3. Cardinality(Written)
          = SumFunction([i \in DOMAIN documents |->
              SumFunction(Lengths(documents[i], DOMAIN documents[i].fields))])
    BY <2>1, WrittenCounts
  <2> QED BY <1>1, <2>2, <2>3 DEF TokensAgree
<1>4. Written \in SUBSET Listed
  BY <1>1, ValidHoldsWritten
<1>5. Listed = Written
  BY <1>3, <1>4, FS_Subset
<1>6. ASSUME NEW key \in DOMAIN postings
      PROVE  /\ postings[key] /= <<>>
             /\ Ascending([i \in DOMAIN postings[key] |-> postings[key][i].doc])
             /\ \A posting \in ToSet(postings[key]) :
                  posting.positions /= <<>> /\ Ascending(posting.positions)
  BY <1>1 DEF ValidList, ToSet
<1>7. ASSUME NEW field \in DOMAIN fieldTotals
      PROVE  fieldTotals[field] = Cardinality({o \in Written : o[1][1] = field})
  <2>1. documents \in Seq(Documents)
    BY DEF PartsType
  <2>2. Cardinality(InField(field))
          = SumFunction([i \in DOMAIN documents |->
                           Get(Lengths(documents[i], DOMAIN documents[i].fields), field, 0)])
    BY <2>1, FieldCounts
  <2>3. fieldTotals[field]
          = SumFunction([i \in DOMAIN documents |->
                           Get(Lengths(documents[i], DOMAIN documents[i].fields), field, 0)])
    BY DEF SummedTotals
  <2> QED BY <2>2, <2>3 DEF InField
<1> QED BY <1>5, <1>6, <1>7 DEF Exact

-----------------------------------------------------------------------------
\* What is exact is accepted, when no token changes by being analyzed again.

Normalized == \A d \in DOMAIN documents : \A key \in AllKeys(documents[d]) : IsNormalized(key[2])

DistinctIds == \A d, e \in DOMAIN documents : documents[d].id = documents[e].id => d = e

LEMMA ExactFits ==
  ASSUME PartsType, PostingsAre, LengthsAre, NEW key \in DOMAIN postings, NEW i \in DOMAIN postings[key]
  PROVE  /\ postings[key][i].doc < Len(documents)
         /\ PositionsFit(postings[key][i], key[1])
<1> DEFINE posting == postings[key][i]
           d == posting.doc + 1
<1>1. /\ d \in DOMAIN documents /\ key \in AllKeys(documents[d])
      /\ posting.positions = Positions(documents[d], key[1], key[2])
  BY DEF PostingsAre, Lists
<1>2. posting.doc \in Nat /\ posting.positions \in Seq(Nat)
  BY PostingTypes DEF PartsType
<1>3. documents[d] \in Documents /\ DOMAIN documents = 1 .. Len(documents) /\ Len(documents) \in Nat
  BY <1>1 DEF PartsType
<1>4. posting.doc < Len(documents)
  <2> HIDE DEF posting
  <2> QED BY <1>1, <1>2, <1>3
<1>5. key[1] \in DOMAIN documents[d].fields
  BY <1>1, <1>3, KeyIsHeld
<1>6. Get(fieldLengths[d], key[1], 0) = Len(Tokens(documents[d], key[1]))
  BY <1>1, <1>5 DEF LengthsAre, Lengths, Get
<1>7. ASSUME NEW k \in DOMAIN posting.positions
      PROVE  posting.positions[k] < Len(Tokens(documents[d], key[1]))
  <2>1. posting.positions[k] \in ToSet(posting.positions)
    BY DEF ToSet
  <2>2. ToSet(posting.positions) = PlacesIn(documents[d], key)
    <3> HIDE DEF posting, d
    <3> QED BY <1>1, <1>3, PositionsAre
  <2>3. /\ posting.positions[k] \in Nat
        /\ posting.positions[k] + 1 \in DOMAIN Tokens(documents[d], key[1])
    <3> HIDE DEF posting, d
    <3> QED BY <1>3, <1>5, <2>1, <2>2, PlacesAre
  <2>4. /\ DOMAIN Tokens(documents[d], key[1]) = 1 .. Len(Tokens(documents[d], key[1]))
        /\ Len(Tokens(documents[d], key[1])) \in Nat
    <3> HIDE DEF d
    <3> QED BY <1>3, <1>5, DocumentTokens
  <2> HIDE DEF posting, d
  <2> QED BY <2>3, <2>4
<1>8. PositionsFit(posting, key[1])
  <2>1. \A k \in DOMAIN posting.positions :
          posting.positions[k] < Get(fieldLengths[posting.doc + 1], key[1], 0)
    BY <1>6, <1>7
  <2> HIDE DEF posting
  <2> QED BY <2>1 DEF PositionsFit
<1> QED BY <1>4, <1>8

LEMMA ExactIsAccepted ==
  ASSUME PartsType, PostingsAre, LengthsAre, DistinctIds, Normalized,
         blockMax = ComputeBlockMax(postings)
  PROVE  Accepted
<1>1. ASSUME NEW key \in DOMAIN postings PROVE ValidList(key)
  <2>1. /\ postings[key] \in Seq(Postings) /\ InOrder(postings[key]) /\ postings[key] /= <<>>
        /\ \A i \in DOMAIN postings[key] : postings[key][i].positions /= <<>>
    BY ListsAreOrdered
  <2>2. /\ Ascending(DocsIn(postings[key]))
        /\ \A i \in DOMAIN postings[key] : Ascending(postings[key][i].positions)
    BY <2>1, OrderIsAscending
  <2>3. IsNormalized(key[2])
    BY DEF PostingsAre, Normalized
  <2>4. \A i \in DOMAIN postings[key] :
          postings[key][i].doc < Len(documents) /\ PositionsFit(postings[key][i], key[1])
    BY ExactFits
  <2> QED BY <2>1, <2>2, <2>3, <2>4 DEF ValidList, DocsIn
<1>2. ASSUME NEW d \in DOMAIN documents PROVE ValidDocument(d)
  <2>1. d \in Nat /\ DOMAIN documents = 1 .. Len(documents) /\ Len(documents) \in Nat
    BY DEF PartsType
  <2>2. \A e \in 1 .. d - 1 : documents[e].id /= documents[d].id
    <3>1. \A e \in 1 .. d - 1 : e \in DOMAIN documents /\ e /= d
      BY <2>1
    <3> QED BY <3>1 DEF DistinctIds
  <2>3. fieldLengths[d] = Lengths(documents[d], DOMAIN documents[d].fields)
    BY DEF LengthsAre
  <2>4. ASSUME NEW key \in AllKeys(documents[d])
        PROVE  /\ key \in DOMAIN postings
               /\ \E n \in DOMAIN postings[key] :
                    /\ postings[key][n].doc = d - 1
                    /\ postings[key][n].positions = Positions(documents[d], key[1], key[2])
    <3>1. key \in DOMAIN postings
      BY DEF PostingsAre
    <3>2. PICK n \in DOMAIN postings[key] : postings[key][n].doc = d - 1
      BY <3>1 DEF PostingsAre, Lists
    <3>3. postings[key][n].positions = Positions(documents[postings[key][n].doc + 1], key[1], key[2])
      BY <3>1, <3>2 DEF PostingsAre, Lists
    <3>4. postings[key][n].doc + 1 = d
      BY <2>1, <3>2
    <3> QED BY <3>1, <3>2, <3>3, <3>4
  <2> QED BY <2>2, <2>3, <2>4 DEF ValidDocument, AllKeys
<1>3. TokensAgree
  <2>1. IsFiniteSet(DOMAIN postings) /\ documents \in Seq(Documents)
    BY DEF PartsType
  <2>2. \A key \in DOMAIN postings : postings[key] \in Seq(Postings) /\ InOrder(postings[key])
    BY ListsAreOrdered
  <2>3. Cardinality(Listed)
          = SumFunction([key \in DOMAIN postings |->
              SumFunction([i \in DOMAIN postings[key] |-> Len(postings[key][i].positions)])])
    BY <2>1, <2>2, ListedCounts
  <2>4. Cardinality(Written)
          = SumFunction([i \in DOMAIN documents |->
              SumFunction(Lengths(documents[i], DOMAIN documents[i].fields))])
    BY <2>1, WrittenCounts
  <2> QED BY <2>3, <2>4, ListedIsWritten DEF TokensAgree
<1> QED BY <1>1, <1>2, <1>3 DEF Accepted

-----------------------------------------------------------------------------
\* A document more.

LEMMA KeysAreFinite ==
  ASSUME NEW document \in Documents, NEW F \in SUBSET DOMAIN document.fields
  PROVE  /\ KeysOf(document, F) \in SUBSET AllKeys(document)
         /\ IsFiniteSet(AllKeys(document))
         /\ IsFiniteSet(KeysOf(document, F))
<1> DEFINE S == InDocument(document, 1)
           f == [o \in S |-> o[1]]
<1>1. IsFiniteSet(S)
  BY DocumentCounts
<1>2. \A o \in S : o[1] \in AllKeys(document)
  <2> SUFFICES ASSUME NEW field \in DOMAIN document.fields, NEW o \in InText(document, 1, field)
               PROVE  o[1] \in AllKeys(document)
    BY DEF InDocument
  <2>1. PICK p \in DOMAIN Tokens(document, field) :
          o = <<<<field, Tokens(document, field)[p]>>, 1 - 1, p - 1>>
    BY DEF InText
  <2>2. o[1] = <<field, Tokens(document, field)[p]>>
    BY <2>1
  <2> QED BY <2>2, TokenIsKey
<1>3. ASSUME NEW key \in AllKeys(document) PROVE \E o \in S : o[1] = key
  <2>1. /\ key[1] \in DOMAIN document.fields /\ key = <<key[1], key[2]>>
        /\ \E p \in DOMAIN Tokens(document, key[1]) : Tokens(document, key[1])[p] = key[2]
    BY KeyIsHeld
  <2>2. PICK p \in DOMAIN Tokens(document, key[1]) : Tokens(document, key[1])[p] = key[2]
    BY <2>1
  <2>3. PICK o : o = <<<<key[1], Tokens(document, key[1])[p]>>, 1 - 1, p - 1>>
    OBVIOUS
  <2>4. o \in InText(document, 1, key[1]) /\ o[1] = key
    BY <2>1, <2>2, <2>3 DEF InText
  <2> QED BY <2>1, <2>4 DEF InDocument
<1>4. f \in Surjection(S, AllKeys(document))
  <2> HIDE DEF S
  <2> QED BY <1>2, <1>3 DEF Surjection
<1>5. IsFiniteSet(AllKeys(document))
  BY <1>1, <1>4, FS_Surjection
<1>6. KeysOf(document, F) \in SUBSET AllKeys(document)
  BY DEF KeysOf, AllKeys
<1> QED BY <1>5, <1>6, FS_Subset

\* What a document adds to the list of a key, and the lists with it.
Addition(document, key, d) == [doc |-> d, positions |-> Positions(document, key[1], key[2])]

Added(more, lists, document, F, d) ==
  /\ DOMAIN more = DOMAIN lists \union KeysOf(document, F)
  /\ \A key \in KeysOf(document, F) :
       more[key] = Append(Get(lists, key, <<>>), Addition(document, key, d))
  /\ \A key \in DOMAIN lists \ KeysOf(document, F) : more[key] = lists[key]

LEMMA AddPostingsIs ==
  ASSUME NEW lists, NEW document, NEW F, NEW d, NEW more, more = AddPostings(lists, document, F, d)
  PROVE  Added(more, lists, document, F, d)
BY DEF AddPostings, Updated, Added, Addition

ListsAreTyped(lists) ==
  /\ IsFiniteSet(DOMAIN lists)
  /\ \A key \in DOMAIN lists : lists[key] \in Seq(Postings)

LEMMA NewPosting ==
  ASSUME NEW document \in Documents, NEW key \in AllKeys(document), NEW d \in Nat
  PROVE  /\ Addition(document, key, d) \in Postings
         /\ Addition(document, key, d).doc = d
         /\ Addition(document, key, d).positions = Positions(document, key[1], key[2])
<1>1. Positions(document, key[1], key[2]) \in Seq(Nat)
  BY PositionsAre
<1> QED BY <1>1 DEF Postings, Addition

LEMMA GetIsTyped ==
  ASSUME NEW lists, ListsAreTyped(lists), NEW key
  PROVE  Get(lists, key, <<>>) \in Seq(Postings)
<1>1. <<>> \in Seq(Postings)
  OBVIOUS
<1> QED BY <1>1 DEF Get, ListsAreTyped

LEMMA AddKeepsTypes ==
  ASSUME NEW lists, ListsAreTyped(lists), NEW document \in Documents,
         NEW F \in SUBSET DOMAIN document.fields, NEW d \in Nat,
         NEW more, more = AddPostings(lists, document, F, d)
  PROVE  ListsAreTyped(more)
<1>1. Added(more, lists, document, F, d)
  BY AddPostingsIs
<1>2. KeysOf(document, F) \in SUBSET AllKeys(document) /\ IsFiniteSet(KeysOf(document, F))
  BY KeysAreFinite
<1>3. IsFiniteSet(DOMAIN more)
  <2>1. IsFiniteSet(DOMAIN lists) /\ DOMAIN more = DOMAIN lists \union KeysOf(document, F)
    BY <1>1 DEF ListsAreTyped, Added
  <2> QED BY <1>2, <2>1, FS_Union
<1>4. ASSUME NEW key \in DOMAIN more PROVE more[key] \in Seq(Postings)
  <2>1. CASE key \in KeysOf(document, F)
    <3>1. Addition(document, key, d) \in Postings
      BY <1>2, <2>1, NewPosting
    <3>2. Get(lists, key, <<>>) \in Seq(Postings)
      BY GetIsTyped
    <3>3. more[key] = Append(Get(lists, key, <<>>), Addition(document, key, d))
      BY <1>1, <2>1 DEF Added
    <3> QED BY <3>1, <3>2, <3>3
  <2>2. CASE key \notin KeysOf(document, F)
    BY <1>1, <2>2 DEF ListsAreTyped, Added
  <2> QED BY <2>1, <2>2
<1> QED BY <1>3, <1>4 DEF ListsAreTyped

\* The lists of one document more.
LEMMA AddsToList ==
  ASSUME NEW corpus \in Seq(Documents), NEW document \in Documents, NEW key,
         NEW list \in Seq(Postings), Lists(corpus, list, key), NEW more, more = Append(corpus, document)
  PROVE  /\ key \in AllKeys(document) =>
              Lists(more, Append(list, Addition(document, key, Len(corpus))), key)
         /\ key \notin AllKeys(document) => Lists(more, list, key)
<1> DEFINE n == Len(corpus)
<1>1. /\ n \in Nat /\ DOMAIN corpus = 1 .. n /\ DOMAIN more = 1 .. n + 1 /\ more[n + 1] = document
      /\ \A d \in 1 .. n : more[d] = corpus[d]
  OBVIOUS
<1>2. \A i \in DOMAIN list : list[i].doc \in Nat /\ list[i].doc + 1 \in 1 .. n /\ list[i].doc < n
  <2>1. \A i \in DOMAIN list : list[i].doc \in Nat /\ list[i].doc + 1 \in 1 .. n
    BY <1>1, PostingTypes DEF Lists
  <2> HIDE DEF n
  <2> QED BY <1>1, <2>1
<1> HIDE DEF n
<1>3. ASSUME NEW i \in DOMAIN list
      PROVE  /\ list[i].doc + 1 \in DOMAIN more
             /\ key \in AllKeys(more[list[i].doc + 1])
             /\ list[i].positions = Positions(more[list[i].doc + 1], key[1], key[2])
  <2>1. list[i].doc + 1 \in 1 .. n /\ list[i].doc + 1 \in 1 .. n + 1
    BY <1>1, <1>2
  <2>2. more[list[i].doc + 1] = corpus[list[i].doc + 1]
    BY <1>1, <2>1
  <2> QED BY <1>1, <2>1, <2>2 DEF Lists
<1>4. ASSUME key \notin AllKeys(document) PROVE Lists(more, list, key)
  <2>1. ASSUME NEW d \in DOMAIN more, key \in AllKeys(more[d]) PROVE \E i \in DOMAIN list : list[i].doc = d - 1
    <3>1. d \in 1 .. n /\ key \in AllKeys(corpus[d])
      BY <1>1, <1>4, <2>1
    <3> QED BY <1>1, <3>1 DEF Lists
  <2>2. \A i, j \in DOMAIN list : i < j => list[i].doc < list[j].doc
    BY DEF Lists
  <2> QED BY <1>3, <2>1, <2>2 DEF Lists
<1>5. ASSUME key \in AllKeys(document), NEW new, NEW longer,
             new = Addition(document, key, n), longer = Append(list, new)
      PROVE  Lists(more, longer, key)
  <2>0. new.doc = n /\ new.positions = Positions(document, key[1], key[2])
    BY <1>1, <1>5, NewPosting
  <2>1. PICK m \in Nat : /\ DOMAIN list = 1 .. m /\ DOMAIN longer = 1 .. m + 1 /\ longer[m + 1] = new
                         /\ \A i \in 1 .. m : longer[i] = list[i]
    <3>1. new \in Postings
      BY <1>1, <1>5, NewPosting
    <3>2. Len(list) \in Nat /\ DOMAIN list = 1 .. Len(list)
      OBVIOUS
    <3>3. DOMAIN longer = 1 .. Len(list) + 1 /\ longer[Len(list) + 1] = new
      BY <1>5, <3>1
    <3>4. \A i \in 1 .. Len(list) : longer[i] = list[i]
      BY <1>5, <3>1
    <3> QED BY <3>2, <3>3, <3>4
  <2>2. ASSUME NEW i \in DOMAIN longer, NEW j \in DOMAIN longer, i < j PROVE longer[i].doc < longer[j].doc
    <3>1. i \in 1 .. m /\ longer[i] = list[i]
      BY <2>1, <2>2
    <3>2. CASE j = m + 1
      BY <1>2, <2>0, <2>1, <3>1, <3>2
    <3>3. CASE j /= m + 1
      <4>1. j \in 1 .. m /\ longer[j] = list[j]
        BY <2>1, <3>3
      <4> QED BY <2>1, <2>2, <3>1, <4>1 DEF Lists
    <3> QED BY <3>2, <3>3
  <2>3. ASSUME NEW i \in DOMAIN longer
        PROVE  /\ longer[i].doc + 1 \in DOMAIN more
               /\ key \in AllKeys(more[longer[i].doc + 1])
               /\ longer[i].positions = Positions(more[longer[i].doc + 1], key[1], key[2])
    <3>1. CASE i = m + 1
      <4>1. longer[i] = new /\ more[new.doc + 1] = document /\ new.doc + 1 \in DOMAIN more
        BY <1>1, <2>0, <2>1, <3>1
      <4> QED BY <1>5, <2>0, <4>1
    <3>2. CASE i /= m + 1
      <4>1. i \in DOMAIN list /\ longer[i] = list[i]
        BY <2>1, <3>2
      <4> QED BY <1>3, <4>1
    <3> QED BY <3>1, <3>2
  <2>4. ASSUME NEW d \in DOMAIN more, key \in AllKeys(more[d]) PROVE \E i \in DOMAIN longer : longer[i].doc = d - 1
    <3>1. CASE d = n + 1
      <4>1. m + 1 \in DOMAIN longer /\ longer[m + 1].doc = d - 1
        BY <1>1, <2>0, <2>1, <3>1
      <4> QED BY <4>1
    <3>2. CASE d /= n + 1
      <4>1. d \in 1 .. n /\ key \in AllKeys(corpus[d])
        BY <1>1, <2>4, <3>2
      <4>2. PICK i \in DOMAIN list : list[i].doc = d - 1
        BY <1>1, <4>1 DEF Lists
      <4>3. i \in DOMAIN longer /\ longer[i].doc = d - 1
        BY <2>1, <4>2
      <4> QED BY <4>3
    <3> QED BY <3>1, <3>2
  <2> QED BY <2>2, <2>3, <2>4 DEF Lists
<1> QED BY <1>4, <1>5 DEF n

-----------------------------------------------------------------------------
\* The builder keeps the lists, lengths, identifiers and totals of its documents.

\* The documents before and after an addition.
Grown(corpus, more, document) ==
  /\ Len(corpus) \in Nat
  /\ DOMAIN corpus = 1 .. Len(corpus)
  /\ DOMAIN more = 1 .. Len(corpus) + 1
  /\ more[Len(corpus) + 1] = document
  /\ \A d \in 1 .. Len(corpus) : more[d] = corpus[d]

LEMMA AppendGrows ==
  ASSUME NEW corpus \in Seq(Documents), NEW document \in Documents
  PROVE  Grown(corpus, Append(corpus, document), document)
BY DEF Grown

\* What the documents have together grows by what the document has.
LEMMA GrownUnion ==
  ASSUME NEW corpus, NEW more, NEW document, Grown(corpus, more, document), NEW F, NEW G,
         \A d \in 1 .. Len(corpus) : G[d] = F[d]
  PROVE  Together(G, DOMAIN more) = Together(F, DOMAIN corpus) \union G[Len(corpus) + 1]
<1>1. PICK n : n = Len(corpus)
  OBVIOUS
<1>2. n \in Nat /\ DOMAIN corpus = 1 .. n /\ DOMAIN more = 1 .. n + 1
  BY <1>1 DEF Grown
<1>3. \A d : d \in 1 .. n + 1 <=> d \in 1 .. n \/ d = n + 1
  BY <1>2
<1> QED BY <1>1, <1>2, <1>3 DEF Together

LEMMA AddKeepsPostings ==
  ASSUME PartsType, PostingsAre, NEW document \in Documents, AddDocument(document)
  PROVE  PostingsAre'
<1> DEFINE n == Len(documents)
           K == [d \in DOMAIN documents |-> AllKeys(documents[d])]
           L == [d \in DOMAIN documents' |-> AllKeys(documents'[d])]
<1>1. /\ documents \in Seq(Documents) /\ documents' = Append(documents, document)
      /\ postings' = AddPostings(postings, document, DOMAIN document.fields, n)
  BY DEF PartsType, AddDocument
<1>2. KeysOf(document, DOMAIN document.fields) = AllKeys(document)
  BY DEF AllKeys
<1>3. Grown(documents, documents', document)
  BY <1>1, AppendGrows
<1>4. Added(postings', postings, document, DOMAIN document.fields, n)
  BY <1>1, AddPostingsIs
<1>5. n \in Nat
  BY <1>3 DEF Grown
<1>6. DOMAIN postings' = Together(L, DOMAIN documents')
  <2>1. DOMAIN postings = Together(K, DOMAIN documents)
    BY DEF PostingsAre, Together
  <2>2. L[n + 1] = AllKeys(document) /\ \A d \in 1 .. n : L[d] = K[d]
    <3>1. \A d \in 1 .. n : d \in 1 .. n + 1
      BY <1>5
    <3> QED BY <1>3, <1>5, <3>1 DEF Grown
  <2> HIDE DEF K, L
  <2>3. Together(L, DOMAIN documents') = Together(K, DOMAIN documents) \union L[n + 1]
    BY <1>3, <2>2, GrownUnion
  <2> QED BY <1>2, <1>4, <2>1, <2>2, <2>3 DEF Added
<1>7. ASSUME NEW key \in DOMAIN postings' PROVE Lists(documents', postings'[key], key)
  <2>1. CASE key \in AllKeys(document)
    <3>1. PICK list : list = Get(postings, key, <<>>)
      OBVIOUS
    <3>2. list \in Seq(Postings) /\ Lists(documents, list, key)
      <4>1. CASE key \in DOMAIN postings
        BY <3>1, <4>1 DEF Get, PostingsAre, PartsType
      <4>2. CASE key \notin DOMAIN postings
        <5>1. list = <<>>
          BY <3>1, <4>2 DEF Get
        <5>2. \A d \in DOMAIN documents : key \notin AllKeys(documents[d])
          BY <4>2 DEF PostingsAre
        <5> QED BY <5>1, <5>2 DEF Lists
      <4> QED BY <4>1, <4>2
    <3>3. postings'[key] = Append(list, Addition(document, key, n))
      BY <1>2, <1>4, <2>1, <3>1 DEF Added
    <3> QED BY <1>1, <2>1, <3>2, <3>3, AddsToList
  <2>2. CASE key \notin AllKeys(document)
    <3>1. key \in DOMAIN postings /\ postings'[key] = postings[key]
      BY <1>2, <1>4, <2>2 DEF Added
    <3>2. postings[key] \in Seq(Postings) /\ Lists(documents, postings[key], key)
      BY <3>1 DEF PostingsAre, PartsType
    <3> QED BY <1>1, <2>2, <3>1, <3>2, AddsToList
  <2> QED BY <2>1, <2>2
<1> QED BY <1>6, <1>7 DEF PostingsAre, Together

LEMMA AddKeepsLengths ==
  ASSUME PartsType, LengthsAre, NEW document \in Documents, AddDocument(document)
  PROVE  LengthsAre'
<1> DEFINE f(d) == Lengths(documents'[d], DOMAIN documents'[d].fields)
<1>1. /\ documents \in Seq(Documents) /\ documents' = Append(documents, document)
      /\ fieldLengths' = Append(fieldLengths, Lengths(document, DOMAIN document.fields))
  BY DEF PartsType, AddDocument
<1>2. Grown(documents, documents', document)
  BY <1>1, AppendGrows
<1>3. PICK n \in Nat : /\ n = Len(documents) /\ DOMAIN documents = 1 .. n /\ DOMAIN documents' = 1 .. n + 1
                       /\ documents'[n + 1] = document
                       /\ \A d \in 1 .. n : documents'[d] = documents[d]
  BY <1>2, Zenon DEF Grown
<1>4. fieldLengths = [d \in 1 .. n |-> f(d)]
  BY <1>3 DEF LengthsAre
<1>5. f(n + 1) = Lengths(document, DOMAIN document.fields)
  BY <1>3
<1> HIDE DEF f
<1>6. Append(fieldLengths, f(n + 1)) = [d \in 1 .. n + 1 |-> f(d)]
  <2>1. [d \in 1 .. n |-> f(d)] \in Seq({f(d) : d \in 1 .. n + 1})
    OBVIOUS
  <2>2. Len([d \in 1 .. n |-> f(d)]) = n
    OBVIOUS
  <2> QED BY <1>4, <2>1, <2>2
<1> QED BY <1>1, <1>3, <1>5, <1>6 DEF LengthsAre, f

LEMMA AddKeepsIds ==
  ASSUME PartsType, IdsAre, NEW document \in Documents, AddDocument(document)
  PROVE  IdsAre'
<1>1. /\ documents \in Seq(Documents) /\ documents' = Append(documents, document)
      /\ externalIds' = externalIds \union {document.id} /\ document.id \notin externalIds
  BY DEF PartsType, AddDocument, IsNew
<1>2. Grown(documents, documents', document)
  BY <1>1, AppendGrows
<1>3. PICK n \in Nat : /\ n = Len(documents) /\ DOMAIN documents = 1 .. n /\ DOMAIN documents' = 1 .. n + 1
                       /\ documents'[n + 1] = document
                       /\ \A d \in 1 .. n : documents'[d] = documents[d]
  BY <1>2 DEF Grown
<1>4. \A d : d \in 1 .. n + 1 <=> d \in 1 .. n \/ d = n + 1
  OBVIOUS
<1>5. externalIds' = {documents'[d].id : d \in DOMAIN documents'}
  <2>1. externalIds = {documents[d].id : d \in 1 .. n}
    BY <1>3 DEF IdsAre
  <2> QED BY <1>1, <1>3, <1>4, <2>1
<1>6. \A d \in 1 .. n : document.id /= documents[d].id
  BY <1>1, <1>3 DEF IdsAre
<1>7. ASSUME NEW d \in 1 .. n + 1, NEW e \in 1 .. n + 1, documents'[d].id = documents'[e].id PROVE d = e
  BY <1>3, <1>4, <1>6, <1>7 DEF IdsAre
<1> QED BY <1>3, <1>5, <1>7 DEF IdsAre

\* The tokens of a field grow by those of the document.
LEMMA AddWrites ==
  ASSUME PartsType, NEW document \in Documents, AddDocument(document), NEW field
  PROVE  /\ field \in DOMAIN document.fields =>
              InField(field)' = InField(field) \union InText(document, Len(documents) + 1, field)
         /\ field \notin DOMAIN document.fields => InField(field)' = InField(field)
         /\ \A o \in InField(field) : o \notin InText(document, Len(documents) + 1, field)
<1> DEFINE n == Len(documents)
           F == [d \in DOMAIN documents |-> InDocument(documents[d], d)]
           G == [d \in DOMAIN documents' |-> InDocument(documents'[d], d)]
<1>1. documents \in Seq(Documents) /\ documents' = Append(documents, document)
  BY DEF PartsType, AddDocument
<1>2. Grown(documents, documents', document)
  BY <1>1, AppendGrows
<1>3. n \in Nat
  BY <1>2 DEF Grown
<1>4. G[n + 1] = InDocument(document, n + 1) /\ \A d \in 1 .. n : G[d] = F[d]
  <2>1. \A d \in 1 .. n : d \in 1 .. n + 1
    BY <1>3
  <2> QED BY <1>2, <1>3, <2>1 DEF Grown
<1>5. Written = Together(F, DOMAIN documents)
  BY WrittenIs DEF Together
<1>6. Written' = Together(G, DOMAIN documents')
  <2>1. (Written = UNION {InDocument(documents[i], i) : i \in DOMAIN documents})'
    BY WrittenIs, PTL
  <2> QED BY <2>1 DEF Together
<1>7. Written' = Written \union InDocument(document, n + 1)
  <2> HIDE DEF F, G
  <2> QED BY <1>2, <1>4, <1>5, <1>6, GrownUnion
<1>8. \A o : o \in InDocument(document, n + 1) /\ o[1][1] = field
               <=> field \in DOMAIN document.fields /\ o \in InText(document, n + 1, field)
  BY DEF InDocument, InText
<1>9. \A o : o \in InField(field)' <=> o \in InField(field) \/ (o \in InDocument(document, n + 1) /\ o[1][1] = field)
  BY <1>7 DEF InField
<1>10. ASSUME NEW o \in Written PROVE o[2] /= n
  <2>1. PICK d \in DOMAIN documents : o \in InDocument(documents[d], d)
    BY WrittenIs
  <2>2. o[2] = d - 1
    BY <2>1 DEF InDocument, InText
  <2>3. d \in 1 .. n
    BY <1>1
  <2> QED BY <1>3, <2>2, <2>3
<1>11. \A o \in InText(document, n + 1, field) : o[2] = n
  <2>1. (n + 1) - 1 = n
    BY <1>3
  <2> QED BY <2>1 DEF InText
<1> HIDE DEF n
<1>12. \A o \in InField(field) : o \notin InText(document, n + 1, field)
  BY <1>10, <1>11 DEF InField
<1> QED BY <1>8, <1>9, <1>12 DEF n

LEMMA AddKeepsTotals ==
  ASSUME PartsType, TotalsAre, NEW document \in Documents, AddDocument(document)
  PROVE  TotalsAre'
<1> DEFINE n == Len(documents)
           H == DOMAIN document.fields
           K == [d \in DOMAIN documents |-> DOMAIN documents[d].fields]
           L == [d \in DOMAIN documents' |-> DOMAIN documents'[d].fields]
<1>1. /\ documents \in Seq(Documents) /\ documents' = Append(documents, document)
      /\ fieldTotals' = AddTotals(fieldTotals, document, H)
  BY DEF PartsType, AddDocument
<1>2. Grown(documents, documents', document)
  BY <1>1, AppendGrows
<1>3. n \in Nat
  BY <1>2 DEF Grown
<1>4. /\ DOMAIN fieldTotals' = DOMAIN fieldTotals \union H
      /\ \A field \in H : fieldTotals'[field] = Get(fieldTotals, field, 0) + Lengths(document, H)[field]
      /\ \A field \in DOMAIN fieldTotals \ H : fieldTotals'[field] = fieldTotals[field]
  BY <1>1 DEF AddTotals, Updated
<1>5. DOMAIN fieldTotals' = Together(L, DOMAIN documents')
  <2>1. DOMAIN fieldTotals = Together(K, DOMAIN documents)
    BY DEF TotalsAre, Together
  <2>2. L[n + 1] = H /\ \A d \in 1 .. n : L[d] = K[d]
    <3>1. \A d \in 1 .. n : d \in 1 .. n + 1
      BY <1>3
    <3> QED BY <1>2, <1>3, <3>1 DEF Grown
  <2> HIDE DEF K, L
  <2>3. Together(L, DOMAIN documents') = Together(K, DOMAIN documents) \union L[n + 1]
    BY <1>2, <2>2, GrownUnion
  <2> QED BY <1>4, <2>1, <2>2, <2>3
<1>6. ASSUME NEW field \in DOMAIN fieldTotals' PROVE fieldTotals'[field] = Cardinality(InField(field)')
  <2>1. IsFiniteSet(InField(field))
    BY <1>1, FieldCounts
  <2>2. Get(fieldTotals, field, 0) = Cardinality(InField(field))
    <3>1. CASE field \in DOMAIN fieldTotals
      BY <3>1 DEF TotalsAre, Get
    <3>2. CASE field \notin DOMAIN fieldTotals
      <4>1. ASSUME NEW o \in InField(field) PROVE FALSE
        <5>1. PICK d \in DOMAIN documents : o \in InDocument(documents[d], d) /\ o[1][1] = field
          BY WrittenIs DEF InField
        <5>2. field \in DOMAIN documents[d].fields
          BY <5>1 DEF InDocument, InText
        <5> QED BY <3>2, <5>2 DEF TotalsAre
      <4>2. InField(field) = {}
        BY <4>1
      <4>3. Get(fieldTotals, field, 0) = 0
        BY <3>2 DEF Get
      <4> QED BY <4>2, <4>3, FS_EmptySet
    <3> QED BY <3>1, <3>2
  <2>3. CASE field \in H
    <3> DEFINE T == InText(document, n + 1, field)
    <3>1. InField(field)' = InField(field) \union T /\ InField(field) \intersect T = {}
      BY <2>3, AddWrites
    <3>2. IsFiniteSet(T) /\ Cardinality(T) = Len(Tokens(document, field))
      BY <1>3, <2>3, TextCounts
    <3>3. fieldTotals'[field] = Cardinality(InField(field)) + Len(Tokens(document, field))
      BY <1>4, <2>2, <2>3 DEF Lengths
    <3> HIDE DEF T
    <3>4. Cardinality(InField(field) \union T)
            = Cardinality(InField(field)) + Cardinality(T) - Cardinality(InField(field) \intersect T)
      BY <2>1, <3>2, FS_Union
    <3>5. Cardinality(InField(field) \intersect T) = 0
      BY <3>1, FS_EmptySet
    <3>6. Cardinality(InField(field)) \in Nat /\ Cardinality(T) \in Nat
      BY <2>1, <3>2, FS_CardinalityType
    <3> QED BY <3>1, <3>2, <3>3, <3>4, <3>5, <3>6
  <2>4. CASE field \notin H
    <3>1. InField(field)' = InField(field)
      BY <2>4, AddWrites
    <3>2. field \in DOMAIN fieldTotals /\ fieldTotals'[field] = fieldTotals[field]
      BY <1>4, <2>4
    <3> QED BY <3>1, <3>2 DEF TotalsAre
  <2> QED BY <2>3, <2>4
<1>7. \A field \in DOMAIN fieldTotals' : fieldTotals'[field] = Cardinality(InField(field)')
  BY <1>6
<1> QED BY <1>5, <1>7 DEF TotalsAre, Together

-----------------------------------------------------------------------------
\* The parts keep their types, whatever is added to them or changed in them.

LEMMA AddKeepsParts ==
  ASSUME PartsType, NEW document \in Documents, NEW F \in SUBSET DOMAIN document.fields,
         postings' = AddPostings(postings, document, F, Len(documents)), documents' \in Seq(Documents)
  PROVE  PartsType'
<1>1. ListsAreTyped(postings) /\ Len(documents) \in Nat
  BY DEF ListsAreTyped, PartsType
<1>2. ListsAreTyped(postings')
  BY <1>1, AddKeepsTypes
<1> QED BY <1>2 DEF ListsAreTyped, PartsType

LEMMA EditsAreTyped == EditedLists \subseteq Seq(Postings)
BY EditsAssumption DEF Postings

LEMMA EditKeepsParts ==
  ASSUME PartsType, Edit
  PROVE  PartsType'
<1>1. CASE EditPostings
  <2>1. documents' = documents
    BY <1>1 DEF EditPostings
  <2>2. CASE \E key \in DOMAIN postings : postings' = [k \in DOMAIN postings \ {key} |-> postings[k]]
    <3>1. PICK key \in DOMAIN postings : postings' = [k \in DOMAIN postings \ {key} |-> postings[k]]
      BY <2>2
    <3>2. /\ DOMAIN postings' = DOMAIN postings \ {key}
          /\ \A k \in DOMAIN postings' : postings'[k] = postings[k]
      BY <3>1
    <3>3. IsFiniteSet(DOMAIN postings')
      BY <3>2, FS_Subset DEF PartsType
    <3> QED BY <2>1, <3>2, <3>3 DEF PartsType
  <2>3. CASE \E document \in Documents, list \in EditedLists :
               \E key \in KeysOf(document, DOMAIN document.fields) :
                 postings' = Updated(postings, [k \in {key} |-> list])
    <3>0. PICK list \in EditedLists : \E key : postings' = Updated(postings, [k \in {key} |-> list])
      BY <2>3
    <3>1. PICK key : postings' = Updated(postings, [k \in {key} |-> list])
      BY <3>0
    <3>2. /\ DOMAIN postings' = DOMAIN postings \union {key} /\ postings'[key] = list
          /\ \A k \in DOMAIN postings \ {key} : postings'[k] = postings[k]
      BY <3>1 DEF Updated
    <3>3. IsFiniteSet(DOMAIN postings')
      <4>1. IsFiniteSet({key}) /\ IsFiniteSet(DOMAIN postings)
        BY FS_Singleton DEF PartsType
      <4> QED BY <3>2, <4>1, FS_Union
    <3>4. list \in Seq(Postings)
      BY EditsAreTyped
    <3>5. \A k \in DOMAIN postings' : postings'[k] \in Seq(Postings)
      BY <3>2, <3>4 DEF PartsType
    <3> QED BY <2>1, <3>3, <3>5 DEF PartsType
  <2> QED BY <1>1, <2>2, <2>3 DEF EditPostings
<1>2. CASE EditLengths
  BY <1>2 DEF EditLengths, PartsType
<1>3. CASE EditDocuments
  BY <1>3 DEF EditDocuments, PartsType
<1>4. CASE EditBlockMax
  BY <1>4 DEF EditBlockMax, PartsType
<1> QED BY <1>1, <1>2, <1>3, <1>4 DEF Edit

LEMMA StartIsTyped ==
  ASSUME Init
  PROVE  IndexInv
<1>1. documents = <<>> /\ postings = Empty /\ fieldLengths = <<>> /\ fieldTotals = Empty /\ externalIds = {}
      /\ state = "building"
  BY DEF Init
<1>2. DOMAIN documents = {} /\ DOMAIN postings = {} /\ DOMAIN fieldTotals = {}
  BY <1>1 DEF Empty
<1>3. PartsType
  BY <1>1, <1>2, FS_EmptySet DEF PartsType
<1>4. PostingsAre
  BY <1>2 DEF PostingsAre
<1>5. LengthsAre
  BY <1>1 DEF LengthsAre
<1>6. IdsAre
  BY <1>1, <1>2 DEF IdsAre
<1>7. TotalsAre
  BY <1>2 DEF TotalsAre
<1> QED BY <1>1, <1>3, <1>4, <1>5, <1>6, <1>7 DEF IndexInv

\* What a reader thinks of parts that stay.
LEMMA PartsStay ==
  ASSUME UNCHANGED <<documents, fieldLengths, postings, blockMax>>
  PROVE  Accepted' <=> Accepted
<1>1. TokensAgree' <=> TokensAgree
  BY DEF TokensAgree
<1>2. \A key \in DOMAIN postings : ValidList(key)' <=> ValidList(key)
  BY DEF ValidList, PositionsFit
<1>3. \A i \in DOMAIN documents : ValidDocument(i)' <=> ValidDocument(i)
  BY DEF ValidDocument
<1> QED BY <1>1, <1>2, <1>3 DEF Accepted

\* A step that leaves the parts and the flags alone.
LEMMA IdleKeepsInv ==
  ASSUME IndexInv, UNCHANGED <<documents, externalIds, fieldLengths, fieldTotals, postings, blockMax,
                               state, partial>>
  PROVE  IndexInv'
<1>1. PartsType'
  BY DEF IndexInv, PartsType
<1>2. /\ PostingsAre <=> PostingsAre'
      /\ LengthsAre <=> LengthsAre'
      /\ IdsAre <=> IdsAre'
      /\ TotalsAre <=> TotalsAre'
  <2>1. PostingsAre <=> PostingsAre'
    BY DEF PostingsAre
  <2>2. LengthsAre <=> LengthsAre'
    BY DEF LengthsAre
  <2>3. IdsAre <=> IdsAre'
    BY DEF IdsAre
  <2>4. TotalsAre <=> TotalsAre'
    BY DEF TotalsAre, InField, Written
  <2> QED BY <2>1, <2>2, <2>3, <2>4
<1>3. (Accepted <=> Accepted') /\ SummedTotals' = SummedTotals
  <2>1. Accepted <=> Accepted'
    BY PartsStay
  <2>2. SummedTotals' = SummedTotals
    BY DEF SummedTotals
  <2> QED BY <2>1, <2>2
<1> QED BY <1>1, <1>2, <1>3 DEF IndexInv

\* Every step keeps the invariant.
LEMMA StepKeepsInv ==
  ASSUME IndexInv, Next
  PROVE  IndexInv'
<1>1. PartsType
  BY DEF IndexInv
<1>2. ASSUME NEW document \in Documents, AddDocument(document) PROVE IndexInv'
  <2>1. state = "building" /\ state' = state /\ partial' = partial
    BY <1>2 DEF AddDocument, Offer
  <2>2. PartsType'
    <3>1. documents' \in Seq(Documents) /\ DOMAIN document.fields \in SUBSET DOMAIN document.fields
          /\ postings' = AddPostings(postings, document, DOMAIN document.fields, Len(documents))
      BY <1>1, <1>2 DEF AddDocument, PartsType
    <3> QED BY <1>1, <3>1, AddKeepsParts
  <2>3. ASSUME ~partial PROVE PostingsAre' /\ LengthsAre' /\ IdsAre' /\ TotalsAre'
    <3>1. PostingsAre /\ LengthsAre /\ IdsAre /\ TotalsAre
      BY <2>1, <2>3 DEF IndexInv
    <3> QED BY <1>1, <1>2, <3>1, AddKeepsPostings, AddKeepsLengths, AddKeepsIds, AddKeepsTotals
  <2> QED BY <2>1, <2>2, <2>3 DEF IndexInv
<1>3. ASSUME NEW document \in Documents, RejectDuplicate(document) PROVE IndexInv'
  <2>1. UNCHANGED <<documents, externalIds, fieldLengths, fieldTotals, postings, blockMax, state, partial>>
    BY <1>3 DEF RejectDuplicate, Offer, builder
  <2> QED BY <2>1, IdleKeepsInv
<1>4. ASSUME NEW document \in Documents, AddFails(document) PROVE IndexInv'
  <2>1. partial' = TRUE /\ state = "building" /\ state' = state /\ documents' = documents
        /\ postings' = AddPostings(postings, document, Handled(document), Len(documents))
    BY <1>4 DEF AddFails, Offer
  <2>2. Handled(document) \in SUBSET DOMAIN document.fields
    BY DEF Handled
  <2>3. PartsType'
    <3>1. documents' \in Seq(Documents)
      BY <1>1, <2>1 DEF PartsType
    <3> QED BY <1>1, <2>1, <2>2, <3>1, AddKeepsParts
  <2> QED BY <2>1, <2>3 DEF IndexInv
<1>5. CASE Finish
  <2>1. state = "building" /\ state' = "finished" /\ blockMax' = ComputeBlockMax(postings)
        /\ UNCHANGED <<builder, partial>>
    BY <1>5 DEF Finish
  <2> QED BY <2>1 DEF IndexInv, PartsType, PostingsAre, LengthsAre, IdsAre, TotalsAre, InField, Written,
                      builder
<1>6. CASE Store
  <2>1. state' = "stored" /\ UNCHANGED <<documents, postings>>
    BY <1>6 DEF Store
  <2> QED BY <1>1, <2>1 DEF IndexInv, PartsType
<1>7. CASE Edit
  <2>1. state = "stored" /\ state' = state
    BY <1>7 DEF Edit
  <2> QED BY <1>1, <1>7, <2>1, EditKeepsParts DEF IndexInv
<1>8. CASE Load
  <2>1. /\ state' = "loaded" /\ Accepted /\ fieldTotals' = SummedTotals
        /\ UNCHANGED <<documents, fieldLengths, postings, blockMax>>
    BY <1>8 DEF Load
  <2>2. PartsType'
    BY <1>1, <2>1 DEF PartsType
  <2>3. Accepted'
    BY <2>1, PartsStay
  <2>4. fieldTotals' = SummedTotals'
    BY <2>1 DEF SummedTotals
  <2>5. blockMax' = ComputeBlockMax(postings)'
    BY <2>1 DEF Accepted
  <2> QED BY <2>1, <2>2, <2>3, <2>4, <2>5 DEF IndexInv
<1>9. CASE Refuse
  <2>1. state' = "refused" /\ UNCHANGED <<documents, postings>>
    BY <1>9 DEF Refuse, builder
  <2> QED BY <1>1, <2>1 DEF IndexInv, PartsType
<1> QED BY <1>2, <1>3, <1>4, <1>5, <1>6, <1>7, <1>8, <1>9 DEF Next

-----------------------------------------------------------------------------
\* A list has as many documents as postings.
LEMMA DocsCount ==
  ASSUME NEW list \in Seq(Postings), InOrder(list)
  PROVE  Cardinality(DocsOf(list)) = Len(list)
<1> DEFINE n == Len(list)
           f == [i \in 1 .. n |-> list[i].doc]
<1>1. n \in Nat /\ DOMAIN list = 1 .. n
  OBVIOUS
<1>2. \A i \in 1 .. n : list[i].doc \in Nat
  BY <1>1, PostingTypes
<1>3. ASSUME NEW i \in 1 .. n, NEW j \in 1 .. n, f[i] = f[j] PROVE i = j
  <2>1. list[i].doc = list[j].doc
    BY <1>3
  <2>2. ~ (i < j) /\ ~ (j < i)
    BY <1>1, <1>2, <2>1 DEF InOrder
  <2> HIDE DEF n
  <2> QED BY <1>1, <2>2
<1>4. ValuesOf(f, n) = DocsOf(list)
  BY <1>1 DEF DocsOf, ValuesOf
<1>5. IsFiniteSet(ValuesOf(f, n)) /\ Cardinality(ValuesOf(f, n)) = n
  <2> HIDE DEF f, n
  <2>1. n \in Nat /\ OneToOne(f, n)
    BY ONLY <1>1, <1>3 DEF OneToOne
  <2> QED BY ONLY <2>1, OneForEach
<1> HIDE DEF f
<1> QED BY <1>4, <1>5

\* Exact lists are in order, and their keys are in fields of the documents.
LEMMA ExactIsOrdered ==
  ASSUME PartsType, Exact, NEW key \in DOMAIN postings
  PROVE  /\ postings[key] \in Seq(Postings)
         /\ InOrder(postings[key])
         /\ key = <<key[1], key[2]>>
         /\ \E d \in DOMAIN documents : key[1] \in DOMAIN documents[d].fields
<1>1. postings[key] \in Seq(Postings)
  BY DEF PartsType
<1>2. /\ Ascending(DocsIn(postings[key]))
      /\ \A i \in DOMAIN postings[key] : Ascending(postings[key][i].positions)
  BY DEF Exact, DocsIn, ToSet
<1>3. PICK posting \in ToSet(postings[key]) : posting.positions /= <<>>
  <2>1. postings[key] /= <<>> /\ \A posting \in ToSet(postings[key]) : posting.positions /= <<>>
    BY DEF Exact
  <2>2. 1 \in DOMAIN postings[key]
    BY <1>1, <2>1
  <2>3. postings[key][1] \in ToSet(postings[key])
    BY <2>2 DEF ToSet
  <2> QED BY <2>1, <2>3
<1>4. PICK p : p \in ToSet(posting.positions)
  <2>1. posting \in Postings
    BY <1>1 DEF ToSet
  <2>2. posting.positions \in Seq(Nat)
    BY <2>1 DEF Postings
  <2>3. 1 \in DOMAIN posting.positions
    BY <1>3, <2>2
  <2> QED BY <2>3 DEF ToSet
<1>5. PICK o : o = <<key, posting.doc, p>>
  OBVIOUS
<1>6. o \in Written /\ o[1] = key
  <2>1. o \in Listed
    BY <1>3, <1>4, <1>5 DEF Listed
  <2> QED BY <1>5, <2>1 DEF Exact
<1>7. PICK d \in DOMAIN documents : o \in InDocument(documents[d], d)
  BY <1>6, WrittenIs
<1>8. PICK field \in DOMAIN documents[d].fields : o \in InText(documents[d], d, field)
  BY <1>7 DEF InDocument
<1>9. PICK term : key = <<field, term>>
  <2>1. PICK p2 \in DOMAIN Tokens(documents[d], field) :
          o = <<<<field, Tokens(documents[d], field)[p2]>>, d - 1, p2 - 1>>
    BY <1>8 DEF InText
  <2> QED BY <1>6, <2>1
<1>10. key = <<key[1], key[2]>> /\ key[1] = field
  BY <1>9
<1> QED BY <1>1, <1>2, <1>10, OrderIsAscending

\* The stream of one field, and of all the fields that there are.
LEMMA FieldStream ==
  ASSUME NEW lists, NEW field, NEW term
  PROVE  Stream(lists, {field}, term) = DocsOf(Get(lists, <<field, term>>, <<>>))
BY DEF Stream

LEMMA SparseStream ==
  ASSUME NEW lists, NEW F, NEW G, F \subseteq G, NEW term,
         \A field \in G \ F : <<field, term>> \notin DOMAIN lists
  PROVE  Stream(lists, G, term) = Stream(lists, F, term)
<1>1. ASSUME NEW field \in G \ F PROVE DocsOf(Get(lists, <<field, term>>, <<>>)) = {}
  <2>1. Get(lists, <<field, term>>, <<>>) = <<>>
    BY DEF Get
  <2> QED BY <2>1 DEF DocsOf
<1> QED BY <1>1 DEF Stream

LEMMA ExactFindsBounds ==
  ASSUME PartsType, Exact, blockMax = ComputeBlockMax(postings),
         DOMAIN fieldTotals = UNION {DOMAIN documents[d].fields : d \in DOMAIN documents},
         NEW term \in {key[2] : key \in DOMAIN postings}, NEW field \in DOMAIN fieldTotals \union {AllFields},
         NEW scored,
         scored = Stream(postings, IF field = AllFields THEN DOMAIN fieldTotals ELSE {field}, term),
         scored /= {}
  PROVE  <<field, term>> \in DOMAIN blockMax /\ blockMax[<<field, term>>] = Cardinality(scored)
<1> DEFINE K == DOMAIN postings
           fields == {key[1] : key \in K}
           merged == {<<AllFields, key[2]>> : key \in K}
<1>1. /\ DOMAIN blockMax = K \union merged
      /\ \A key \in K \union merged :
           blockMax[key] = IF key[1] = AllFields THEN Cardinality(Stream(postings, fields, key[2]))
                                                 ELSE Len(postings[key])
  BY DEF ComputeBlockMax
<1>2. \A key \in K : key[1] \in DOMAIN fieldTotals /\ key[1] /= AllFields
  <2>1. \A d \in DOMAIN documents : AllFields \notin DOMAIN documents[d].fields
    BY DocumentsAssumption DEF PartsType
  <2> QED BY <2>1, ExactIsOrdered
<1> DEFINE k == <<field, term>>
<1>3. k = <<field, term>> /\ k[1] = field /\ k[2] = term
  OBVIOUS
<1> HIDE DEF k
<1>4. CASE field = AllFields
  <2>1. k \in merged
    BY <1>3, <1>4
  <2>2. blockMax[k] = Cardinality(Stream(postings, fields, term))
    BY <1>1, <1>3, <1>4, <2>1
  <2>3. Stream(postings, DOMAIN fieldTotals, term) = Stream(postings, fields, term)
    <3>1. fields \subseteq DOMAIN fieldTotals
      BY <1>2
    <3>2. ASSUME NEW f \in DOMAIN fieldTotals \ fields PROVE <<f, term>> \notin K
      <4>1. <<f, term>>[1] = f
        OBVIOUS
      <4> QED BY <4>1
    <3> HIDE DEF fields, K
    <3> QED BY <3>1, <3>2, SparseStream DEF K
  <2>4. scored = Stream(postings, DOMAIN fieldTotals, term)
    BY <1>4
  <2> QED BY <1>1, <1>3, <2>1, <2>2, <2>3, <2>4
<1>5. CASE field /= AllFields
  <2>1. scored = DocsOf(Get(postings, k, <<>>))
    <3>1. scored = Stream(postings, {field}, term)
      BY <1>5
    <3>2. Stream(postings, {field}, term) = DocsOf(Get(postings, <<field, term>>, <<>>))
      BY FieldStream
    <3> QED BY <1>3, <3>1, <3>2
  <2>2. k \in K
    <3>1. ASSUME k \notin K PROVE FALSE
      <4>1. Get(postings, k, <<>>) = <<>>
        BY <3>1 DEF Get
      <4>2. DocsOf(<<>>) = {}
        BY DEF DocsOf
      <4> QED BY <2>1, <4>1, <4>2
    <3> QED BY <3>1
  <2>3. scored = DocsOf(postings[k])
    BY <2>1, <2>2 DEF Get
  <2>4. Cardinality(DocsOf(postings[k])) = Len(postings[k])
    BY <2>2, ExactIsOrdered, DocsCount
  <2>5. blockMax[k] = Len(postings[k]) /\ k \in DOMAIN blockMax
    BY <1>1, <1>3, <1>5, <2>2
  <2> QED BY <1>3, <2>3, <2>4, <2>5
<1> QED BY <1>4, <1>5

-----------------------------------------------------------------------------
\* What the invariant says of an index.

LEMMA InvIsExact ==
  ASSUME IndexInv
  PROVE  BuilderIsExact /\ LoadedIsExact
<1>1. ASSUME state \in {"building", "finished"}, ~partial PROVE Exact
  BY <1>1, PartsAreExact DEF IndexInv
<1>2. ASSUME state = "loaded" PROVE Exact
  BY <1>2, AcceptedIsExact DEF IndexInv
<1> QED BY <1>1, <1>2 DEF BuilderIsExact, LoadedIsExact

LEMMA InvFindsBounds ==
  ASSUME IndexInv
  PROVE  QueriesFindBounds
<1> SUFFICES ASSUME state \in {"finished", "loaded"}, ~partial,
                    NEW term \in {key[2] : key \in DOMAIN postings},
                    NEW field \in DOMAIN fieldTotals \union {AllFields}
             PROVE  LET scored == Stream(postings, IF field = AllFields THEN DOMAIN fieldTotals ELSE {field}, term)
                    IN  scored /= {} => /\ <<field, term>> \in DOMAIN blockMax
                                        /\ blockMax[<<field, term>>] = Cardinality(scored)
  BY DEF QueriesFindBounds
<1>1. PartsType /\ Exact /\ blockMax = ComputeBlockMax(postings)
  BY InvIsExact DEF IndexInv, BuilderIsExact, LoadedIsExact
<1>2. DOMAIN fieldTotals = UNION {DOMAIN documents[d].fields : d \in DOMAIN documents}
  <2>1. CASE state = "finished"
    BY <2>1 DEF IndexInv, TotalsAre
  <2>2. CASE state = "loaded"
    BY <2>2 DEF IndexInv, SummedTotals
  <2> QED BY <2>1, <2>2
<1>3. PICK scored : scored = Stream(postings, IF field = AllFields THEN DOMAIN fieldTotals ELSE {field}, term)
  OBVIOUS
<1>4. ASSUME scored /= {}
      PROVE  <<field, term>> \in DOMAIN blockMax /\ blockMax[<<field, term>>] = Cardinality(scored)
  <2>1. /\ term \in {key[2] : key \in DOMAIN postings}
        /\ field \in DOMAIN fieldTotals \union {AllFields}
    OBVIOUS
  <2> QED BY ONLY <1>1, <1>2, <1>3, <1>4, <2>1, ExactFindsBounds
<1> QED BY <1>3, <1>4

\* No token is changed by being analyzed again.
AllNormalized ==
  \A document \in Documents : \A key \in AllKeys(document) : IsNormalized(key[2])

LEMMA InvLoadsBack ==
  ASSUME IndexInv, AllNormalized
  PROVE  SavedLoadsBack
<1> SUFFICES ASSUME state = "finished", ~partial PROVE Accepted
  BY DEF SavedLoadsBack
<1>1. PartsType /\ PostingsAre /\ LengthsAre /\ IdsAre /\ blockMax = ComputeBlockMax(postings)
  BY DEF IndexInv
<1>2. DistinctIds /\ Normalized
  <2>1. \A d \in DOMAIN documents : documents[d] \in Documents
    BY <1>1 DEF PartsType
  <2> QED BY <1>1, <2>1 DEF IdsAre, DistinctIds, Normalized, AllNormalized
<1> QED BY <1>1, <1>2, ExactIsAccepted

-----------------------------------------------------------------------------
\* The lexicon of a forward index.

LEMMA FiniteTogether ==
  ASSUME NEW S, IsFiniteSet(S), NEW F, \A x \in S : IsFiniteSet(F[x])
  PROVE  IsFiniteSet(Together(F, S))
<1> DEFINE f == [x \in S |-> F[x]]
           T == {F[x] : x \in S}
<1>1. f \in Surjection(S, T)
  BY DEF Surjection
<1>2. IsFiniteSet(T)
  <2> HIDE DEF f, T
  <2> QED BY <1>1, FS_Surjection
<1>3. \A U \in T : IsFiniteSet(U)
  OBVIOUS
<1> HIDE DEF T
<1>4. IsFiniteSet(UNION T)
  BY <1>2, <1>3, FS_UNION
<1> QED BY <1>4 DEF Together, T

\* The keys of the documents a forward index is built from.
KeysOfAll(sources) == UNION {AllKeys(document) : document \in ToSet(sources)}

LEMMA SourcesAre ==
  ASSUME NEW sources \in Sources
  PROVE  /\ sources \in Seq(Documents) /\ sources \in Seq(SourceDocuments)
         /\ KeysOfAll(sources) \subseteq TermKeys
         /\ IsFiniteSet(KeysOfAll(sources))
<1>1. sources \in Seq(Documents)
  BY SourcesAssumption
<1>2. PICK n \in Nat : n = Len(sources) /\ DOMAIN sources = 1 .. n
  BY <1>1
<1>3. \A i \in 1 .. n : sources[i] \in Documents /\ sources[i] \in SourceDocuments
  BY <1>1, <1>2 DEF SourceDocuments, ToSet
<1>4. sources \in Seq(SourceDocuments)
  <2>1. sources = [i \in 1 .. n |-> sources[i]]
    BY <1>1, <1>2
  <2> QED BY <1>3, <2>1
<1>5. KeysOfAll(sources) \subseteq TermKeys
  BY <1>2, <1>3 DEF KeysOfAll, TermKeys, ToSet
<1>6. IsFiniteSet(KeysOfAll(sources))
  <2> DEFINE F == [i \in 1 .. n |-> AllKeys(sources[i])]
  <2>1. ASSUME NEW i \in 1 .. n PROVE IsFiniteSet(F[i])
    <3>1. IsFiniteSet(AllKeys(sources[i]))
      BY <1>3, KeysAreFinite
    <3> QED BY <3>1
  <2>2. IsFiniteSet(1 .. n)
    BY FS_Interval
  <2>3. Together(F, 1 .. n) = KeysOfAll(sources)
    BY <1>2 DEF Together, KeysOfAll, ToSet
  <2> HIDE DEF F
  <2>4. \A i \in 1 .. n : IsFiniteSet(F[i])
    BY <2>1
  <2> QED BY <2>2, <2>3, <2>4, FiniteTogether
<1> QED BY <1>1, <1>4, <1>5, <1>6

\* The lexicon has the keys of the documents, once each, ascending.
IsLexicon(lexicon, K) ==
  /\ lexicon \in Seq(K)
  /\ ToSet(lexicon) = K
  /\ \A i, j \in DOMAIN lexicon : i < j => KeyBefore(lexicon[i], lexicon[j])
  /\ \A i, j \in DOMAIN lexicon : lexicon[i] = lexicon[j] => i = j

LEMMA LexiconIsSorted ==
  ASSUME NEW sources \in Sources
  PROVE  IsLexicon(Lexicon(sources), KeysOfAll(sources))
<1> DEFINE S == KeysOfAll(sources)
           R == {p \in S \X S : KeyBefore(p[1], p[2])}
           seq == Lexicon(sources)
           pick(i) == CHOOSE x \in S : Cardinality({y \in S : KeyBefore(y, x)}) = i - 1
<1>1. IsFiniteSet(S) /\ S \subseteq TermKeys
  BY SourcesAre
<1>2. StrictOrder(R, S)
  <2>1. /\ \A k \in S : ~ KeyBefore(k, k)
        /\ \A k, l, m \in S : KeyBefore(k, l) /\ KeyBefore(l, m) => KeyBefore(k, m)
        /\ \A k, l \in S : k /= l => KeyBefore(k, l) \/ KeyBefore(l, k)
    BY <1>1, KeysAssumption
  <2>2. \A k, l \in S : <<k, l>> \in R <=> KeyBefore(k, l)
    OBVIOUS
  <2> HIDE DEF S, R
  <2> QED BY <2>1, <2>2 DEF StrictOrder
<1>3. \A x \in S : {y \in S : <<y, x>> \in R} = {y \in S : KeyBefore(y, x)}
  OBVIOUS
<1>4. \A x \in S : Place(R, S, x) = Cardinality({y \in S : KeyBefore(y, x)})
  BY <1>3 DEF Place
<1>5. seq = [i \in 1 .. Cardinality(S) |-> pick(i)]
  BY DEF Lexicon, Sorted, KeysOfAll
<1>6. ASSUME NEW i PROVE pick(i) = CHOOSE x \in S : Place(R, S, x) = i - 1
  <2>1. \A x \in S : Cardinality({y \in S : KeyBefore(y, x)}) = i - 1 <=> Place(R, S, x) = i - 1
    BY <1>4
  <2> HIDE DEF R, S
  <2> QED BY <2>1
<1>7. \A a, b \in S : <<a, b>> \in R => KeyBefore(a, b)
  OBVIOUS
<1> HIDE DEF R, seq, pick, S
<1>8. Ranked(seq, S, R)
  BY <1>5, <1>6 DEF Ranked
<1>9. Arranged(seq, S, R)
  BY <1>1, <1>2, <1>8, RanksAscend
<1>10. seq = [i \in 1 .. Cardinality(S) |-> seq[i]] /\ Cardinality(S) \in Nat
  BY <1>1, <1>5, FS_CardinalityType
<1>11. seq \in Seq(S)
  BY <1>5, <1>9, <1>10 DEF Arranged
<1>12. \A i, j \in DOMAIN seq : i < j => KeyBefore(seq[i], seq[j])
  BY <1>7, <1>9 DEF Arranged
<1> QED BY <1>9, <1>11, <1>12 DEF IsLexicon, Arranged, ToSet, seq, S

\* The ID of a key of the lexicon.
LEMMA IdIs ==
  ASSUME NEW lexicon, NEW T, lexicon \in Seq(T), NEW key \in ToSet(lexicon)
  PROVE  /\ IdOf(lexicon, key) \in Nat
         /\ IdOf(lexicon, key) + 1 \in DOMAIN lexicon
         /\ lexicon[IdOf(lexicon, key) + 1] = key
<1> DEFINE i == CHOOSE i \in DOMAIN lexicon : lexicon[i] = key
<1>1. \E j \in DOMAIN lexicon : lexicon[j] = key
  BY DEF ToSet
<1>2. i \in DOMAIN lexicon /\ lexicon[i] = key
  BY <1>1
<1>3. i \in Nat /\ i >= 1
  BY <1>2
<1>4. IdOf(lexicon, key) = i - 1
  BY DEF IdOf
<1> HIDE DEF i
<1> QED BY <1>2, <1>3, <1>4

-----------------------------------------------------------------------------
\* What a forward index built from documents is.

Names(lexicon, id, document, field, p) ==
  /\ id \in Nat
  /\ id + 1 \in DOMAIN lexicon
  /\ lexicon[id + 1] = <<field, Tokens(document, field)[p]>>

LEMMA EncodedIs ==
  ASSUME NEW sources \in Sources, NEW document \in ToSet(sources), NEW field \in DOMAIN document.fields,
         NEW p \in DOMAIN Tokens(document, field)
  PROVE  Names(Lexicon(sources), Encoded(Lexicon(sources), document).ids[field][p], document, field, p)
<1> DEFINE id == Encoded(Lexicon(sources), document).ids[field][p]
<1> DEFINE key == <<field, Tokens(document, field)[p]>>
<1>1. key \in KeysOfAll(sources)
  BY TokenIsKey DEF KeysOfAll
<1>2. Lexicon(sources) \in Seq(KeysOfAll(sources)) /\ ToSet(Lexicon(sources)) = KeysOfAll(sources)
  BY LexiconIsSorted DEF IsLexicon
<1>3. id = IdOf(Lexicon(sources), key)
  BY DEF Encoded
<1> HIDE DEF key, id
<1>4. id \in Nat /\ id + 1 \in DOMAIN Lexicon(sources) /\ Lexicon(sources)[id + 1] = key
  BY <1>1, <1>2, <1>3, IdIs
<1> QED BY <1>4 DEF key, id, Names

LEMMA EncodedIsTyped ==
  ASSUME NEW sources \in Sources, NEW document \in ToSet(sources)
  PROVE  Encoded(Lexicon(sources), document) \in ForwardEntries
<1> DEFINE E == Encoded(Lexicon(sources), document)
           F == DOMAIN document.fields
<1>1. document \in SourceDocuments /\ document \in Documents
  <2>1. document \in SourceDocuments
    BY DEF SourceDocuments
  <2>2. sources \in Seq(Documents)
    BY SourcesAre
  <2> QED BY <2>1, <2>2 DEF ToSet
<1>2. /\ E = [document |-> document, ids |-> E.ids] /\ DOMAIN E.ids = F
      /\ E.ids = [field \in F |-> E.ids[field]]
      /\ \A field \in F : DOMAIN E.ids[field] = DOMAIN Tokens(document, field)
      /\ \A field \in F : E.ids[field] = [p \in DOMAIN Tokens(document, field) |-> E.ids[field][p]]
  BY DEF Encoded
<1>3. \A field \in F : \A p \in DOMAIN Tokens(document, field) : E.ids[field][p] \in Nat
  BY EncodedIs DEF Names
<1>4. \A field \in F : DOMAIN Tokens(document, field) = 1 .. Len(Tokens(document, field))
                       /\ Len(Tokens(document, field)) \in Nat
  BY <1>1, DocumentTokens
<1> HIDE DEF E
<1>5. ASSUME NEW field \in F PROVE E.ids[field] \in Seq(Nat)
  <2>1. PICK n \in Nat : DOMAIN Tokens(document, field) = 1 .. n
    BY <1>4
  <2>2. E.ids[field] = [p \in 1 .. n |-> E.ids[field][p]] /\ \A p \in 1 .. n : E.ids[field][p] \in Nat
    BY <1>2, <1>3, <2>1
  <2> QED BY <2>2
<1>6. E.ids \in [F -> Seq(Nat)]
  BY <1>2, <1>5
<1>7. E.ids \in UNION {[DOMAIN d.fields -> Seq(Nat)] : d \in SourceDocuments}
  BY <1>1, <1>6
<1> QED BY <1>1, <1>2, <1>7 DEF ForwardEntries, E

\* A forward index over documents without repeated identifiers is valid.
LEMMA BuiltIsValid ==
  ASSUME AllNormalized, NEW sources \in Sources,
         terms' = Lexicon(sources),
         entries' = [i \in DOMAIN sources |-> Encoded(Lexicon(sources), sources[i])],
         \A i, j \in DOMAIN sources : sources[i].id = sources[j].id => i = j
  PROVE  ForwardValid'
<1> DEFINE K == KeysOfAll(sources)
<1>1. /\ terms' \in Seq(K) /\ ToSet(terms') = K
      /\ \A i, j \in DOMAIN terms' : i < j => KeyBefore(terms'[i], terms'[j])
      /\ \A i, j \in DOMAIN terms' : terms'[i] = terms'[j] => i = j
  BY LexiconIsSorted DEF IsLexicon
<1>2. /\ sources \in Seq(Documents)
      /\ \A i \in DOMAIN sources : sources[i] \in Documents /\ sources[i] \in ToSet(sources)
  <2>1. sources \in Seq(Documents)
    BY SourcesAre
  <2> QED BY <2>1 DEF ToSet
<1>3. /\ DOMAIN entries' = DOMAIN sources
      /\ \A i \in DOMAIN sources :
           /\ entries'[i].document = sources[i]
           /\ entries'[i].ids = Encoded(Lexicon(sources), sources[i]).ids
           /\ DOMAIN entries'[i].ids = DOMAIN sources[i].fields
           /\ \A field \in DOMAIN sources[i].fields :
                DOMAIN entries'[i].ids[field] = DOMAIN Tokens(sources[i], field)
  BY DEF Encoded
<1>4. ValidLexicon'
  <2>1. ASSUME NEW i \in 1 .. Len(terms') - 1 PROVE KeyBefore(terms'[i], terms'[i + 1])
    <3>1. i \in DOMAIN terms' /\ i + 1 \in DOMAIN terms' /\ i < i + 1
      BY <1>1
    <3> QED BY <1>1, <3>1
  <2>2. ASSUME NEW i \in DOMAIN terms' PROVE IsNormalized(terms'[i][2])
    <3>1. terms'[i] \in K
      BY <1>1 DEF ToSet
    <3>2. PICK document \in ToSet(sources) : terms'[i] \in AllKeys(document)
      BY <3>1 DEF KeysOfAll
    <3>3. document \in Documents
      BY <1>2 DEF ToSet
    <3> QED BY <3>2, <3>3 DEF AllNormalized
  <2> QED BY <2>1, <2>2 DEF ValidLexicon
<1>5. ASSUME NEW i \in DOMAIN sources, NEW field \in DOMAIN sources[i].fields,
             NEW p \in DOMAIN Tokens(sources[i], field)
      PROVE  /\ entries'[i].ids[field][p] \in Nat
             /\ entries'[i].ids[field][p] + 1 \in DOMAIN terms'
             /\ terms'[entries'[i].ids[field][p] + 1] = <<field, Tokens(sources[i], field)[p]>>
  <2>1. sources[i] \in ToSet(sources)
    BY <1>2
  <2>2. Names(Lexicon(sources), Encoded(Lexicon(sources), sources[i]).ids[field][p], sources[i], field, p)
    BY <2>1, EncodedIs
  <2> QED BY <1>3, <2>2 DEF Names
<1>6. ASSUME NEW i \in DOMAIN sources, NEW field \in DOMAIN sources[i].fields
      PROVE  Spells(entries[i], field)'
  <2>1. DOMAIN Tokens(sources[i], field) = 1 .. Len(Tokens(sources[i], field))
        /\ Len(Tokens(sources[i], field)) \in Nat
    BY <1>2, DocumentTokens
  <2>2. Encoded(Lexicon(sources), sources[i]) \in ForwardEntries
    BY <1>2, EncodedIsTyped
  <2>3. entries'[i].ids[field] \in Seq(Nat)
    <3>1. PICK d \in SourceDocuments : Encoded(Lexicon(sources), sources[i]).ids \in [DOMAIN d.fields -> Seq(Nat)]
      BY <2>2 DEF ForwardEntries
    <3> QED BY <1>3, <3>1
  <2>4. Len(entries'[i].ids[field]) = Len(Tokens(sources[i], field))
    BY <1>3, <2>1, <2>3
  <2>5. \A p \in DOMAIN entries'[i].ids[field] :
          /\ entries'[i].ids[field][p] + 1 \in DOMAIN terms'
          /\ terms'[entries'[i].ids[field][p] + 1] = <<field, Tokens(sources[i], field)[p]>>
    BY <1>3, <1>5
  <2> QED BY <1>3, <2>4, <2>5 DEF Spells
<1>7. ASSUME NEW id \in DOMAIN terms'
      PROVE  \E entry \in ToSet(entries') : \E field \in DOMAIN entry.ids : id - 1 \in ToSet(entry.ids[field])
  <2>1. terms'[id] \in K
    BY <1>1 DEF ToSet
  <2>2. PICK i \in DOMAIN sources : terms'[id] \in AllKeys(sources[i])
    BY <2>1 DEF KeysOfAll, ToSet
  <2>3. /\ terms'[id][1] \in DOMAIN sources[i].fields
        /\ terms'[id] = <<terms'[id][1], terms'[id][2]>>
        /\ \E p \in DOMAIN Tokens(sources[i], terms'[id][1]) :
             Tokens(sources[i], terms'[id][1])[p] = terms'[id][2]
    <3>1. sources[i] \in Documents
      BY <1>2
    <3> QED BY <2>2, <3>1, KeyIsHeld
  <2>4. PICK field : field = terms'[id][1]
    OBVIOUS
  <2>5. PICK p \in DOMAIN Tokens(sources[i], field) : terms'[id] = <<field, Tokens(sources[i], field)[p]>>
    BY <2>3, <2>4
  <2>6. entries'[i].ids[field][p] + 1 = id /\ entries'[i].ids[field][p] \in Nat
    <3>1. /\ entries'[i].ids[field][p] \in Nat
          /\ entries'[i].ids[field][p] + 1 \in DOMAIN terms'
          /\ terms'[entries'[i].ids[field][p] + 1] = terms'[id]
      BY <1>5, <2>3, <2>4, <2>5
    <3> QED BY <1>1, <3>1
  <2>7. id - 1 \in ToSet(entries'[i].ids[field])
    <3>1. p \in DOMAIN entries'[i].ids[field]
      BY <1>3, <2>3, <2>4
    <3>2. entries'[i].ids[field][p] = id - 1
      BY <2>6
    <3> QED BY <3>1, <3>2 DEF ToSet
  <2>8. entries'[i] \in ToSet(entries') /\ field \in DOMAIN entries'[i].ids
    BY <1>3, <2>3, <2>4 DEF ToSet
  <2> QED BY <2>7, <2>8
<1> QED BY <1>3, <1>4, <1>6, <1>7 DEF ForwardValid

-----------------------------------------------------------------------------
\* The forward index keeps its types, whatever is changed in what is stored.

LEMMA EntryTypes ==
  ASSUME NEW entry \in ForwardEntries
  PROVE  /\ entry = [document |-> entry.document, ids |-> entry.ids]
         /\ entry.document \in SourceDocuments
         /\ entry.document \in Documents
         /\ \E d \in SourceDocuments : entry.ids \in [DOMAIN d.fields -> Seq(Nat)]
         /\ \A field \in DOMAIN entry.ids : entry.ids[field] \in Seq(Nat)
<1>1. PICK d \in SourceDocuments : entry.ids \in [DOMAIN d.fields -> Seq(Nat)]
  BY DEF ForwardEntries
<1>2. \A field \in DOMAIN entry.ids : entry.ids[field] \in Seq(Nat)
  BY <1>1
<1>3. entry = [document |-> entry.document, ids |-> entry.ids] /\ entry.document \in SourceDocuments
  BY DEF ForwardEntries
<1>4. entry.document \in Documents
  <2>1. PICK sources \in Sources : entry.document \in ToSet(sources)
    BY <1>3 DEF SourceDocuments
  <2>2. sources \in Seq(Documents)
    BY SourcesAre
  <2> QED BY <2>1, <2>2 DEF ToSet
<1> QED BY <1>1, <1>2, <1>3, <1>4

LEMMA RemoveKeepsType ==
  ASSUME NEW T, NEW seq \in Seq(T), NEW i \in DOMAIN seq
  PROVE  RemoveAt(seq, i) \in Seq(T)
<1>1. SubSeq(seq, 1, i - 1) \in Seq(T)
  OBVIOUS
<1>2. SubSeq(seq, i + 1, Len(seq)) \in Seq(T)
  OBVIOUS
<1> QED BY <1>1, <1>2 DEF RemoveAt

LEMMA EditedKeepsType ==
  ASSUME NEW T, NEW seq \in Seq(T), NEW i \in DOMAIN seq, NEW e \in T
  PROVE  [seq EXCEPT ![i] = e] \in Seq(T)
OBVIOUS

LEMMA EntryEdited ==
  ASSUME NEW entry \in ForwardEntries, NEW field \in DOMAIN entry.ids, NEW ids \in Seq(Nat)
  PROVE  [entry EXCEPT !.ids[field] = ids] \in ForwardEntries
<1> DEFINE e == [entry EXCEPT !.ids[field] = ids]
<1>1. PICK d \in SourceDocuments : entry.ids \in [DOMAIN d.fields -> Seq(Nat)]
  BY EntryTypes
<1> DEFINE r == [entry.ids EXCEPT ![field] = ids]
<1>2. r \in [DOMAIN d.fields -> Seq(Nat)]
  BY <1>1
<1>3. e = [entry EXCEPT !.ids = r]
  OBVIOUS
<1> HIDE DEF e, r
<1>4. r \in UNION {[DOMAIN document.fields -> Seq(Nat)] : document \in SourceDocuments}
  BY <1>2
<1>5. e \in ForwardEntries
  BY <1>3, <1>4 DEF ForwardEntries
<1> QED BY <1>5 DEF e

LEMMA EditForwardKeepsType ==
  ASSUME ForwardType, EditLexicon \/ EditEntries, UNCHANGED source, forwardEdits' = forwardEdits + 1
  PROVE  ForwardType'
<1>0. terms \in Seq(TermKeys) /\ entries \in Seq(ForwardEntries)
  BY DEF ForwardType
<1>1. CASE EditLexicon
  <2>1. terms' \in Seq(TermKeys)
    <3>1. ASSUME NEW i \in DOMAIN terms, terms' = RemoveAt(terms, i) PROVE terms' \in Seq(TermKeys)
      BY <1>0, <3>1, RemoveKeepsType
    <3>2. ASSUME NEW i \in DOMAIN terms, NEW document \in Documents, NEW key \in AllKeys(document),
                 terms' = [terms EXCEPT ![i] = key] \/ terms' = Append(terms, key)
          PROVE  terms' \in Seq(TermKeys)
      <4>1. key \in TermKeys
        BY DEF TermKeys
      <4> QED BY <1>0, <3>2, <4>1
    <3> QED BY <1>1, <3>1, <3>2 DEF EditLexicon
  <2> QED BY <1>1, <2>1 DEF EditLexicon, ForwardType
<1>2. CASE EditEntries
  <2>1. ASSUME NEW i \in DOMAIN entries, NEW j \in DOMAIN entries,
               entries' = [entries EXCEPT ![i].document = entries[j].document]
        PROVE  entries' \in Seq(ForwardEntries)
    <3>1. entries[i] \in ForwardEntries /\ entries[j] \in ForwardEntries
      BY <1>0
    <3>2. [entries[i] EXCEPT !.document = entries[j].document] \in ForwardEntries
      BY <3>1 DEF ForwardEntries
    <3>3. entries' = [entries EXCEPT ![i] = [entries[i] EXCEPT !.document = entries[j].document]]
      BY <1>0, <2>1
    <3> QED BY <1>0, <3>2, <3>3, EditedKeepsType
  <2>2. ASSUME NEW i \in DOMAIN entries, entries' = RemoveAt(entries, i) PROVE entries' \in Seq(ForwardEntries)
    BY <1>0, <2>2, RemoveKeepsType
  <2>3. ASSUME NEW i \in DOMAIN entries, NEW field \in DOMAIN entries[i].ids, NEW ids \in Seq(Nat),
               entries' = [entries EXCEPT ![i].ids[field] = ids]
        PROVE  entries' \in Seq(ForwardEntries)
    <3>1. entries[i] \in ForwardEntries
      BY <1>0
    <3>2. [entries[i] EXCEPT !.ids[field] = ids] \in ForwardEntries
      BY <3>1, EntryEdited
    <3>3. entries' = [entries EXCEPT ![i] = [entries[i] EXCEPT !.ids[field] = ids]]
      BY <1>0, <2>3
    <3> QED BY <1>0, <3>2, <3>3, EditedKeepsType
  <2>4. ASSUME NEW i \in DOMAIN entries, NEW field \in DOMAIN entries[i].ids,
               entries' = [entries EXCEPT ![i].ids[field] = Append(@, 0)]
        PROVE  entries' \in Seq(ForwardEntries)
    <3>1. entries[i].ids[field] \in Seq(Nat)
      BY <1>0, EntryTypes
    <3> DEFINE ids == Append(entries[i].ids[field], 0)
    <3>2. ids \in Seq(Nat)
      BY <3>1
    <3>3. entries' = [entries EXCEPT ![i].ids[field] = ids]
      BY <1>0, <2>4
    <3> HIDE DEF ids
    <3> QED BY <2>3, <3>2, <3>3
  <2>5. ASSUME NEW i \in DOMAIN entries, NEW field \in DOMAIN entries[i].ids,
               NEW p \in DOMAIN entries[i].ids[field], NEW id \in 0 .. Len(terms),
               entries' = [entries EXCEPT ![i].ids[field][p] = id]
        PROVE  entries' \in Seq(ForwardEntries)
    <3>1. entries[i].ids[field] \in Seq(Nat)
      BY <1>0, EntryTypes
    <3>2. id \in Nat
      BY <1>0
    <3> DEFINE list == entries[i].ids[field]
               ids  == [list EXCEPT ![p] = id]
    <3>3. ids \in Seq(Nat)
      <4> HIDE DEF list
      <4> QED BY <3>1, <3>2 DEF list
    <3>4. entries' = [entries EXCEPT ![i].ids[field] = ids]
      BY <1>0, <2>5
    <3> HIDE DEF ids
    <3> QED BY <2>3, <3>3, <3>4
  <2>6. entries' \in Seq(ForwardEntries)
    BY <1>2, <2>1, <2>2, <2>4, <2>5 DEF EditEntries
  <2> QED BY <1>2, <2>6 DEF EditEntries, ForwardType
<1> QED BY <1>1, <1>2

-----------------------------------------------------------------------------
\* A valid forward index.

\* Neighbours in the lexicon ascend, so all terms do, and none is there twice.
LEMMA LexiconIsTotal ==
  ASSUME terms \in Seq(TermKeys), ValidLexicon
  PROVE  \A i, j \in DOMAIN terms : terms[i] = terms[j] => i = j
<1>1. ASSUME NEW i \in DOMAIN terms, NEW j \in DOMAIN terms, i < j PROVE KeyBefore(terms[i], terms[j])
  <2> DEFINE S == i .. j
             Bad == {T \in SUBSET S : \E k \in S : k /= i /\ T = i .. k /\ ~ KeyBefore(terms[i], terms[k])}
  <2>1. i \in Nat /\ j \in Nat /\ \A k \in S : k \in Nat /\ k \in DOMAIN terms /\ terms[k] \in TermKeys
    OBVIOUS
  <2>2. ASSUME NEW T \in Bad PROVE \E U \in Bad : U \subseteq T /\ U /= T
    <3>1. PICK k \in S : k /= i /\ T = i .. k /\ ~ KeyBefore(terms[i], terms[k])
      OBVIOUS
    <3>2. k - 1 \in S /\ k - 1 \in 1 .. Len(terms) - 1 /\ (k - 1) + 1 = k
      BY <2>1, <3>1
    <3>3. KeyBefore(terms[k - 1], terms[k])
      BY <3>2 DEF ValidLexicon
    <3>4. k - 1 /= i
      BY <3>1, <3>3
    <3>5. terms[i] \in TermKeys /\ terms[k - 1] \in TermKeys /\ terms[k] \in TermKeys
      BY <2>1, <3>2
    <3>6. ~ KeyBefore(terms[i], terms[k - 1])
      BY <3>1, <3>3, <3>5, KeysAssumption
    <3>7. i .. (k - 1) \subseteq T /\ i .. (k - 1) /= T /\ i .. (k - 1) \in SUBSET S
      BY <2>1, <3>1, <3>2
    <3>8. i .. (k - 1) \in Bad
      BY <3>2, <3>4, <3>6, <3>7
    <3> QED BY <3>7, <3>8
  <2>3. IsFiniteSet(S)
    BY <2>1, FS_Interval
  <2>4. Bad = {}
    <3>1. Bad \in SUBSET (SUBSET S)
      OBVIOUS
    <3> HIDE DEF Bad, S
    <3> QED BY <2>2, <2>3, <3>1, NoLeast
  <2>5. j \in S /\ i .. j \in SUBSET S /\ j /= i
    BY <1>1, <2>1
  <2> QED BY <2>4, <2>5
<1>2. \A k \in TermKeys : ~ KeyBefore(k, k)
  BY KeysAssumption
<1>3. ASSUME NEW i \in DOMAIN terms, NEW j \in DOMAIN terms, terms[i] = terms[j] PROVE i = j
  <2>1. terms[i] \in TermKeys
    OBVIOUS
  <2>2. ~ (i < j) /\ ~ (j < i)
    BY <1>1, <1>2, <1>3, <2>1
  <2> QED BY <2>2
<1> QED BY <1>3

\* The IDs of a field are those of its tokens.
LEMMA SpelledIs ==
  ASSUME ForwardType, ForwardValid, NEW i \in DOMAIN entries,
         NEW field \in DOMAIN entries[i].document.fields
  PROVE  /\ field \in DOMAIN entries[i].ids
         /\ entries[i].ids[field] \in Seq(Nat)
         /\ Len(entries[i].ids[field]) = Len(Tokens(entries[i].document, field))
         /\ DOMAIN entries[i].ids[field] = DOMAIN Tokens(entries[i].document, field)
         /\ \A p \in DOMAIN entries[i].ids[field] :
              Names(terms, entries[i].ids[field][p], entries[i].document, field, p)
<1>1. entries[i] \in ForwardEntries
  BY DEF ForwardType
<1>2. field \in DOMAIN entries[i].ids /\ Spells(entries[i], field)
  BY DEF ForwardValid
<1>3. entries[i].ids[field] \in Seq(Nat) /\ entries[i].document \in Documents
  BY <1>1, <1>2, EntryTypes
<1> DEFINE ids == entries[i].ids[field]
           tokens == Tokens(entries[i].document, field)
<1>4. Len(ids) = Len(tokens)
  BY <1>2 DEF Spells
<1>5. Len(tokens) \in Nat /\ DOMAIN tokens = 1 .. Len(tokens)
  BY <1>3, DocumentTokens
<1>6. DOMAIN ids = DOMAIN tokens
  <2> HIDE DEF ids, tokens
  <2>1. ids \in Seq(Nat)
    BY <1>3 DEF ids
  <2> QED BY <1>4, <1>5, <2>1
<1>7. \A p \in DOMAIN ids : ids[p] + 1 \in DOMAIN terms /\ terms[ids[p] + 1] = <<field, tokens[p]>>
  BY <1>2 DEF Spells
<1>8. \A p \in DOMAIN ids : ids[p] \in Nat
  <2> HIDE DEF ids
  <2>1. ids \in Seq(Nat)
    BY <1>3 DEF ids
  <2> QED BY <2>1
<1>9. \A p \in DOMAIN ids : Names(terms, ids[p], entries[i].document, field, p)
  BY <1>7, <1>8 DEF Names
<1> QED BY <1>2, <1>3, <1>4, <1>6, <1>9

\* A field holds the ID of a key where its text holds the key.
LEMMA SpelledKey ==
  ASSUME ForwardType, ForwardValid, NEW i \in DOMAIN entries, NEW key \in ToSet(terms),
         key[1] \in DOMAIN entries[i].document.fields, NEW p \in DOMAIN entries[i].ids[key[1]]
  PROVE  /\ p \in DOMAIN Tokens(entries[i].document, key[1])
         /\ entries[i].ids[key[1]][p] = IdOf(terms, key)
              <=> Tokens(entries[i].document, key[1])[p] = key[2]
<1> DEFINE token == Tokens(entries[i].document, key[1])[p]
           id == entries[i].ids[key[1]][p]
<1>1. terms \in Seq(TermKeys) /\ ValidLexicon
  BY DEF ForwardType, ForwardValid
<1>2. IdOf(terms, key) \in Nat /\ IdOf(terms, key) + 1 \in DOMAIN terms /\ terms[IdOf(terms, key) + 1] = key
  BY <1>1, IdIs
<1>3. p \in DOMAIN Tokens(entries[i].document, key[1]) /\ Names(terms, id, entries[i].document, key[1], p)
  BY SpelledIs
<1>4. id \in Nat /\ id + 1 \in DOMAIN terms /\ terms[id + 1] = <<key[1], token>>
  BY <1>3 DEF Names
<1>5. key = <<key[1], key[2]>>
  <2>1. key \in TermKeys
    BY <1>1 DEF ToSet
  <2>2. PICK document \in Documents : key \in AllKeys(document)
    BY <2>1 DEF TermKeys
  <2> QED BY <2>2, KeyIsHeld
<1>6. \A m, n \in DOMAIN terms : terms[m] = terms[n] => m = n
  BY <1>1, LexiconIsTotal
<1> HIDE DEF id, token
<1>7. ASSUME id = IdOf(terms, key) PROVE token = key[2]
  <2>1. key = <<key[1], token>>
    BY <1>2, <1>4, <1>7
  <2> QED BY <2>1
<1>8. ASSUME token = key[2] PROVE id = IdOf(terms, key)
  <2>1. terms[id + 1] = terms[IdOf(terms, key) + 1]
    BY <1>2, <1>4, <1>5, <1>8
  <2>2. id + 1 = IdOf(terms, key) + 1
    BY <1>2, <1>4, <1>6, <2>1
  <2> QED BY <1>2, <1>4, <2>2
<1> QED BY <1>3, <1>7, <1>8 DEF id, token

\* Who holds an ID holds its key.
LEMMA HoldingIs ==
  ASSUME ForwardType, ForwardValid, NEW i \in DOMAIN entries, NEW key \in ToSet(terms)
  PROVE  (key[1] \in DOMAIN entries[i].ids /\ IdOf(terms, key) \in ToSet(entries[i].ids[key[1]]))
           <=> key \in AllKeys(entries[i].document)
<1>1. DOMAIN entries[i].ids = DOMAIN entries[i].document.fields
  BY DEF ForwardValid
<1>2. entries[i].document \in Documents
  BY EntryTypes DEF ForwardType
<1>3. key = <<key[1], key[2]>>
  <2>1. key \in TermKeys
    BY DEF ForwardType, ToSet
  <2>2. PICK document \in Documents : key \in AllKeys(document)
    BY <2>1 DEF TermKeys
  <2> QED BY <2>2, KeyIsHeld
<1>4. ASSUME key[1] \in DOMAIN entries[i].ids, IdOf(terms, key) \in ToSet(entries[i].ids[key[1]])
      PROVE  key \in AllKeys(entries[i].document)
  <2>1. PICK p \in DOMAIN entries[i].ids[key[1]] : entries[i].ids[key[1]][p] = IdOf(terms, key)
    BY <1>4 DEF ToSet
  <2>2. p \in DOMAIN Tokens(entries[i].document, key[1]) /\ Tokens(entries[i].document, key[1])[p] = key[2]
    BY <1>1, <1>4, <2>1, SpelledKey
  <2>3. <<key[1], Tokens(entries[i].document, key[1])[p]>> \in AllKeys(entries[i].document)
    BY <1>1, <1>4, <2>2, TokenIsKey
  <2> QED BY <1>3, <2>2, <2>3
<1>5. ASSUME key \in AllKeys(entries[i].document)
      PROVE  key[1] \in DOMAIN entries[i].ids /\ IdOf(terms, key) \in ToSet(entries[i].ids[key[1]])
  <2>1. /\ key[1] \in DOMAIN entries[i].document.fields
        /\ \E p \in DOMAIN Tokens(entries[i].document, key[1]) : Tokens(entries[i].document, key[1])[p] = key[2]
    BY <1>2, <1>5, KeyIsHeld
  <2>2. DOMAIN entries[i].ids[key[1]] = DOMAIN Tokens(entries[i].document, key[1])
    BY <2>1, SpelledIs
  <2>3. PICK p \in DOMAIN entries[i].ids[key[1]] : Tokens(entries[i].document, key[1])[p] = key[2]
    BY <2>1, <2>2
  <2>4. entries[i].ids[key[1]][p] = IdOf(terms, key)
    BY <2>1, <2>3, SpelledKey
  <2> QED BY <1>1, <2>1, <2>4 DEF ToSet
<1> QED BY <1>4, <1>5

\* The positions of an ID are those of its key.
LEMMA PositionsOfAre ==
  ASSUME ForwardType, ForwardValid, NEW i \in DOMAIN entries, NEW key \in ToSet(terms),
         key \in AllKeys(entries[i].document)
  PROVE  PositionsOf(entries[i].ids[key[1]], IdOf(terms, key))
           = Positions(entries[i].document, key[1], key[2])
<1> DEFINE document == entries[i].document
           ids == entries[i].ids[key[1]]
           id == IdOf(terms, key)
           A == {p - 1 : p \in {p \in DOMAIN ids : ids[p] = id}}
<1>1. document \in Documents
  BY EntryTypes DEF ForwardType
<1>2. key[1] \in DOMAIN document.fields
  BY <1>1, KeyIsHeld
<1>3. DOMAIN ids = DOMAIN Tokens(document, key[1])
  BY <1>2, SpelledIs
<1>4. \A p \in DOMAIN ids : ids[p] = id <=> Tokens(document, key[1])[p] = key[2]
  BY <1>2, SpelledKey
<1>5. PICK n \in Nat : n = Len(Tokens(document, key[1])) /\ DOMAIN Tokens(document, key[1]) = 1 .. n
  BY <1>1, <1>2, DocumentTokens
<1>6. A = PlacesIn(document, key)
  <2> DEFINE T == {p \in 1 .. n : Tokens(document, key[1])[p] = key[2]}
  <2>1. {p \in DOMAIN ids : ids[p] = id} = T
    BY <1>3, <1>4, <1>5
  <2>2. PlacesIn(document, key) = {p \in 0 .. n - 1 : Tokens(document, key[1])[p + 1] = key[2]}
    BY <1>5 DEF PlacesIn
  <2> HIDE DEF document, ids, id
  <2>3. {p - 1 : p \in T} = {p \in 0 .. n - 1 : Tokens(document, key[1])[p + 1] = key[2]}
    <3>1. ASSUME NEW p \in T PROVE p - 1 \in 0 .. n - 1 /\ (p - 1) + 1 = p
      BY <1>5
    <3>2. ASSUME NEW q \in 0 .. n - 1 PROVE q + 1 \in 1 .. n /\ (q + 1) - 1 = q
      BY <1>5
    <3> QED BY <3>1, <3>2
  <2> QED BY <2>1, <2>2, <2>3
<1> HIDE DEF A
<1>7. PositionsOf(ids, id) = Sorted(A, <)
  BY DEF PositionsOf, A
<1> QED BY <1>6, <1>7 DEF Positions, PlacesIn

-----------------------------------------------------------------------------
\* Inversion.

\* The list of a key has the documents that hold it.
HoldersOf(key) == {d \in 0 .. Len(entries) - 1 : key \in AllKeys(entries[d + 1].document)}

LEMMA InvertedIs ==
  ASSUME ForwardType, ForwardValid, NEW key \in ToSet(terms), NEW list, list = Inverted(IdOf(terms, key))
  PROVE  /\ DOMAIN list = 1 .. Len(list)
         /\ Len(list) \in Nat
         /\ list = [i \in DOMAIN list |-> list[i]]
         /\ \A i \in DOMAIN list :
              /\ list[i].doc \in HoldersOf(key)
              /\ list[i].positions = Positions(entries[list[i].doc + 1].document, key[1], key[2])
              /\ list[i] = [doc |-> list[i].doc, positions |-> list[i].positions]
         /\ \A i, j \in DOMAIN list : i < j => list[i].doc < list[j].doc
         /\ \A d \in HoldersOf(key) : \E i \in DOMAIN list : list[i].doc = d
<1> DEFINE id == IdOf(terms, key)
           field == terms[id + 1][1]
           holding(d) == field \in DOMAIN entries[d + 1].ids /\ id \in ToSet(entries[d + 1].ids[field])
           corpus == Sorted({d \in 0 .. Len(entries) - 1 : holding(d)}, <)
           S == HoldersOf(key)
<1>1. terms \in Seq(TermKeys) /\ entries \in Seq(ForwardEntries) /\ Len(entries) \in Nat
      /\ DOMAIN entries = 1 .. Len(entries)
  BY DEF ForwardType
<1>2. field = key[1]
  BY <1>1, IdIs
<1>3. list = [i \in DOMAIN corpus |->
                [doc |-> corpus[i], positions |-> PositionsOf(entries[corpus[i] + 1].ids[field], id)]]
  BY Zenon DEF Inverted
<1>4. \A d \in 0 .. Len(entries) - 1 : d + 1 \in DOMAIN entries
  BY <1>1
<1>5. \A d \in 0 .. Len(entries) - 1 : holding(d) <=> key \in AllKeys(entries[d + 1].document)
  BY <1>2, <1>4, HoldingIs
<1>6. {d \in 0 .. Len(entries) - 1 : holding(d)} = S
  BY <1>5 DEF HoldersOf
<1> HIDE DEF holding, field
<1>7. corpus = Sorted(S, <)
  BY <1>6
<1>8. S \in SUBSET Nat /\ IsFiniteSet(S)
  <2>1. IsFiniteSet(0 .. Len(entries) - 1)
    BY <1>1, FS_Interval
  <2>2. S \in SUBSET (0 .. Len(entries) - 1)
    BY DEF HoldersOf
  <2>3. 0 .. Len(entries) - 1 \in SUBSET Nat
    BY <1>1
  <2> HIDE DEF S
  <2>4. IsFiniteSet(S)
    BY <2>1, <2>2, FS_Subset
  <2> QED BY <2>2, <2>3, <2>4
<1> HIDE DEF corpus, S
<1>9. Ascends(corpus, S)
  BY <1>7, <1>8, SortedAscends
<1>10. PICK n \in Nat : n = Len(corpus) /\ DOMAIN corpus = 1 .. n
  BY <1>9 DEF Ascends
<1>11. /\ DOMAIN list = 1 .. n
       /\ \A i \in 1 .. n : /\ list[i].doc = corpus[i]
                            /\ list[i].positions = PositionsOf(entries[corpus[i] + 1].ids[field], id)
                            /\ list[i] = [doc |-> list[i].doc, positions |-> list[i].positions]
  BY <1>3, <1>10
<1>12. Len(list) = n /\ list = [i \in DOMAIN list |-> list[i]]
  BY <1>3, <1>10
<1>13. \A i \in 1 .. n : corpus[i] \in S
  BY <1>9, <1>10 DEF Ascends
<1>14. ASSUME NEW i \in 1 .. n
       PROVE  list[i].positions = Positions(entries[list[i].doc + 1].document, key[1], key[2])
  <2>1. PICK d : d = corpus[i]
    OBVIOUS
  <2>2. d + 1 \in DOMAIN entries /\ key \in AllKeys(entries[d + 1].document)
    BY <1>4, <1>13, <2>1 DEF S, HoldersOf
  <2>3. PositionsOf(entries[d + 1].ids[key[1]], id) = Positions(entries[d + 1].document, key[1], key[2])
    BY <2>2, PositionsOfAre
  <2> QED BY <1>2, <1>11, <2>1, <2>3
<1>15. \A i, j \in 1 .. n : i < j => list[i].doc < list[j].doc
  BY <1>9, <1>10, <1>11 DEF Ascends
<1>16. \A d \in S : \E i \in 1 .. n : list[i].doc = d
  BY <1>9, <1>10, <1>11 DEF Ascends, ToSet
<1> QED BY <1>11, <1>12, <1>13, <1>14, <1>15, <1>16 DEF S

\* The index that Invert makes has the lists of its documents.
Made ==
  /\ documents' = [i \in DOMAIN entries |-> entries[i].document]
  /\ fieldLengths' = [i \in DOMAIN entries |->
                        [field \in DOMAIN entries[i].ids |-> Len(entries[i].ids[field])]]
  /\ postings' = [key \in ToSet(terms) |-> Inverted(IdOf(terms, key))]

LEMMA MadeDocuments ==
  ASSUME ForwardType, Made
  PROVE  /\ documents' \in Seq(Documents)
         /\ DOMAIN documents' = DOMAIN entries
         /\ DOMAIN entries = 1 .. Len(entries) /\ Len(entries) \in Nat
         /\ \A i \in DOMAIN entries : documents'[i] = entries[i].document /\ documents'[i] \in Documents
<1>1. PICK n \in Nat : n = Len(entries) /\ DOMAIN entries = 1 .. n
  BY DEF ForwardType
<1>2. \A i \in 1 .. n : entries[i].document \in Documents
  BY <1>1, EntryTypes DEF ForwardType
<1>3. documents' = [i \in 1 .. n |-> entries[i].document]
  BY <1>1 DEF Made
<1> QED BY <1>1, <1>2, <1>3

\* The lexicon has the keys of the documents.
LEMMA LexiconIsUsed ==
  ASSUME ForwardType, ForwardValid
  PROVE  ToSet(terms) = UNION {AllKeys(entries[i].document) : i \in DOMAIN entries}
<1>1. ASSUME NEW i \in DOMAIN entries, NEW key \in AllKeys(entries[i].document) PROVE key \in ToSet(terms)
  <2>1. entries[i].document \in Documents
    BY EntryTypes DEF ForwardType
  <2>2. PICK field \in DOMAIN entries[i].document.fields : field = key[1]
    BY <2>1, KeyIsHeld
  <2>3. PICK p \in DOMAIN Tokens(entries[i].document, field) : key = <<field, Tokens(entries[i].document, field)[p]>>
    BY <2>1, <2>2, KeyIsHeld
  <2>4. Names(terms, entries[i].ids[field][p], entries[i].document, field, p)
    BY SpelledIs
  <2> QED BY <2>3, <2>4 DEF Names, ToSet
<1>2. ASSUME NEW key \in ToSet(terms) PROVE \E i \in DOMAIN entries : key \in AllKeys(entries[i].document)
  <2>1. PICK id \in DOMAIN terms : terms[id] = key
    BY DEF ToSet
  <2>2. PICK i \in DOMAIN entries : \E field \in DOMAIN entries[i].ids : id - 1 \in ToSet(entries[i].ids[field])
    BY DEF ForwardValid, ToSet
  <2>3. PICK field \in DOMAIN entries[i].ids : id - 1 \in ToSet(entries[i].ids[field])
    BY <2>2
  <2>4. PICK p \in DOMAIN entries[i].ids[field] : entries[i].ids[field][p] = id - 1
    BY <2>3 DEF ToSet
  <2>5. field \in DOMAIN entries[i].document.fields
    BY DEF ForwardValid
  <2>6. /\ Names(terms, entries[i].ids[field][p], entries[i].document, field, p)
        /\ p \in DOMAIN Tokens(entries[i].document, field)
    BY <2>5, SpelledIs
  <2>7. id \in Nat
    BY DEF ForwardType
  <2>8. key = <<field, Tokens(entries[i].document, field)[p]>>
    BY <2>1, <2>4, <2>6, <2>7 DEF Names
  <2> QED BY <2>5, <2>6, <2>8, TokenIsKey
<1> QED BY <1>1, <1>2

LEMMA MadeLists ==
  ASSUME ForwardType, ForwardValid, Made
  PROVE  PartsType' /\ PostingsAre'
<1>1. /\ documents' \in Seq(Documents)
      /\ DOMAIN documents' = DOMAIN entries
      /\ DOMAIN entries = 1 .. Len(entries) /\ Len(entries) \in Nat
      /\ \A i \in DOMAIN entries : documents'[i] = entries[i].document /\ documents'[i] \in Documents
  BY MadeDocuments
<1>2. DOMAIN postings' = ToSet(terms) /\ \A key \in ToSet(terms) : postings'[key] = Inverted(IdOf(terms, key))
  BY DEF Made
<1>3. DOMAIN postings' = UNION {AllKeys(documents'[d]) : d \in DOMAIN documents'}
  BY <1>1, <1>2, LexiconIsUsed
<1>4. IsFiniteSet(DOMAIN postings')
  <2> DEFINE F == [d \in DOMAIN documents' |-> AllKeys(documents'[d])]
  <2>1. IsFiniteSet(DOMAIN documents')
    <3>1. IsFiniteSet(1 .. Len(entries))
      BY <1>1, FS_Interval
    <3> QED BY <1>1, <3>1
  <2>2. ASSUME NEW d \in DOMAIN documents' PROVE IsFiniteSet(F[d])
    <3>1. IsFiniteSet(AllKeys(documents'[d]))
      BY <1>1, KeysAreFinite
    <3> QED BY <3>1
  <2>3. Together(F, DOMAIN documents') = DOMAIN postings'
    BY <1>3 DEF Together
  <2> HIDE DEF F
  <2>4. \A d \in DOMAIN documents' : IsFiniteSet(F[d])
    BY <2>2
  <2> QED BY <2>1, <2>3, <2>4, FiniteTogether
<1>5. ASSUME NEW key \in DOMAIN postings'
      PROVE  postings'[key] \in Seq(Postings) /\ Lists(documents', postings'[key], key)
  <2>1. PICK list : list = postings'[key]
    OBVIOUS
  <2>2. PICK H : H = HoldersOf(key)
    OBVIOUS
  <2>3. /\ DOMAIN list = 1 .. Len(list)
        /\ Len(list) \in Nat
        /\ list = [i \in DOMAIN list |-> list[i]]
        /\ \A i \in DOMAIN list :
             /\ list[i].doc \in H
             /\ list[i].positions = Positions(entries[list[i].doc + 1].document, key[1], key[2])
             /\ list[i] = [doc |-> list[i].doc, positions |-> list[i].positions]
        /\ \A i, j \in DOMAIN list : i < j => list[i].doc < list[j].doc
        /\ \A d \in H : \E i \in DOMAIN list : list[i].doc = d
    BY <1>2, <2>1, <2>2, InvertedIs
  <2>4. ASSUME NEW d \in H
        PROVE  d \in Nat /\ d + 1 \in DOMAIN documents' /\ key \in AllKeys(documents'[d + 1])
               /\ documents'[d + 1] = entries[d + 1].document
    BY <1>1, <2>2 DEF HoldersOf
  <2>5. ASSUME NEW d \in DOMAIN documents', key \in AllKeys(documents'[d]) PROVE d - 1 \in H
    <3>1. d - 1 \in 0 .. Len(entries) - 1 /\ (d - 1) + 1 = d
      BY <1>1
    <3> QED BY <1>1, <2>2, <2>5, <3>1 DEF HoldersOf
  <2>6. ASSUME NEW i \in DOMAIN list PROVE list[i] \in Postings
    <3>1. list[i].doc \in Nat /\ list[i].positions = Positions(documents'[list[i].doc + 1], key[1], key[2])
      BY <2>3, <2>4
    <3>2. list[i].positions \in Seq(Nat)
      <4>1. documents'[list[i].doc + 1] \in Documents /\ key \in AllKeys(documents'[list[i].doc + 1])
        BY <1>1, <2>3, <2>4
      <4> QED BY <3>1, <4>1, PositionsAre
    <3>3. list[i] = [doc |-> list[i].doc, positions |-> list[i].positions]
      BY <2>3
    <3> QED BY <3>1, <3>2, <3>3 DEF Postings
  <2>7. list \in Seq(Postings)
    <3>1. PICK n \in Nat : n = Len(list) /\ list = [i \in 1 .. n |-> list[i]]
      BY <2>3
    <3>2. \A i \in 1 .. n : list[i] \in Postings
      BY <2>3, <2>6, <3>1
    <3>3. list \in [1 .. n -> Postings]
      BY <3>1, <3>2
    <3> QED BY <3>3
  <2>8. Lists(documents', list, key)
    <3>1. \A i \in DOMAIN list :
            /\ list[i].doc + 1 \in DOMAIN documents'
            /\ key \in AllKeys(documents'[list[i].doc + 1])
            /\ list[i].positions = Positions(documents'[list[i].doc + 1], key[1], key[2])
      BY <2>3, <2>4
    <3>2. \A d \in DOMAIN documents' :
            key \in AllKeys(documents'[d]) => \E i \in DOMAIN list : list[i].doc = d - 1
      BY <2>3, <2>5
    <3> QED BY <2>3, <3>1, <3>2 DEF Lists
  <2> QED BY <2>1, <2>7, <2>8
<1>6. \A key \in DOMAIN postings' : postings'[key] \in Seq(Postings) /\ Lists(documents', postings'[key], key)
  BY <1>5
<1> QED BY <1>1, <1>3, <1>4, <1>6 DEF PartsType, PostingsAre

LEMMA MadeIsValid ==
  ASSUME ForwardType, ForwardValid, Made
  PROVE  LengthsAre' /\ DistinctIds' /\ Normalized'
<1>1. /\ DOMAIN documents' = DOMAIN entries
      /\ \A i \in DOMAIN entries : documents'[i] = entries[i].document
  BY MadeDocuments
<1>2. LengthsAre'
  <2>1. ASSUME NEW i \in DOMAIN entries
        PROVE  [field \in DOMAIN entries[i].ids |-> Len(entries[i].ids[field])]
                 = Lengths(documents'[i], DOMAIN documents'[i].fields)
    <3>1. DOMAIN entries[i].ids = DOMAIN entries[i].document.fields
      BY DEF ForwardValid
    <3>2. \A field \in DOMAIN entries[i].document.fields :
            Len(entries[i].ids[field]) = Len(Tokens(entries[i].document, field))
      BY SpelledIs
    <3> QED BY <1>1, <3>1, <3>2 DEF Lengths
  <2> QED BY <1>1, <2>1 DEF LengthsAre, Made
<1>3. DistinctIds'
  BY <1>1 DEF DistinctIds, ForwardValid
<1>4. Normalized'
  <2>1. ASSUME NEW i \in DOMAIN entries, NEW key \in AllKeys(entries[i].document) PROVE IsNormalized(key[2])
    <3>1. key \in ToSet(terms)
      BY LexiconIsUsed
    <3> QED BY <3>1 DEF ForwardValid, ValidLexicon, ToSet
  <2> QED BY <1>1, <2>1 DEF Normalized
<1> QED BY <1>2, <1>3, <1>4

-----------------------------------------------------------------------------
\* The steps of the forward index.

LEMMA ForwardStays ==
  ASSUME UNCHANGED <<terms, entries>>
  PROVE  ForwardValid' <=> ForwardValid
<1>1. ValidLexicon' <=> ValidLexicon
  BY DEF ValidLexicon
<1>2. \A i \in DOMAIN entries : \A field \in DOMAIN entries[i].ids :
        Spells(entries[i], field)' <=> Spells(entries[i], field)
  BY DEF Spells
<1> QED BY <1>1, <1>2 DEF ForwardValid

\* An order of the entries.
LEMMA OrderIs ==
  ASSUME NEW newToOld \in Bijection(DOMAIN entries, DOMAIN entries), entries' = Moved(newToOld)
  PROVE  /\ DOMAIN entries' = DOMAIN entries
         /\ \A i \in DOMAIN entries : newToOld[i] \in DOMAIN entries /\ entries'[i] = entries[newToOld[i]]
         /\ \A i, j \in DOMAIN entries : newToOld[i] = newToOld[j] => i = j
         /\ \A j \in DOMAIN entries : \E i \in DOMAIN entries : newToOld[i] = j
         /\ ToSet(entries') = ToSet(entries)
<1>1. /\ \A i \in DOMAIN entries : newToOld[i] \in DOMAIN entries
      /\ \A i, j \in DOMAIN entries : newToOld[i] = newToOld[j] => i = j
      /\ \A j \in DOMAIN entries : \E i \in DOMAIN entries : newToOld[i] = j
  BY DEF Bijection, Injection, IsInjective, Surjection
<1>2. DOMAIN entries' = DOMAIN entries /\ \A i \in DOMAIN entries : entries'[i] = entries[newToOld[i]]
  BY DEF Moved
<1>3. ToSet(entries') = ToSet(entries)
  <2>1. ASSUME NEW i \in DOMAIN entries' PROVE \E j \in DOMAIN entries : entries'[i] = entries[j]
    BY <1>1, <1>2
  <2>2. ASSUME NEW j \in DOMAIN entries PROVE \E i \in DOMAIN entries' : entries'[i] = entries[j]
    <3>1. PICK i \in DOMAIN entries : newToOld[i] = j
      BY <1>1
    <3> QED BY <1>2, <3>1
  <2> QED BY <2>1, <2>2 DEF ToSet
<1> QED BY <1>1, <1>2, <1>3

LEMMA ReorderKeepsValid ==
  ASSUME ForwardType, ForwardValid, NEW newToOld \in Bijection(DOMAIN entries, DOMAIN entries),
         Reorder(newToOld)
  PROVE  ForwardType' /\ ForwardValid'
<1>1. /\ DOMAIN entries' = DOMAIN entries
      /\ \A i \in DOMAIN entries : newToOld[i] \in DOMAIN entries /\ entries'[i] = entries[newToOld[i]]
      /\ \A i, j \in DOMAIN entries : newToOld[i] = newToOld[j] => i = j
      /\ ToSet(entries') = ToSet(entries)
  BY OrderIs DEF Reorder
<1>2. terms' = terms /\ source' = source /\ forwardEdits' = forwardEdits
  BY DEF Reorder
<1>3. ForwardType'
  <2>1. PICK n \in Nat : DOMAIN entries = 1 .. n
    BY DEF ForwardType
  <2>2. \A i \in 1 .. n : entries'[i] \in ForwardEntries
    BY <1>1, <2>1 DEF ForwardType
  <2>3. entries' = [i \in 1 .. n |-> entries'[i]]
    BY <2>1 DEF Reorder, Moved
  <2>4. entries' \in [1 .. n -> ForwardEntries]
    BY <2>2, <2>3
  <2>5. entries' \in Seq(ForwardEntries)
    BY <2>4
  <2> QED BY <1>2, <2>5 DEF ForwardType
<1>4. ValidLexicon'
  BY <1>2 DEF ForwardValid, ValidLexicon
<1>5. ASSUME NEW i \in DOMAIN entries', NEW j \in DOMAIN entries',
             entries'[i].document.id = entries'[j].document.id
      PROVE  i = j
  BY <1>1, <1>5 DEF ForwardValid
<1>6. ASSUME NEW i \in DOMAIN entries'
      PROVE  /\ DOMAIN entries'[i].ids = DOMAIN entries'[i].document.fields
             /\ \A field \in DOMAIN entries'[i].ids : Spells(entries[i], field)'
  <2>1. PICK j \in DOMAIN entries : entries'[i] = entries[j]
    BY <1>1
  <2>2. /\ DOMAIN entries[j].ids = DOMAIN entries[j].document.fields
        /\ \A field \in DOMAIN entries[j].ids : Spells(entries[j], field)
    BY DEF ForwardValid
  <2>3. ASSUME NEW field \in DOMAIN entries[j].ids PROVE Spells(entries[i], field)'
    <3>1. Spells(entries[j], field)
      BY <2>2
    <3> QED BY <1>2, <2>1, <3>1 DEF Spells
  <2> QED BY <2>1, <2>2, <2>3
<1>7. \A id \in DOMAIN terms' : \E entry \in ToSet(entries') :
        \E field \in DOMAIN entry.ids : id - 1 \in ToSet(entry.ids[field])
  BY <1>1, <1>2 DEF ForwardValid
<1> QED BY <1>3, <1>4, <1>5, <1>6, <1>7 DEF ForwardValid

\* A valid forward index inverts to an index that its readers accept.
LEMMA InvertLoads ==
  ASSUME ForwardType, ForwardValid, Invert
  PROVE  IndexInv' /\ state' = "loaded"
<1>1. Made
  BY DEF Invert, Made
<1>2. PartsType' /\ PostingsAre' /\ LengthsAre' /\ DistinctIds' /\ Normalized'
  BY <1>1, MadeLists, MadeIsValid
<1>3. (blockMax = ComputeBlockMax(postings))' /\ fieldTotals' = SummedTotals'
  BY DEF Invert
<1>4. (PartsType /\ PostingsAre /\ LengthsAre /\ DistinctIds /\ Normalized
         /\ blockMax = ComputeBlockMax(postings) => Accepted)'
  BY ExactIsAccepted, PTL
<1>5. Accepted'
  BY <1>2, <1>3, <1>4
<1>6. state' = "loaded"
  BY <1>5 DEF Invert
<1> QED BY <1>2, <1>3, <1>5, <1>6 DEF IndexInv

\* Identifiers that repeat are fewer than the documents.
LEMMA RepeatedIds ==
  ASSUME NEW corpus \in Seq(SourceDocuments), NEW i \in DOMAIN corpus, NEW j \in DOMAIN corpus, i /= j,
         corpus[i].id = corpus[j].id
  PROVE  Cardinality({corpus[k].id : k \in DOMAIN corpus}) < Len(corpus)
<1> DEFINE n == Len(corpus)
           T == {corpus[k].id : k \in 1 .. n}
           f == [k \in 1 .. n |-> corpus[k].id]
<1>1. n \in Nat /\ DOMAIN corpus = 1 .. n
  OBVIOUS
<1>2. f \in Surjection(1 .. n, T)
  BY DEF Surjection
<1>3. f \notin Injection(1 .. n, T)
  BY <1>1 DEF Injection, IsInjective
<1> HIDE DEF f, T, n
<1>4. IsFiniteSet(1 .. n) /\ Cardinality(1 .. n) = n
  BY <1>1, FS_Interval
<1>5. /\ IsFiniteSet(T)
      /\ Cardinality(T) <= n
      /\ Cardinality(T) /= n
  BY <1>2, <1>3, <1>4, FS_Surjection
<1>6. Cardinality(T) \in Nat
  BY <1>5, FS_CardinalityType
<1>7. Cardinality(T) < n
  BY <1>1, <1>5, <1>6
<1> QED BY <1>1, <1>7 DEF T, n

LEMMA FromDocumentsIsReady ==
  ASSUME ReadyInv, NEW sources \in Sources, FromDocuments(sources)
  PROVE  ReadyInv'
<1>1. /\ terms' = Lexicon(sources) /\ source' = sources
      /\ entries' = [i \in DOMAIN sources |-> Encoded(Lexicon(sources), sources[i])]
      /\ phase' = "ready" => ForwardValid'
      /\ forwardEdits' = forwardEdits
  BY DEF FromDocuments
<1>2. terms' \in Seq(TermKeys)
  <2>1. Lexicon(sources) \in Seq(KeysOfAll(sources)) /\ KeysOfAll(sources) \subseteq TermKeys
    BY LexiconIsSorted, SourcesAre DEF IsLexicon
  <2> QED BY <1>1, <2>1
<1>3. source' \in Seq(SourceDocuments)
  BY <1>1, SourcesAre
<1>4. entries' \in Seq(ForwardEntries)
  <2>1. PICK n \in Nat : DOMAIN sources = 1 .. n
    <3>1. sources \in Seq(Documents)
      BY SourcesAre
    <3> QED BY <3>1
  <2>2. \A i \in 1 .. n : Encoded(Lexicon(sources), sources[i]) \in ForwardEntries
    <3>1. \A i \in 1 .. n : sources[i] \in ToSet(sources)
      BY <2>1 DEF ToSet
    <3> QED BY <3>1, EncodedIsTyped
  <2>3. entries' \in [1 .. n -> ForwardEntries]
    BY <1>1, <2>1, <2>2
  <2> QED BY <2>3
<1> QED BY <1>1, <1>2, <1>3, <1>4 DEF ReadyInv, ForwardType

\* Every step of the forward index keeps both invariants.
LEMMA ForwardStep ==
  ASSUME IndexInv, ReadyInv, ForwardNext
  PROVE  IndexInv' /\ ReadyInv'
<1>0. ForwardType
  BY DEF ReadyInv
<1>1. ASSUME Next, phase = "none", UNCHANGED forward PROVE IndexInv' /\ ReadyInv'
  <2>1. UNCHANGED <<terms, entries, phase, source, forwardEdits>>
    BY <1>1 DEF forward
  <2>2. ReadyInv'
    BY <1>1, <2>1 DEF ReadyInv, ForwardType
  <2> QED BY <1>1, <2>2, StepKeepsInv
<1>2. ASSUME UNCHANGED vars PROVE IndexInv'
  BY <1>2, IdleKeepsInv DEF vars, builder
<1>3. ASSUME NEW sources \in Sources, FromDocuments(sources) PROVE IndexInv' /\ ReadyInv'
  BY <1>2, <1>3, FromDocumentsIsReady DEF FromDocuments
<1>4. ASSUME NEW newToOld \in Bijection(DOMAIN entries, DOMAIN entries), Reorder(newToOld)
      PROVE  IndexInv' /\ ReadyInv'
  <2>1. phase = "ready" /\ UNCHANGED vars
    BY <1>4 DEF Reorder
  <2> QED BY <1>0, <1>2, <1>4, <2>1, ReorderKeepsValid DEF ReadyInv
<1>5. CASE StoreForward
  BY <1>2, <1>5 DEF StoreForward, ReadyInv, ForwardType
<1>6. CASE EditForward
  <2>1. /\ phase' = "stored" /\ UNCHANGED <<vars, source>> /\ forwardEdits' = forwardEdits + 1
        /\ EditLexicon \/ EditEntries
    BY <1>6 DEF EditForward
  <2> QED BY <1>0, <1>2, <2>1, EditForwardKeepsType DEF ReadyInv
<1>7. CASE LoadForward
  <2>1. UNCHANGED <<vars, terms, entries, source, forwardEdits>> /\ (phase' = "ready" => ForwardValid)
    BY <1>7 DEF LoadForward
  <2> QED BY <1>0, <1>2, <2>1, ForwardStays DEF ReadyInv, ForwardType
<1>8. CASE Invert
  <2>1. ForwardValid /\ phase' = "inverted" /\ UNCHANGED <<terms, entries, source, forwardEdits>>
    BY <1>8 DEF Invert, ReadyInv
  <2> QED BY <1>0, <1>8, <2>1, InvertLoads DEF ReadyInv, ForwardType
<1> QED BY <1>1, <1>3, <1>4, <1>5, <1>6, <1>7, <1>8 DEF ForwardNext

\* Every step keeps a forward index faithful to its documents.
LEMMA FaithfulStep ==
  ASSUME AllNormalized, IndexInv, ForwardInv, ForwardNext
  PROVE  ForwardInv'
<1>0. ReadyInv /\ ReadyInv' /\ ForwardType
  BY ForwardStep DEF ForwardInv, ReadyInv
<1>1. ASSUME Next, phase = "none", UNCHANGED forward PROVE ForwardInv'
  <2>1. phase' = "none"
    BY <1>1 DEF forward
  <2> QED BY <1>0, <2>1 DEF ForwardInv, InversionIsFaithful
<1>2. ASSUME NEW sources \in Sources, FromDocuments(sources) PROVE ForwardInv'
  <2>1. /\ terms' = Lexicon(sources) /\ source' = sources
        /\ entries' = [i \in DOMAIN sources |-> Encoded(Lexicon(sources), sources[i])]
        /\ phase' \in {"ready", "refused"}
        /\ (\A i, j \in DOMAIN sources : sources[i].id = sources[j].id => i = j) /\ ForwardValid'
             => phase' = "ready"
    BY <1>2 DEF FromDocuments
  <2>2. sources \in Seq(SourceDocuments)
    BY SourcesAre
  <2>3. ASSUME phase' = "refused"
        PROVE  Cardinality({source'[i].id : i \in DOMAIN source'}) < Len(source')
    <3>1. ~ (\A i, j \in DOMAIN sources : sources[i].id = sources[j].id => i = j)
      BY <2>1, <2>3, BuiltIsValid
    <3>2. PICK i \in DOMAIN sources, j \in DOMAIN sources : i /= j /\ sources[i].id = sources[j].id
      BY <3>1
    <3> QED BY <2>1, <2>2, <3>2, RepeatedIds
  <2>4. Len(entries') = Len(source') /\ {entries'[i].document : i \in DOMAIN entries'} = ToSet(source')
    <3>1. PICK n \in Nat : n = Len(sources) /\ DOMAIN sources = 1 .. n
      BY <2>2
    <3>2. DOMAIN entries' = 1 .. n /\ \A i \in 1 .. n : entries'[i].document = sources[i]
      BY <2>1, <3>1 DEF Encoded
    <3>3. Len(entries') = n
      BY <2>1, <3>1
    <3> QED BY <2>1, <3>1, <3>2, <3>3 DEF ToSet
  <2> QED BY <1>0, <2>1, <2>3, <2>4 DEF ForwardInv, InversionIsFaithful
<1>3. ASSUME NEW newToOld \in Bijection(DOMAIN entries, DOMAIN entries), Reorder(newToOld)
      PROVE  ForwardInv'
  <2>1. phase = "ready" /\ phase' = phase /\ UNCHANGED <<source, forwardEdits>>
    BY <1>3 DEF Reorder
  <2>2. DOMAIN entries' = DOMAIN entries /\ ToSet(entries') = ToSet(entries)
    BY <1>3, OrderIs DEF Reorder
  <2>3. {entries'[i].document : i \in DOMAIN entries'} = {entries[i].document : i \in DOMAIN entries}
    <3>1. \A e : (\E i \in DOMAIN entries' : entries'[i] = e) <=> (\E i \in DOMAIN entries : entries[i] = e)
      BY <2>2 DEF ToSet
    <3> QED BY <3>1
  <2>4. Len(entries') = Len(entries)
    <3>1. entries \in Seq(ForwardEntries) /\ entries' \in Seq(ForwardEntries)
      BY <1>0 DEF ReadyInv, ForwardType
    <3> QED BY <2>2, <3>1
  <2> QED BY <1>0, <2>1, <2>3, <2>4 DEF ForwardInv, InversionIsFaithful
<1>4. CASE StoreForward
  <2>1. phase = "ready" /\ phase' = "stored" /\ UNCHANGED <<terms, entries, source, forwardEdits>>
    BY <1>4 DEF StoreForward
  <2> QED BY <1>0, <2>1, ForwardStays DEF ForwardInv, InversionIsFaithful, ReadyInv
<1>5. CASE EditForward
  <2>1. phase' = "stored" /\ forwardEdits' /= 0
    BY <1>0, <1>5 DEF EditForward, ForwardType
  <2> QED BY <1>0, <2>1 DEF ForwardInv, InversionIsFaithful
<1>6. CASE LoadForward
  <2>1. /\ phase = "stored" /\ UNCHANGED <<terms, entries, source, forwardEdits>>
        /\ phase' = IF ForwardValid THEN "ready" ELSE "refused"
    BY <1>6 DEF LoadForward
  <2> QED BY <1>0, <2>1 DEF ForwardInv, InversionIsFaithful
<1>7. CASE Invert
  <2>1. /\ phase = "ready" /\ phase' = "inverted" /\ UNCHANGED <<entries, source, forwardEdits>>
        /\ documents' = [i \in DOMAIN entries |-> entries[i].document]
    BY <1>7 DEF Invert
  <2>2. state' = "loaded"
    BY <1>0, <1>7, <2>1, InvertLoads DEF ReadyInv
  <2>3. ASSUME forwardEdits = 0
        PROVE  Len(documents') = Len(source) /\ ToSet(documents') = ToSet(source)
    <3>1. Len(entries) = Len(source) /\ {entries[i].document : i \in DOMAIN entries} = ToSet(source)
      BY <2>1, <2>3 DEF ForwardInv
    <3>2. DOMAIN entries = 1 .. Len(entries) /\ Len(entries) \in Nat
      BY <1>0 DEF ForwardType
    <3>3. Len(documents') = Len(entries)
      BY <2>1, <3>2
    <3>4. ToSet(documents') = {entries[i].document : i \in DOMAIN entries}
      BY <2>1 DEF ToSet
    <3> QED BY <3>1, <3>3, <3>4
  <2> QED BY <1>0, <2>1, <2>2, <2>3 DEF ForwardInv, InversionIsFaithful
<1> QED BY <1>1, <1>2, <1>3, <1>4, <1>5, <1>6, <1>7 DEF ForwardNext

-----------------------------------------------------------------------------
\* Both invariants hold whatever is offered, edited, inverted and loaded.
LEMMA ForwardInvariants == ForwardSpec => [](IndexInv /\ ReadyInv)
<1>1. ForwardInit => IndexInv /\ ReadyInv
  <2> SUFFICES ASSUME ForwardInit PROVE IndexInv /\ ReadyInv
    OBVIOUS
  <2>1. IndexInv
    BY StartIsTyped DEF ForwardInit
  <2>2. ReadyInv
    BY DEF ForwardInit, ReadyInv, ForwardType
  <2> QED BY <2>1, <2>2
<1>2. IndexInv /\ ReadyInv /\ [ForwardNext]_forwardVars => (IndexInv /\ ReadyInv)'
  <2> SUFFICES ASSUME IndexInv, ReadyInv, [ForwardNext]_forwardVars PROVE IndexInv' /\ ReadyInv'
    OBVIOUS
  <2>1. CASE ForwardNext
    BY <2>1, ForwardStep
  <2>2. CASE UNCHANGED forwardVars
    <3>1. UNCHANGED <<documents, externalIds, fieldLengths, fieldTotals, postings, blockMax, state, partial>>
          /\ UNCHANGED <<terms, entries, phase, source, forwardEdits>>
      BY <2>2 DEF forwardVars, forward, vars, builder
    <3>2. IndexInv'
      BY <3>1, IdleKeepsInv
    <3>3. ReadyInv'
      BY <3>1, ForwardStays DEF ReadyInv, ForwardType
    <3> QED BY <3>2, <3>3
  <2> QED BY <2>1, <2>2
<1> QED BY <1>1, <1>2, PTL DEF ForwardSpec

\* What the builder has built is exact: every token of every document is listed where it
\* stands and nothing else is, in order, and the totals of the fields are theirs; unless an
\* add_document failed half-way.
THEOREM BuiltIsExact == ForwardSpec => []BuilderIsExact
<1>1. IndexInv /\ ReadyInv => BuilderIsExact
  BY InvIsExact
<1> QED BY <1>1, ForwardInvariants, PTL

\* What the readers accept is exact, however the stored parts were changed and whoever wrote
\* them: the documents' own postings are there, and the counts leave no room for others.
THEOREM AcceptedPartsAreExact == ForwardSpec => []LoadedIsExact
<1>1. IndexInv /\ ReadyInv => LoadedIsExact
  BY InvIsExact
<1> QED BY <1>1, ForwardInvariants, PTL

\* A query over a field or over all fields finds the bounds of what it scores: the number of
\* the block-max stream is the number of postings.
THEOREM BoundsAreFound == ForwardSpec => []QueriesFindBounds
<1>1. IndexInv /\ ReadyInv => QueriesFindBounds
  BY InvFindsBounds
<1> QED BY <1>1, ForwardInvariants, PTL

\* What is saved loads back, when analyzing a token again does not change it: the hypothesis
\* that a character like U+0130, whose lowercase form is not alphanumeric, breaks.
THEOREM SavedPartsLoad == ASSUME AllNormalized PROVE ForwardSpec => []SavedLoadsBack
<1>1. IndexInv /\ ReadyInv => SavedLoadsBack
  BY InvLoadsBack
<1> QED BY <1>1, ForwardInvariants, PTL

\* An inversion has the documents it was built from and its reader accepts it, in whatever
\* order they were put; and only repeated identifiers, or an edit, make a reader refuse.
THEOREM InversionsAreFaithful == ASSUME AllNormalized PROVE ForwardSpec => []InversionIsFaithful
<1>1. ForwardInit => ForwardInv
  <2> SUFFICES ASSUME ForwardInit PROVE ForwardInv
    OBVIOUS
  <2> QED BY DEF ForwardInit, ForwardInv, ReadyInv, ForwardType, InversionIsFaithful
<1>2. IndexInv /\ ReadyInv /\ ForwardInv /\ [ForwardNext]_forwardVars => ForwardInv'
  <2> SUFFICES ASSUME IndexInv, ForwardInv, [ForwardNext]_forwardVars PROVE ForwardInv'
    OBVIOUS
  <2>1. CASE ForwardNext
    BY <2>1, FaithfulStep
  <2>2. CASE UNCHANGED forwardVars
    <3>1. UNCHANGED <<documents, state, terms, entries, phase, source, forwardEdits>>
      BY <2>2 DEF forwardVars, forward, vars, builder
    <3> QED BY <3>1, ForwardStays DEF ForwardInv, ReadyInv, ForwardType, InversionIsFaithful
  <2> QED BY <2>1, <2>2
<1>3. ForwardInv => InversionIsFaithful
  BY DEF ForwardInv
<1> QED BY <1>1, <1>2, <1>3, ForwardInvariants, PTL DEF ForwardSpec
=============================================================================
