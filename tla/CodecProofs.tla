----------------------------- MODULE CodecProofs -----------------------------
(***************************************************************************)
(* Proofs about stored postings.  What is decoded from a block, whoever    *)
(* wrote it, is valid; what an encoder wrote is read back; and the         *)
(* document IDs of a block that is accepted are encoded by no other.       *)
(***************************************************************************)
EXTENDS PostingBlock, SetProofs, SequenceTheorems

\* The postings of an index as they are stored, block by block.

LEMMA PowersDouble ==
  /\ Pow2[0] = 1
  /\ \A n \in Nat \ {0} : Pow2[n] = 2 * Pow2[n - 1]
BY DoublesForever DEF Pow2

LEMMA PowersGrow ==
  ASSUME NEW n \in Nat
  PROVE  Pow2[n] \in Nat /\ n < Pow2[n]
BY DoublesGrow DEF Pow2

LEMMA Log2Is ==
  ASSUME NEW n \in Nat \ {0}
  PROVE  /\ Log2(n) \in Nat
         /\ Pow2[Log2(n)] <= n
         /\ n < Pow2[Log2(n) + 1]
<1> DEFINE Above == {k \in Nat : n < Pow2[k]}
<1>1. n \in Above
  BY PowersGrow
<1>2. PICK m \in Above : \A k \in Above : m <= k
  BY <1>1, LeastNatural
<1>3. m /= 0
  BY PowersDouble
<1>4. m - 1 \in 0 .. n /\ m - 1 \notin Above
  BY <1>1, <1>2, <1>3
<1>5. Pow2[m - 1] <= n /\ n < Pow2[(m - 1) + 1]
  <2>1. Pow2[m - 1] \in Nat
    BY <1>4, PowersGrow
  <2>2. (m - 1) + 1 = m
    BY <1>4
  <2> QED BY <1>2, <1>4, <2>1, <2>2
<1> QED BY <1>4, <1>5 DEF Log2


\* A bit more does not make the number read smaller.
LEMMA NumberGrows ==
  ASSUME NEW bits, NEW from, NEW width \in Nat
  PROVE  /\ Number(bits, from, width) \in Nat
         /\ Number(bits, from, width) <= Number(bits, from, width + 1)
<1> DEFINE A == {i \in 1 .. width : bits[from + i] = 1}
           B == {i \in 1 .. width + 1 : bits[from + i] = 1}
           f == [i \in A |-> Pow2[width - i]]
           g == [i \in B |-> Pow2[(width + 1) - i]]
<1>1. Number(bits, from, width) = SumFunction(f)
      /\ Number(bits, from, width + 1) = SumFunction(g)
  BY DEF Number
<1>2. IsFiniteSet(B) /\ A \in SUBSET B /\ IsFiniteSet(A)
  <2>1. IsFiniteSet(1 .. width + 1)
    BY FS_Interval
  <2>2. A \in SUBSET B
    OBVIOUS
  <2> QED BY <2>1, <2>2, FS_Subset
<1>3. \A i \in A : f[i] \in Nat /\ f[i] <= g[i]
  <2>1. TAKE i \in A
  <2>2. width - i \in Nat /\ (width + 1) - i \in Nat \ {0} /\ (width + 1) - i - 1 = width - i
    OBVIOUS
  <2>3. Pow2[width - i] \in Nat
    BY <2>2, PowersGrow
  <2>4. Pow2[(width + 1) - i] = 2 * Pow2[width - i]
    BY <2>2, PowersDouble
  <2> QED BY <1>2, <2>3, <2>4
<1>4. \A i \in B : g[i] \in Nat
  <2>1. TAKE i \in B
  <2>2. (width + 1) - i \in Nat
    OBVIOUS
  <2> QED BY <2>2, PowersGrow
<1>5. DOMAIN f = A /\ DOMAIN g = B
  OBVIOUS
<1> HIDE DEF A, B, f, g
<1>6. SumFunction(f) \in Nat
  BY <1>2, <1>3, <1>5, SumOfNaturals
<1>7. SumFunction(f) <= SumFunction(g)
  BY <1>2, <1>3, <1>4, <1>5, SumOfFewer
<1> QED BY <1>1, <1>6, <1>7

\* An offset that is read lies in its range.
LEMMA OffsetInRange ==
  ASSUME NEW bits, NEW limit, NEW from, NEW range \in Nat \ {0},
         ReadTruncated(bits, limit, from, range).ok
  PROVE  ReadTruncated(bits, limit, from, range).offset \in 0 .. range - 1
<1> DEFINE width == Log2(range)
           prefix == Number(bits, from, width)
           long == Number(bits, from, width + 1)
           cutoff == Cutoff(range)
           short == prefix < cutoff
           size == IF short THEN width ELSE width + 1
           offset == IF short THEN prefix ELSE Number(bits, from, size) - cutoff
           r == ReadTruncated(bits, limit, from, range)
<1>1. width \in Nat
  BY Log2Is
<1>2. cutoff \in Nat
  <2>1. cutoff = Pow2[width + 1] - range
    BY DEF Cutoff
  <2>2. Pow2[width + 1] \in Nat /\ range < Pow2[width + 1]
    BY <1>1, PowersGrow, Log2Is
  <2> HIDE DEF width, cutoff
  <2> QED BY <2>1, <2>2
<1>3. prefix \in Nat /\ long \in Nat /\ prefix <= long
  <2>1. width + 1 \in Nat
    BY <1>1
  <2> HIDE DEF width
  <2> QED BY <1>1, <2>1, NumberGrows
<1>4. r = IF from + width > limit \/ from + size > limit \/ offset >= range
          THEN [ok |-> FALSE]
          ELSE [ok |-> TRUE, offset |-> offset, next |-> from + size]
  BY DEF ReadTruncated
<1>5. offset \in Nat
  <2>1. CASE short
    BY <1>3, <2>1
  <2>2. CASE ~short
    <3>1. offset = long - cutoff
      BY <2>2
    <3> HIDE DEF offset, long, cutoff, prefix
    <3> QED BY <1>2, <1>3, <2>2, <3>1
  <2> QED BY <2>1, <2>2
<1>6. r.ok
  OBVIOUS
<1> HIDE DEF offset, r, size, short
<1>7. ~(offset >= range) /\ r.offset = offset
  BY <1>4, <1>6
<1> QED BY <1>5, <1>7 DEF r

\* A number that is read is a natural.
LEMMA NumberIsNatural ==
  ASSUME NEW block \in Seq(Nat), NEW start \in Nat,
         DecodeNumber(block, start).ok
  PROVE  /\ DecodeNumber(block, start).value \in Nat
         /\ DecodeNumber(block, start).next \in Nat
<1> DEFINE ends == {n \in 1 .. Groups : start + n <= Len(block) /\ block[start + n] < Group}
           size == Min(ends)
           f == [i \in 1 .. size |->
                   (block[start + i] % Group) * Pow2[GroupBits * (i - 1)]]
           r == DecodeNumber(block, start)
<1>1. r = IF ends = {} \/ (size = Groups /\ block[start + size] >= Pow2[TopBits])
          THEN [ok |-> FALSE]
          ELSE [ok |-> TRUE, value |-> SumFunction(f), next |-> start + size]
  BY DEF DecodeNumber
<1>2. ends /= {} /\ r.value = SumFunction(f) /\ r.next = start + size
  <2>1. r.ok
    OBVIOUS
  <2> HIDE DEF ends, size, f, r
  <2> QED BY <1>1, <2>1
<1>3. size \in ends
  <2>1. IsFiniteSet(1 .. Groups)
    BY FS_Interval, VarByteAssumption
  <2>2. ends \subseteq 1 .. Groups /\ 1 .. Groups \subseteq Int
    OBVIOUS
  <2> HIDE DEF ends
  <2>3. IsFiniteSet(ends) /\ ends \in SUBSET Int
    BY <2>1, <2>2, FS_Subset
  <2> QED BY <1>2, <2>3, MinOfFinite
<1>4. \A i \in 1 .. size : f[i] \in Nat
  <2>1. TAKE i \in 1 .. size
  <2>2. start + i \in DOMAIN block
    BY <1>3
  <2>3. block[start + i] \in Nat
    BY <2>2
  <2>4. GroupBits \in Nat /\ i - 1 \in Nat
    BY VarByteAssumption
  <2>5. Group \in Nat \ {0}
    BY <2>4, PowersGrow DEF Group
  <2>6. GroupBits * (i - 1) \in Nat
    BY <2>4
  <2>7. Pow2[GroupBits * (i - 1)] \in Nat
    BY <2>6, PowersGrow
  <2>8. block[start + i] % Group \in Nat
    BY <2>3, <2>5
  <2> QED BY <2>7, <2>8
<1>5. SumFunction(f) \in Nat
  <2>1. IsFiniteSet(1 .. size) /\ DOMAIN f = 1 .. size
    BY <1>3, FS_Interval
  <2> HIDE DEF f, size
  <2> QED BY <1>4, <2>1, SumOfNaturals
<1>6. start + size \in Nat
  BY <1>3
<1> QED BY <1>2, <1>5, <1>6


-----------------------------------------------------------------------------
\* Blocks as they are encoded, or received.

LEMMA PowersAscend ==
  ASSUME NEW m \in Nat, NEW n \in Nat, m <= n
  PROVE  Pow2[m] <= Pow2[n]
<1> DEFINE Bad == {k \in Nat : m <= k /\ ~(Pow2[m] <= Pow2[k])}
<1>1. ASSUME NEW k \in Bad PROVE \E l \in Bad : ~(k <= l)
  <2>1. Pow2[m] \in Nat /\ Pow2[k] \in Nat
    BY PowersGrow
  <2>2. k /= m
    BY <2>1
  <2>3. k - 1 \in Nat /\ m <= k - 1 /\ Pow2[k] = 2 * Pow2[k - 1]
    BY <2>2, PowersDouble
  <2>4. Pow2[k - 1] \in Nat
    BY <2>3, PowersGrow
  <2>5. k - 1 \in Bad
    BY <2>1, <2>3, <2>4
  <2> QED BY <2>3, <2>5
<1>2. Bad = {}
  <2>1. Bad \in SUBSET Nat
    OBVIOUS
  <2> HIDE DEF Bad
  <2> QED BY <1>1, <2>1, LeastNatural
<1> QED BY <1>2

LEMMA MaxValueIs ==
  /\ MaxValue \in Nat
  /\ MaxValue < Pow2[GroupBits * Groups]
<1> DEFINE top == GroupBits * (Groups - 1) + TopBits
<1>1. GroupBits \in Nat /\ Groups \in Nat \ {0} /\ TopBits \in Nat /\ TopBits <= GroupBits
  BY VarByteAssumption
<1>2. top \in Nat /\ GroupBits * Groups \in Nat /\ top <= GroupBits * Groups
  <2>1. GroupBits * (Groups - 1) \in Nat
    BY <1>1
  <2>2. GroupBits * Groups = GroupBits * (Groups - 1) + GroupBits
    BY <1>1
  <2> QED BY <1>1, <2>1, <2>2
<1>3. MaxValue = Pow2[top] - 1
  BY DEF MaxValue
<1> HIDE DEF top
<1>4. Pow2[top] \in Nat /\ top < Pow2[top]
  BY <1>2, PowersGrow
<1>5. Pow2[GroupBits * Groups] \in Nat /\ Pow2[top] <= Pow2[GroupBits * Groups]
  BY <1>2, PowersGrow, PowersAscend
<1> QED BY <1>2, <1>3, <1>4, <1>5

LEMMA NumberIsBytes ==
  ASSUME NEW value \in Int, value <= MaxValue
  PROVE  EncodeNumber(value) \in Seq(Nat)
<1> DEFINE sizes == {n \in 1 .. Groups : value < Pow2[GroupBits * n]}
           size == Min(sizes)
           Byte(i) == ((value \div Pow2[GroupBits * (i - 1)]) % Group)
                        + (IF i < size THEN Group ELSE 0)
<1>1. Groups \in sizes
  <2>1. MaxValue < Pow2[GroupBits * Groups] /\ MaxValue \in Nat
    BY MaxValueIs
  <2>2. GroupBits * Groups \in Nat /\ Groups \in 1 .. Groups
    BY VarByteAssumption
  <2>3. Pow2[GroupBits * Groups] \in Nat
    BY <2>2, PowersGrow
  <2> QED BY <2>1, <2>2, <2>3
<1>2. size \in sizes
  <2>1. IsFiniteSet(1 .. Groups)
    BY FS_Interval, VarByteAssumption
  <2>2. sizes \subseteq 1 .. Groups /\ 1 .. Groups \subseteq Int
    OBVIOUS
  <2> HIDE DEF sizes
  <2>3. IsFiniteSet(sizes) /\ sizes \in SUBSET Int
    BY <2>1, <2>2, FS_Subset
  <2> QED BY <1>1, <2>3, MinOfFinite
<1>3. ASSUME NEW i \in 1 .. size PROVE Byte(i) \in Nat
  <2>1. GroupBits \in Nat /\ i - 1 \in Nat
    BY VarByteAssumption
  <2>2. Group \in Nat \ {0}
    BY <2>1, PowersGrow DEF Group
  <2>3. GroupBits * (i - 1) \in Nat
    BY <2>1
  <2>4. Pow2[GroupBits * (i - 1)] \in Nat \ {0}
    BY <2>3, PowersGrow
  <2> DEFINE quotient == value \div Pow2[GroupBits * (i - 1)]
             padding == IF i < size THEN Group ELSE 0
  <2>5. quotient \in Int
    BY <2>4
  <2>6. padding \in Nat
    BY <2>2
  <2> HIDE DEF quotient, padding
  <2>7. (quotient % Group) \in Nat
    BY <2>2, <2>5
  <2>8. (quotient % Group) + padding \in Nat
    BY <2>6, <2>7
  <2> QED BY <2>8 DEF quotient, padding
<1>4. EncodeNumber(value) = [i \in 1 .. size |-> Byte(i)]
  BY DEF EncodeNumber
<1>5. size \in Nat
  BY <1>2
<1> HIDE DEF size, Byte
<1> QED BY <1>3, <1>4, <1>5

\* All sequences of a sequence in one are typed as they are.
LEMMA FlattenedIsTyped ==
  ASSUME NEW S, NEW seqs \in Seq(Seq(S))
  PROVE  FlattenSeq(seqs) \in Seq(S)
<1> DEFINE n == Len(seqs)
           f == CHOOSE f : Flattens(f, seqs, n)
           Bad == {k \in 1 .. n : f[k] \notin Seq(S)}
<1>1. n \in Nat /\ (n /= 0 => Flattens(f, seqs, n))
  <2>1. n \in Nat
    OBVIOUS
  <2>2. n /= 0 => \E g : Flattens(g, seqs, n)
    <3> HIDE DEF n
    <3> QED BY <2>1, FlattenedExists
  <2> QED BY <2>1, <2>2
<1>2. FlattenSeq(seqs) = IF n = 0 THEN seqs ELSE f[n]
  BY DEF FlattenSeq, Flattens
<1> HIDE DEF f
<1>3. ASSUME NEW k \in Bad PROVE \E l \in Bad : ~(k <= l)
  <2>1. k \in 1 .. n /\ seqs[k] \in Seq(S)
    OBVIOUS
  <2>2. f[k] = IF k = 1 THEN seqs[k] ELSE f[k - 1] \o seqs[k]
    BY <1>1, <2>1, n /= 0 DEF Flattens
  <2>3. k /= 1
    BY <2>1, <2>2
  <2>4. k - 1 \in 1 .. n
    BY <1>1, <2>1, <2>3
  <2>5. f[k - 1] \notin Seq(S)
    <3>1. SUFFICES ASSUME f[k - 1] \in Seq(S) PROVE f[k] \in Seq(S)
      OBVIOUS
    <3>2. f[k] = f[k - 1] \o seqs[k]
      BY <2>2, <2>3
    <3> QED BY <2>1, <3>1, <3>2
  <2> QED BY <2>4, <2>5
<1>4. Bad = {}
  <2>1. Bad \in SUBSET Nat
    BY <1>1
  <2> HIDE DEF Bad
  <2> QED BY <1>3, <2>1, LeastNatural
<1>5. CASE n = 0
  <2>1. seqs = <<>>
    BY <1>5
  <2> QED BY <1>2, <1>5, <2>1
<1>6. CASE n /= 0
  <2>1. n \in 1 .. n
    BY <1>1, <1>6
  <2> QED BY <1>2, <1>4, <1>6, <2>1
<1> QED BY <1>5, <1>6


\* What every block has, whoever wrote it.
BlockTypes ==
  /\ codec \in Codecs
  /\ count \in Nat
  /\ docBlock.last \in 0 .. MaxValue
  /\ bytes \in Seq(Nat)

LEMMA SourceBlockTypes ==
  ASSUME NEW c \in Codecs, NEW list \in StoredLists,
         Encodable(c, list), Holds(EncodeBlock(c, list), list)
  PROVE  BlockTypes
<1> DEFINE SourceList == [doc : 0 .. MaxValue, positions : Seq(0 .. MaxValue)]
           numbers(i) == NumbersOf(c, list, i)
<1>1. list \in Seq(SourceList) /\ list /= <<>>
  BY BlocksAssumption
<1>2. MaxValue \in Nat
  BY MaxValueIs
<1>3. Len(list) \in Nat /\ Len(list) \in DOMAIN list /\ DOMAIN list = 1 .. Len(list)
  BY <1>1
<1>4. ASSUME NEW i \in DOMAIN list
      PROVE  list[i].doc \in 0 .. MaxValue /\ list[i].positions \in Seq(0 .. MaxValue)
  <2>1. list[i] \in SourceList
    <3> HIDE DEF SourceList
    <3> QED BY <1>1, SeqElements
  <2> QED BY <2>1
<1>5. EncodeDocs(c, IdsOf(list)).last \in 0 .. MaxValue
  <2> DEFINE values == IdsOf(list)
  <2>1. values = [i \in DOMAIN list |-> list[i].doc]
    BY DEF IdsOf
  <2>2. Len(values) = Len(list) /\ values[Len(values)] \in 0 .. MaxValue
    <3>1. values \in Seq(0 .. MaxValue) /\ Len(values) = Len(list)
      <4>1. values \in [1 .. Len(list) -> 0 .. MaxValue]
        BY <1>3, <1>4, <2>1
      <4> HIDE DEF values
      <4> QED BY <1>3, <4>1, FunctionIsSeq
    <3> HIDE DEF values
    <3> QED BY <1>3, <1>4, <2>1, <3>1
  <2> HIDE DEF values
  <2>3. CASE c = "VarByte"
    BY <1>2, <2>3 DEF EncodeDocs, NoDocs
  <2>4. CASE c = "EliasFano"
    <3>1. EncodeDocs(c, values) = EncodeElias(values)
      BY <2>4 DEF EncodeDocs
    <3>2. EncodeElias(values).last = values[Len(values)]
      BY DEF EncodeElias
    <3> QED BY <2>2, <3>1, <3>2 DEF values
  <2>5. CASE c = "Interpolative"
    <3>1. EncodeDocs(c, values) = EncodeInterpolative(values)
      BY <2>5 DEF EncodeDocs
    <3>2. EncodeInterpolative(values).last = values[Len(values)]
      BY DEF EncodeInterpolative
    <3> QED BY <2>2, <3>1, <3>2 DEF values
  <2> QED BY <2>3, <2>4, <2>5 DEF Codecs
<1>6. ASSUME NEW i \in DOMAIN list
      PROVE  numbers(i) \in Seq(Int)
  <2> DEFINE values == IdsOf(list)
             places == list[i].positions
  <2>1. Gaps(values)[i] \in Int
    <3>1. values = [k \in DOMAIN list |-> list[k].doc]
      BY DEF IdsOf
    <3>2. \A k \in DOMAIN list : values[k] \in Int
      BY <1>4, <3>1
    <3>3. DOMAIN values = DOMAIN list
      BY <3>1
    <3> HIDE DEF values
    <3>4. Gaps(values)[i] = values[i] - (IF i = 1 THEN -1 ELSE values[i - 1])
      BY <3>3 DEF Gaps
    <3>5. i = 1 \/ i - 1 \in DOMAIN list
      BY <1>3
    <3>6. CASE i = 1
      BY <3>2, <3>4, <3>6
    <3>7. CASE i /= 1
      <4>1. values[i] \in Int /\ values[i - 1] \in Int
        BY <3>2, <3>5, <3>7
      <4> QED BY <3>4, <3>7, <4>1
    <3> QED BY <3>6, <3>7
  <2>2. Gaps(places) \in Seq(Int)
    <3>1. places \in Seq(0 .. MaxValue)
      BY <1>4
    <3> HIDE DEF places
    <3>2. ASSUME NEW k \in DOMAIN places
          PROVE  places[k] - (IF k = 1 THEN -1 ELSE places[k - 1]) \in Int
      <4>1. DOMAIN places = 1 .. Len(places) /\ \A l \in DOMAIN places : places[l] \in Int
        <5>1. DOMAIN places = 1 .. Len(places) /\ \A l \in DOMAIN places : places[l] \in 0 .. MaxValue
          BY <3>1, SeqElements
        <5> QED BY <5>1
      <4>2. k = 1 \/ k - 1 \in DOMAIN places
        BY <4>1
      <4>3. CASE k = 1
        BY <4>1, <4>3
      <4>4. CASE k /= 1
        <5>1. places[k] \in Int /\ places[k - 1] \in Int
          BY <4>1, <4>2, <4>4
        <5> QED BY <4>4, <5>1
      <4> QED BY <4>3, <4>4
    <3>3. Gaps(places) \in [1 .. Len(places) -> Int]
      BY <3>1, <3>2 DEF Gaps
    <3>4. Len(places) \in Nat
      BY <3>1
    <3> QED BY <3>3, <3>4
  <2>3. Len(places) \in Int
    BY <1>4
  <2>4. numbers(i) = (IF c = "VarByte" THEN <<Gaps(values)[i]>> ELSE <<>>)
                       \o <<Len(places)>> \o Gaps(places)
    BY DEF NumbersOf
  <2> HIDE DEF values, places, numbers
  <2>5. (IF c = "VarByte" THEN <<Gaps(values)[i]>> ELSE <<>>) \in Seq(Int)
    BY <2>1
  <2> QED BY <2>2, <2>3, <2>4, <2>5
<1>7. ASSUME NEW i \in DOMAIN list
      PROVE  EncodeNumbers(numbers(i)) \in Seq(Nat)
  <2>1. numbers(i) \in Seq(Int)
    BY <1>6
  <2>2. \A j \in DOMAIN numbers(i) : numbers(i)[j] <= MaxValue
    BY DEF Encodable
  <2> DEFINE given == numbers(i)
             coded == [j \in DOMAIN given |-> EncodeNumber(given[j])]
  <2> HIDE DEF numbers
  <2>3. \A j \in DOMAIN given : EncodeNumber(given[j]) \in Seq(Nat)
    <3>1. TAKE j \in DOMAIN given
    <3>2. given[j] \in Int /\ given[j] <= MaxValue
      BY <2>1, <2>2
    <3> HIDE DEF given
    <3> QED BY <3>2, NumberIsBytes
  <2>4. coded \in Seq(Seq(Nat))
    <3>1. DOMAIN given = 1 .. Len(given) /\ Len(given) \in Nat
      BY <2>1
    <3> HIDE DEF given
    <3>2. coded \in [1 .. Len(given) -> Seq(Nat)]
      BY <2>3, <3>1
    <3> HIDE DEF coded
    <3> QED BY <3>1, <3>2, FunctionIsSeq
  <2>5. EncodeNumbers(given) = FlattenSeq(coded)
    BY DEF EncodeNumbers
  <2> HIDE DEF given, coded
  <2>6. EncodeNumbers(given) \in Seq(Nat)
    BY <2>4, <2>5, FlattenedIsTyped
  <2> QED BY <2>6 DEF given
<1>8. EncodeBlock(c, list).bytes \in Seq(Nat)
  <2> DEFINE coded == [i \in DOMAIN list |-> EncodeNumbers(numbers(i))]
  <2>1. coded \in Seq(Seq(Nat))
    <3> HIDE DEF numbers
    <3>1. coded \in [1 .. Len(list) -> Seq(Nat)]
      BY <1>3, <1>7
    <3> HIDE DEF coded
    <3> QED BY <1>3, <3>1, FunctionIsSeq
  <2>2. EncodeBlock(c, list).bytes = FlattenSeq(coded)
    BY DEF EncodeBlock
  <2> HIDE DEF coded
  <2> QED BY <2>1, <2>2, FlattenedIsTyped
<1>9. /\ codec = c
      /\ count = Len(list)
      /\ docBlock = EncodeDocs(c, IdsOf(list))
      /\ bytes = EncodeBlock(c, list).bytes
  BY DEF Holds, EncodeBlock
<1> QED BY <1>3, <1>5, <1>8, <1>9 DEF BlockTypes

LEMMA StartHasTypes ==
  ASSUME DecoderInit
  PROVE  BlockTypes
<1>1. ASSUME NEW c \in Codecs, NEW b \in ForeignBlocks(c), Holds(b, <<>>)
      PROVE  BlockTypes
  <2>1. b.codec = c /\ b.count \in Nat /\ b.docs.last \in 0 .. MaxValue /\ b.bytes \in Seq(Nat)
    BY BlocksAssumption
  <2> QED BY <1>1, <2>1 DEF Holds, BlockTypes
<1> QED BY <1>1, SourceBlockTypes DEF DecoderInit


-----------------------------------------------------------------------------
\* What holds in every state of a decoder.

U32 == 0 .. MaxValue

ValidPositions ==
  {p \in Seq(U32) : p /= <<>> /\ Len(p) <= MaxPositions /\ Increasing(p)}

\* Numbers are read one after another; a posting is pushed when all its positions are read.
NumbersInv ==
  /\ reading \in {"open", "docs", "gap", "frequency", "position", "done", "refused"}
  /\ cursor \in Nat
  /\ frequency \in Nat
  /\ positions \in Seq(U32)
  /\ Increasing(positions)
  /\ Len(positions) <= frequency
  /\ reading \in {"open", "docs", "gap", "frequency"} => positions = <<>>
  /\ reading = "position" => frequency \in 1 .. MaxPositions
  /\ decoded \in Seq([doc : U32, positions : ValidPositions])

\* The index ranges left to Interpolative: they are disjoint and in order, hold the indices
\* without an ID and no other, and lie between indices whose IDs are known.
Within(k) == segments[k][1] .. segments[k][2]

Tiled ==
  /\ segments \in Seq(Nat \X Nat)
  /\ DOMAIN docs \subseteq 1 .. count
  /\ \A k \in DOMAIN segments :
       /\ 1 <= segments[k][1] /\ segments[k][1] <= segments[k][2]
       /\ segments[k][1] = 1 \/ segments[k][1] - 1 \in DOMAIN docs
       /\ segments[k][2] + 1 \in DOMAIN docs
       /\ \A m \in Within(k) : m \notin DOMAIN docs
  /\ \A k, l \in DOMAIN segments : k < l => segments[k][2] < segments[l][1]
  /\ \A m \in 1 .. count : m \in DOMAIN docs \/ \E k \in DOMAIN segments : m \in Within(k)

\* The document IDs found so far, by sequence or by median.
DocsAre ==
  /\ docs \in [DOMAIN docs -> U32]
  /\ DOMAIN docs \subseteq Nat
  /\ Increasing(docs)

DocsInv ==
  /\ DocsAre
  /\ codec /= "Interpolative" => docs \in Seq(U32)
  /\ codec = "EliasFano" => position \in Nat
  /\ reading = "open" => docs = <<>>
  /\ reading \in {"open", "docs"} => decoded = <<>>
  /\ reading = "docs" =>
       /\ codec /= "VarByte"
       /\ ShapeFits(docBlock.last, count)
       /\ codec = "EliasFano" => Len(docs) <= count
       /\ codec = "Interpolative" => Tiled
  /\ reading = "gap" => codec = "VarByte" /\ Len(docs) = Len(decoded) /\ Len(decoded) <= count
  /\ reading \in {"frequency", "position"} =>
       IF codec = "VarByte" THEN Len(docs) = Len(decoded) + 1 /\ Len(docs) <= count
                            ELSE DOMAIN docs = 1 .. count /\ Len(decoded) <= count
  /\ reading = "position" => Len(decoded) < count
  /\ reading = "done" => DOMAIN docs = 1 .. count /\ Len(decoded) = count

BlockInv == BlockTypes /\ NumbersInv /\ DocsInv

LEMMA StartIsValid ==
  ASSUME DecoderInit
  PROVE  BlockInv
<1>1. BlockTypes
  BY StartHasTypes
<1>2. /\ reading = "open" /\ docs = <<>> /\ position = 0 /\ cursor = 0 /\ frequency = 0
      /\ positions = <<>> /\ decoded = <<>>
  BY DEF DecoderInit
<1>3. MaxValue \in Nat
  BY MaxValueIs
<1>4. \A i, j \in DOMAIN <<>> : i < j => <<>>[i] < <<>>[j]
  OBVIOUS
<1>5. NumbersInv
  BY <1>2, <1>4 DEF NumbersInv, Increasing
<1>6. <<>> \in [DOMAIN <<>> -> U32] /\ DOMAIN <<>> \subseteq Nat /\ <<>> \in Seq(U32)
  OBVIOUS
<1>7. DocsInv
  BY <1>2, <1>4, <1>6 DEF DocsInv, DocsAre, Increasing
<1> QED BY <1>1, <1>5, <1>7 DEF BlockInv

\* A greater number at the end.
LEMMA AppendIncreases ==
  ASSUME NEW s \in Seq(U32), Increasing(s), NEW v \in U32,
         s /= <<>> => v > s[Len(s)]
  PROVE  /\ Append(s, v) \in Seq(U32)
         /\ Increasing(Append(s, v))
         /\ Len(Append(s, v)) = Len(s) + 1
         /\ Append(s, v) \in [DOMAIN Append(s, v) -> U32]
         /\ DOMAIN Append(s, v) \subseteq Nat
<1> DEFINE t == Append(s, v)
<1>1. /\ Len(s) \in Nat
      /\ DOMAIN s = 1 .. Len(s)
      /\ \A i \in DOMAIN s : s[i] \in U32
  BY SeqElements
<1>2. /\ t \in Seq(U32) /\ Len(t) = Len(s) + 1
      /\ DOMAIN t = 1 .. Len(s) + 1
      /\ \A i \in 1 .. Len(s) : t[i] = s[i]
      /\ t[Len(s) + 1] = v
  OBVIOUS
<1> HIDE DEF t
<1>3. ASSUME NEW i \in DOMAIN t, NEW j \in DOMAIN t, i < j
      PROVE  t[i] < t[j]
  <2>1. i \in 1 .. Len(s)
    BY <1>1, <1>2, <1>3
  <2>2. CASE j \in 1 .. Len(s)
    BY <1>1, <1>2, <1>3, <2>1, <2>2 DEF Increasing
  <2>3. CASE j = Len(s) + 1
    <3>1. Len(s) \in 1 .. Len(s) /\ s /= <<>>
      BY <1>1, <2>1
    <3>2. s[i] <= s[Len(s)]
      <4>1. CASE i = Len(s)
        BY <1>1, <3>1, <4>1 DEF U32
      <4>2. CASE i /= Len(s)
        <5>1. i < Len(s) /\ i \in DOMAIN s /\ Len(s) \in DOMAIN s
          BY <1>1, <2>1, <3>1, <4>2
        <5>2. s[i] < s[Len(s)] /\ s[i] \in U32 /\ s[Len(s)] \in U32
          BY <1>1, <5>1 DEF Increasing
        <5> QED BY <5>2 DEF U32
      <4> QED BY <4>1, <4>2
    <3>3. s[i] \in U32 /\ s[Len(s)] \in U32
      BY <1>1, <2>1, <3>1
    <3> QED BY <1>2, <2>1, <2>3, <3>1, <3>2, <3>3 DEF U32
  <2> QED BY <1>1, <1>2, <2>2, <2>3
<1>4. Increasing(t)
  BY <1>3 DEF Increasing
<1>5. t \in [DOMAIN t -> U32] /\ DOMAIN t \subseteq Nat
  BY <1>2, SeqElements
<1> QED BY <1>2, <1>4, <1>5 DEF t

\* A gap that fits leads to a greater u32.
LEMMA GapLeadsOn ==
  ASSUME BlockTypes, NumbersInv, NEW previous \in U32 \union {-1},
         GapFits(previous)
  PROVE  /\ FromGap(previous, Next32.value) \in U32
         /\ FromGap(previous, Next32.value) > previous
         /\ Next32.next \in Nat
<1>1. Next32 = DecodeNumber(bytes, cursor)
  BY DEF Next32
<1>2. Next32.ok /\ Next32.value > 0
      /\ FromGap(previous, Next32.value) <= MaxValue
  BY DEF GapFits
<1>3. bytes \in Seq(Nat) /\ cursor \in Nat
  BY DEF BlockTypes, NumbersInv
<1>4. DecodeNumber(bytes, cursor).value \in Nat /\ DecodeNumber(bytes, cursor).next \in Nat
  BY <1>1, <1>2, <1>3, NumberIsNatural
<1>5. Next32.value \in Nat /\ Next32.next \in Nat
  BY <1>1, <1>4
<1>6. FromGap(previous, Next32.value) = previous + Next32.value
  BY DEF FromGap
<1>7. previous \in Int /\ previous >= -1
  BY DEF U32
<1> HIDE DEF Next32
<1>8. MaxValue \in Nat
  BY <1>3, MaxValueIs
<1> QED BY <1>2, <1>5, <1>6, <1>7, <1>8 DEF U32


LEMMA StoredStays ==
  ASSUME BlockTypes, UNCHANGED stored
  PROVE  BlockTypes'
BY DEF BlockTypes, stored

LEMMA ReadGapKeepsInv ==
  ASSUME BlockInv, ReadGap
  PROVE  BlockInv'
<1> DEFINE value == FromGap(PreviousDoc, Next32.value)
<1>1. /\ reading = "gap" /\ Len(decoded) < count
      /\ GapFits(PreviousDoc)
      /\ docs' = Append(docs, value)
      /\ cursor' = Next32.next
      /\ reading' = "frequency"
      /\ UNCHANGED <<stored, segments, position, frequency, positions, decoded>>
  BY DEF ReadGap
<1>2. codec = "VarByte" /\ docs \in Seq(U32) /\ Len(docs) = Len(decoded) /\ Increasing(docs)
  BY <1>1 DEF BlockInv, DocsInv, DocsAre
<1>3. PreviousDoc \in U32 \union {-1} /\ (docs /= <<>> => PreviousDoc = docs[Len(docs)])
  <2>1. docs /= <<>> => docs[Len(docs)] \in U32
    BY <1>2
  <2> QED BY <2>1 DEF PreviousDoc
<1>4. value \in U32 /\ value > PreviousDoc /\ Next32.next \in Nat
  BY <1>1, <1>3, GapLeadsOn DEF BlockInv
<1>5. UNCHANGED <<codec, count>>
  BY <1>1 DEF stored
<1>6. BlockTypes'
  BY <1>1, StoredStays DEF BlockInv
<1> HIDE DEF value, PreviousDoc, Next32
<1>7. /\ docs' \in Seq(U32)
      /\ Increasing(docs)'
      /\ Len(docs') = Len(docs) + 1
      /\ docs' \in [DOMAIN docs' -> U32]
      /\ DOMAIN docs' \subseteq Nat
  <2>1. docs /= <<>> => value > docs[Len(docs)]
    BY <1>3, <1>4
  <2>2. /\ Append(docs, value) \in Seq(U32)
        /\ Increasing(Append(docs, value))
        /\ Len(Append(docs, value)) = Len(docs) + 1
        /\ Append(docs, value) \in [DOMAIN Append(docs, value) -> U32]
        /\ DOMAIN Append(docs, value) \subseteq Nat
    BY <1>2, <1>4, <2>1, AppendIncreases
  <2>3. Increasing(docs') <=> Increasing(docs)'
    BY DEF Increasing
  <2> QED BY <1>1, <2>2, <2>3
<1>8. NumbersInv'
  BY <1>1, <1>4 DEF BlockInv, NumbersInv, Increasing
<1>9. Len(decoded) + 1 <= count
  <2>1. Len(decoded) \in Nat /\ count \in Nat
    BY DEF BlockInv, NumbersInv, BlockTypes
  <2> QED BY <1>1, <2>1
<1>10. DocsInv'
  BY <1>1, <1>2, <1>5, <1>7, <1>9 DEF DocsInv, DocsAre
<1> QED BY <1>6, <1>8, <1>10 DEF BlockInv

LEMMA DocsStay ==
  ASSUME DocsInv, UNCHANGED <<docs, codec, count, docBlock, position, decoded, segments>>,
         \/ reading' = reading
         \/ reading = "frequency" /\ reading' = "position" /\ Len(decoded) < count
         \/ reading' = "refused"
  PROVE  DocsInv'
<1>1. DocsAre'
  BY DEF DocsInv, DocsAre, Increasing
<1>2. Tiled => Tiled'
  BY DEF Tiled, Within
<1> QED BY <1>1, <1>2 DEF DocsInv

LEMMA ReadFrequencyKeepsInv ==
  ASSUME BlockInv, ReadFrequency
  PROVE  BlockInv'
<1>1. /\ reading = "frequency" /\ Len(decoded) < count
      /\ FrequencyFits
      /\ frequency' = Next32.value
      /\ cursor' = Next32.next
      /\ reading' = "position"
      /\ UNCHANGED <<stored, docs, segments, position, positions, decoded>>
  BY DEF ReadFrequency
<1>2. Next32.ok /\ Next32.value \in 1 .. MaxPositions
  BY <1>1 DEF FrequencyFits
<1>3. Next32.value \in Nat /\ Next32.next \in Nat
  <2>1. bytes \in Seq(Nat) /\ cursor \in Nat
    BY DEF BlockInv, BlockTypes, NumbersInv
  <2>2. Next32 = DecodeNumber(bytes, cursor)
    BY DEF Next32
  <2> QED BY <1>2, <2>1, <2>2, NumberIsNatural
<1> HIDE DEF Next32
<1>4. positions = <<>>
  BY <1>1 DEF BlockInv, NumbersInv
<1>5. NumbersInv'
  <2>1. Len(positions) <= frequency'
    BY <1>1, <1>3, <1>4
  <2> QED BY <1>1, <1>2, <1>3, <1>4, <2>1 DEF BlockInv, NumbersInv, Increasing
<1>6. DocsInv'
  BY <1>1, DocsStay DEF BlockInv, stored
<1>7. BlockTypes'
  BY <1>1, StoredStays DEF BlockInv
<1> QED BY <1>5, <1>6, <1>7 DEF BlockInv

LEMMA ReadPositionKeepsInv ==
  ASSUME BlockInv, ReadPosition
  PROVE  BlockInv'
<1> DEFINE value == FromGap(PreviousPosition, Next32.value)
<1>1. /\ reading = "position" /\ Len(positions) < frequency
      /\ GapFits(PreviousPosition)
      /\ positions' = Append(positions, value)
      /\ cursor' = Next32.next
      /\ UNCHANGED <<stored, reading, docs, segments, position, frequency, decoded>>
  BY DEF ReadPosition
<1>2. positions \in Seq(U32) /\ Increasing(positions) /\ frequency \in Nat
  BY DEF BlockInv, NumbersInv
<1>3. PreviousPosition \in U32 \union {-1}
      /\ (positions /= <<>> => PreviousPosition = positions[Len(positions)])
  <2>1. positions /= <<>> => positions[Len(positions)] \in U32
    BY <1>2
  <2> QED BY <2>1 DEF PreviousPosition
<1>4. value \in U32 /\ value > PreviousPosition /\ Next32.next \in Nat
  BY <1>1, <1>3, GapLeadsOn DEF BlockInv
<1> HIDE DEF value, PreviousPosition, Next32
<1>5. positions' \in Seq(U32) /\ Increasing(positions)' /\ Len(positions') = Len(positions) + 1
  <2>1. positions /= <<>> => value > positions[Len(positions)]
    BY <1>3, <1>4
  <2>2. /\ Append(positions, value) \in Seq(U32)
        /\ Increasing(Append(positions, value))
        /\ Len(Append(positions, value)) = Len(positions) + 1
    BY <1>2, <1>4, <2>1, AppendIncreases
  <2>3. Increasing(positions') <=> Increasing(positions)'
    BY DEF Increasing
  <2> QED BY <1>1, <2>2, <2>3
<1>6. NumbersInv'
  <2>1. Len(positions') <= frequency
    BY <1>1, <1>2, <1>5
  <2> QED BY <1>1, <1>4, <1>5, <2>1 DEF BlockInv, NumbersInv
<1>7. DocsInv'
  BY <1>1, DocsStay DEF BlockInv, stored
<1>8. BlockTypes'
  BY <1>1, StoredStays DEF BlockInv
<1> QED BY <1>6, <1>7, <1>8 DEF BlockInv

LEMMA PushPostingKeepsInv ==
  ASSUME BlockInv, PushPosting
  PROVE  BlockInv'
<1> DEFINE posting == [doc |-> docs[Len(decoded) + 1], positions |-> positions]
           Postings32 == [doc : U32, positions : ValidPositions]
<1>1. /\ reading = "position" /\ Len(positions) = frequency
      /\ decoded' = Append(decoded, posting)
      /\ positions' = <<>> /\ frequency' = 0
      /\ reading' = IF codec = "VarByte" THEN "gap" ELSE "frequency"
      /\ UNCHANGED <<stored, docs, segments, position, cursor>>
  BY DEF PushPosting
<1>2. decoded \in Seq(Postings32) /\ Len(decoded) \in Nat /\ count \in Nat /\ Len(decoded) < count
  BY <1>1 DEF BlockInv, NumbersInv, BlockTypes, DocsInv
<1>3. docs[Len(decoded) + 1] \in U32
  <2>1. CASE codec = "VarByte"
    <3>1. docs \in Seq(U32) /\ Len(docs) = Len(decoded) + 1
      BY <1>1, <2>1 DEF BlockInv, DocsInv
    <3> QED BY <1>2, <3>1
  <2>2. CASE codec /= "VarByte"
    <3>1. DOMAIN docs = 1 .. count /\ docs \in [DOMAIN docs -> U32]
      BY <1>1, <2>2 DEF BlockInv, DocsInv, DocsAre
    <3>2. Len(decoded) + 1 \in DOMAIN docs
      BY <1>2, <3>1
    <3> QED BY <3>1, <3>2
  <2> QED BY <2>1, <2>2
<1>4. positions \in ValidPositions
  <2>1. positions \in Seq(U32) /\ Increasing(positions) /\ frequency \in 1 .. MaxPositions
    BY <1>1 DEF BlockInv, NumbersInv
  <2> QED BY <1>1, <2>1 DEF ValidPositions
<1>5. posting \in Postings32
  BY <1>3, <1>4
<1> HIDE DEF posting, Postings32
<1>6. decoded' \in Seq(Postings32) /\ Len(decoded') = Len(decoded) + 1
  BY <1>1, <1>2, <1>5
<1>7. NumbersInv'
  BY <1>1, <1>6 DEF BlockInv, NumbersInv, Increasing, Postings32
<1>8. DocsAre'
  BY <1>1 DEF BlockInv, DocsInv, DocsAre, Increasing
<1>9. DocsInv'
  BY <1>1, <1>2, <1>6, <1>8 DEF BlockInv, DocsInv, stored
<1>10. BlockTypes'
  BY <1>1, StoredStays DEF BlockInv
<1> QED BY <1>7, <1>9, <1>10 DEF BlockInv

LEMMA EndKeepsInv ==
  ASSUME BlockInv, Accept \/ RefuseBlock \/ UNCHANGED decoderVars
  PROVE  BlockInv'
<1>1. UNCHANGED <<stored, docs, segments, position, cursor, frequency, positions, decoded>>
  BY DEF Accept, RefuseBlock, decoderVars
<1>2. BlockTypes'
  BY <1>1, StoredStays DEF BlockInv
<1>3. reading' \in {"done", "refused", reading} /\ (reading' = "done" => reading = "done" \/ Accept)
  BY DEF Accept, RefuseBlock, decoderVars
<1>4. NumbersInv'
  BY <1>1, <1>3 DEF BlockInv, NumbersInv, Increasing
<1>5. CASE Accept
  <2>1. reading \in {"gap", "frequency"} /\ Len(decoded) = count /\ reading' = "done"
    BY <1>5 DEF Accept, AllRead
  <2>2. DOMAIN docs = 1 .. count
    <3>1. CASE reading = "gap"
      <4>1. docs \in Seq(U32) /\ Len(docs) = count
        BY <2>1, <3>1 DEF BlockInv, DocsInv
      <4> QED BY <4>1
    <3>2. CASE reading = "frequency"
      <4>1. Len(decoded) \in Nat /\ count \in Nat
        BY DEF BlockInv, NumbersInv, BlockTypes
      <4> QED BY <2>1, <3>2, <4>1 DEF BlockInv, DocsInv
    <3> QED BY <2>1, <3>1, <3>2
  <2>3. DocsAre'
    BY <1>1 DEF BlockInv, DocsInv, DocsAre, Increasing
  <2>4. DocsInv'
    BY <1>1, <2>1, <2>2, <2>3 DEF BlockInv, DocsInv, stored
  <2> QED BY <1>2, <1>4, <2>4 DEF BlockInv
<1>6. CASE ~Accept
  <2>1. reading' = reading \/ reading' = "refused"
    BY <1>6 DEF RefuseBlock, decoderVars
  <2>2. DocsInv'
    BY <1>1, <2>1, DocsStay DEF BlockInv, stored
  <2> QED BY <1>2, <1>4, <2>2 DEF BlockInv
<1> QED BY <1>5, <1>6


LEMMA OpenKeepsInv ==
  ASSUME BlockInv, Open
  PROVE  BlockInv'
<1>1. /\ reading = "open" /\ DocBlockOpens
      /\ reading' = IF codec = "VarByte" THEN "gap" ELSE "docs"
      /\ UNCHANGED <<stored, position, cursor, frequency, positions, decoded>>
  BY DEF Open
<1>2. /\ codec \in Codecs /\ count \in Nat /\ docBlock.last \in U32
      /\ docs = <<>> /\ decoded = <<>> /\ positions = <<>>
  BY <1>1 DEF BlockInv, BlockTypes, NumbersInv, DocsInv, U32
<1>3. BlockTypes'
  BY <1>1, StoredStays DEF BlockInv
<1>4. NumbersInv'
  BY <1>1, <1>2 DEF BlockInv, NumbersInv, Increasing
<1>5. UNCHANGED <<codec, count, docBlock>>
  BY <1>1 DEF stored
<1>6. CASE codec /= "Interpolative"
  <2>1. UNCHANGED <<docs, segments>>
    BY <1>6 DEF Open
  <2>2. DocsAre'
    BY <2>1 DEF BlockInv, DocsInv, DocsAre, Increasing
  <2>3. codec = "EliasFano" => ShapeFits(docBlock.last, count)
    BY <1>1 DEF DocBlockOpens, EliasOpens
  <2>4. Len(docs) = 0 /\ Len(decoded) = 0
    BY <1>2
  <2>5. codec = "VarByte" \/ codec = "EliasFano"
    BY <1>2, <1>6 DEF Codecs
  <2>6. DocsInv'
    BY <1>1, <1>2, <1>5, <1>6, <2>1, <2>2, <2>3, <2>4, <2>5 DEF BlockInv, DocsInv, ShapeFits
  <2> QED BY <1>3, <1>4, <2>6 DEF BlockInv
<1>7. CASE codec = "Interpolative"
  <2>1. docs' = [i \in {count} |-> docBlock.last] /\ segments' = Unread(1, count - 1)
    BY <1>7 DEF Open
  <2>2. ShapeFits(docBlock.last, count)
    BY <1>1, <1>7 DEF DocBlockOpens, InterpolativeOpens
  <2>3. count > 0
    BY <2>2 DEF ShapeFits
  <2>4. DOMAIN docs' = {count} /\ docs'[count] = docBlock.last
    BY <2>1
  <2>5. DocsAre'
    <3>1. docs' \in [DOMAIN docs' -> U32]
      BY <1>2, <2>1, <2>4
    <3>2. \A i, j \in DOMAIN docs' : ~(i < j)
      BY <1>2, <2>4
    <3> QED BY <1>2, <2>4, <3>1, <3>2 DEF DocsAre, Increasing, U32
  <2>6. Tiled'
    <3>1. CASE count = 1
      <4>1. segments' = <<>>
        BY <2>1, <3>1 DEF Unread
      <4>2. DOMAIN segments' = {}
        BY <4>1
      <4> QED BY <1>2, <1>5, <2>4, <3>1, <4>1, <4>2 DEF Tiled, Within
    <3>2. CASE count /= 1
      <4>1. 1 <= count - 1 /\ count - 1 \in Nat
        BY <1>2, <2>3, <3>2
      <4>2. segments' = << <<1, count - 1>> >>
        BY <2>1, <4>1 DEF Unread
      <4>3. /\ DOMAIN segments' = {1} /\ segments'[1][1] = 1 /\ segments'[1][2] = count - 1
            /\ segments' \in Seq(Nat \X Nat)
        BY <4>1, <4>2
      <4>4. \A m \in 1 .. count : m = count \/ m \in 1 .. count - 1
        BY <1>2
      <4>5. count \in 1 .. count /\ (count - 1) + 1 = count /\ \A m \in 1 .. count - 1 : m /= count
        BY <1>2, <2>3
      <4>6. Within(1)' = 1 .. count - 1
        BY <4>3 DEF Within
      <4>7. /\ DOMAIN docs' \subseteq 1 .. count'
            /\ \A k \in DOMAIN segments' :
                 /\ 1 <= segments'[k][1] /\ segments'[k][1] <= segments'[k][2]
                 /\ segments'[k][1] = 1 \/ segments'[k][1] - 1 \in DOMAIN docs'
                 /\ segments'[k][2] + 1 \in DOMAIN docs'
                 /\ \A m \in Within(k)' : m \notin DOMAIN docs'
            /\ \A k, l \in DOMAIN segments' : k < l => segments'[k][2] < segments'[l][1]
            /\ \A m \in 1 .. count' : m \in DOMAIN docs' \/ \E k \in DOMAIN segments' : m \in Within(k)'
        <5>1. \A k \in DOMAIN segments' : k = 1
          BY <4>3
        <5>2. DOMAIN docs' \subseteq 1 .. count'
          BY <1>5, <2>4, <4>5
        <5>3. \A m \in Within(1)' : m \notin DOMAIN docs'
          BY <2>4, <4>5, <4>6
        <5>4. segments'[1][2] + 1 \in DOMAIN docs'
          BY <2>4, <4>3, <4>5
        <5>5. \A m \in 1 .. count' : m \in DOMAIN docs' \/ m \in Within(1)'
          BY <1>5, <2>4, <4>4, <4>6
        <5>6. 1 \in DOMAIN segments' /\ ~(1 < 1)
          BY <4>3
        <5> QED BY <4>1, <4>3, <5>1, <5>2, <5>3, <5>4, <5>5, <5>6
      <4> QED BY <4>3, <4>7 DEF Tiled, Within
    <3> QED BY <3>1, <3>2
  <2>7. DocsInv'
    BY <1>1, <1>2, <1>5, <1>7, <2>2, <2>5, <2>6 DEF DocsInv
  <2> QED BY <1>3, <1>4, <2>7 DEF BlockInv
<1> QED BY <1>6, <1>7

LEMMA FinishDocsKeepsInv ==
  ASSUME BlockInv, FinishDocs
  PROVE  BlockInv'
<1>1. /\ reading = "docs" /\ DocsComplete /\ reading' = "frequency"
      /\ UNCHANGED <<stored, docs, segments, position, cursor, frequency, positions, decoded>>
  BY DEF FinishDocs
<1>2. BlockTypes'
  BY <1>1, StoredStays DEF BlockInv
<1>3. NumbersInv'
  BY <1>1 DEF BlockInv, NumbersInv, Increasing
<1>4. DocsAre'
  BY <1>1 DEF BlockInv, DocsInv, DocsAre, Increasing
<1>5. codec \in Codecs /\ codec /= "VarByte" /\ count \in Nat /\ decoded = <<>>
  BY <1>1 DEF BlockInv, BlockTypes, DocsInv
<1>6. DOMAIN docs = 1 .. count
  <2>1. CASE codec = "EliasFano"
    <3>1. docs \in Seq(U32) /\ Len(docs) = count
      BY <1>1, <2>1 DEF BlockInv, DocsInv, DocsComplete
    <3> QED BY <3>1
  <2>2. CASE codec = "Interpolative"
    <3>1. Tiled /\ segments = <<>>
      BY <1>1, <2>2 DEF BlockInv, DocsInv, DocsComplete
    <3>2. DOMAIN segments = {}
      BY <3>1
    <3> QED BY <3>1, <3>2 DEF Tiled
  <2> QED BY <1>5, <2>1, <2>2 DEF Codecs
<1>7. Len(decoded) = 0
  BY <1>5
<1>8. DocsInv'
  BY <1>1, <1>4, <1>5, <1>6, <1>7 DEF BlockInv, DocsInv, stored
<1> QED BY <1>2, <1>3, <1>8 DEF BlockInv

LEMMA WidthIs ==
  ASSUME NEW last \in Nat, NEW n \in Nat, ShapeFits(last, n)
  PROVE  Width(last, n) \in Nat
<1>1. n > 0 /\ n <= last + 1
  BY DEF ShapeFits
<1>2. (last + 1) \div n \in Nat \ {0}
  <2> DEFINE q == (last + 1) \div n
  <2>1. q \in Nat /\ last + 1 = q * n + ((last + 1) % n) /\ (last + 1) % n \in 0 .. n - 1
    <3>1. n \in Nat \ {0} /\ last + 1 \in Nat
      BY <1>1
    <3> QED BY <3>1, Division
  <2> HIDE DEF q
  <2>2. q /= 0
    <3>1. SUFFICES ASSUME q = 0 PROVE FALSE
      OBVIOUS
    <3>2. last + 1 = (last + 1) % n
      BY <2>1, <3>1
    <3> QED BY <1>1, <2>1, <3>2
  <2> QED BY <2>1, <2>2 DEF q
<1> QED BY <1>2, Log2Is DEF Width

LEMMA DecodeEliasKeepsInv ==
  ASSUME BlockInv, DecodeElias
  PROVE  BlockInv'
<1> DEFINE high == NextHigh
           value == NextElias
           last == docBlock.last
           width == Width(last, count)
<1>1. /\ reading = "docs" /\ codec = "EliasFano" /\ Len(docs) < count
      /\ EliasFits
      /\ docs' = Append(docs, value)
      /\ position' = high + 1
      /\ UNCHANGED <<stored, reading, segments, cursor, frequency, positions, decoded>>
  BY DEF DecodeElias
<1>2. BlockTypes'
  BY <1>1, StoredStays DEF BlockInv
<1>3. NumbersInv'
  BY <1>1 DEF BlockInv, NumbersInv, Increasing
<1>4. /\ docs \in Seq(U32) /\ Increasing(docs) /\ position \in Nat /\ count \in Nat
      /\ last \in Nat /\ last <= MaxValue /\ ShapeFits(last, count)
      /\ MaxValue \in Nat
  BY <1>1, MaxValueIs DEF BlockInv, BlockTypes, DocsInv, DocsAre
<1>5. width \in Nat /\ Pow2[width] \in Nat \ {0}
  <2>1. width \in Nat
    BY <1>4, WidthIs
  <2> HIDE DEF width
  <2> QED BY <2>1, PowersGrow
<1>6. high \in Nat /\ high >= position
  <2> DEFINE S == HighSet(docBlock, count, position)
             bits == HighBits(last, count)
  <2>1. S /= {} /\ high = Min(S)
    BY <1>1 DEF EliasFits, NextHigh
  <2>2. bits \in Int
    <3>1. bits = ((last \div Pow2[width]) + count) + 1
      BY DEF HighBits
    <3>2. (last \div Pow2[width]) \in Nat
      BY <1>4, <1>5, Division
    <3> HIDE DEF bits, width
    <3> QED BY <1>4, <3>1, <3>2
  <2>3. \A p \in S : p \in position .. bits - 1
    BY DEF HighSet
  <2> HIDE DEF S, bits
  <2>4. IsFiniteSet(position .. bits - 1)
    BY <1>4, <2>2, FS_Interval
  <2>5. IsFiniteSet(S) /\ S \in SUBSET Int
    <3>1. S \in SUBSET (position .. bits - 1)
      BY <2>3
    <3>2. IsFiniteSet(S)
      BY <2>4, <3>1, FS_Subset
    <3> QED BY <3>1, <3>2
  <2>6. high \in S
    BY <2>1, <2>5, MinOfFinite
  <2> QED BY <1>4, <2>3, <2>6
<1>7. value \in Int /\ (docs = <<>> => value >= 0)
  <2> DEFINE ones == {d \in 0 .. width - 1 : docBlock.bits[Len(docs) * width + d + 1] = 1}
             f == [d \in ones |-> Pow2[d]]
  <2>1. value = (high - Len(docs)) * Pow2[width] + SumFunction(f)
    BY DEF NextElias, EliasValue
  <2>2. SumFunction(f) \in Nat
    <3>1. IsFiniteSet(0 .. width - 1)
      BY <1>5, FS_Interval
    <3>2. IsFiniteSet(ones) /\ \A d \in ones : d \in Nat
      <4>1. ones \in SUBSET (0 .. width - 1)
        OBVIOUS
      <4> HIDE DEF ones, width
      <4>2. IsFiniteSet(ones)
        BY <3>1, <4>1, FS_Subset
      <4> QED BY <4>1, <4>2
    <3>3. DOMAIN f = ones /\ \A d \in ones : f[d] \in Nat
      BY <3>2, PowersGrow
    <3> HIDE DEF ones, f
    <3> QED BY <3>2, <3>3, SumOfNaturals
  <2> HIDE DEF value, high, f, width
  <2>3. Len(docs) \in Nat
    BY <1>4
  <2>4. (high - Len(docs)) * Pow2[width] \in Int
    BY <1>5, <1>6, <2>3
  <2>5. docs = <<>> => (high - Len(docs)) * Pow2[width] \in Nat
    <3>1. SUFFICES ASSUME docs = <<>> PROVE (high - Len(docs)) * Pow2[width] \in Nat
      OBVIOUS
    <3>2. high - Len(docs) = high
      BY <1>6, <3>1
    <3> QED BY <1>5, <1>6, <3>2
  <2> QED BY <2>1, <2>2, <2>4, <2>5
<1>8. (docs /= <<>> => value > docs[Len(docs)]) /\ value <= last
  BY <1>1 DEF EliasFits, EliasAccepts
<1> HIDE DEF value, high, last
<1>9. value \in U32
  <2>1. CASE docs = <<>>
    BY <1>4, <1>7, <1>8, <2>1 DEF U32
  <2>2. CASE docs /= <<>>
    <3>1. docs[Len(docs)] \in U32
      BY <1>4, <2>2
    <3> QED BY <1>4, <1>7, <1>8, <2>2, <3>1 DEF U32
  <2> QED BY <2>1, <2>2
<1>10. /\ docs' \in Seq(U32)
       /\ Increasing(docs)'
       /\ Len(docs') = Len(docs) + 1
       /\ docs' \in [DOMAIN docs' -> U32]
       /\ DOMAIN docs' \subseteq Nat
  <2>1. /\ Append(docs, value) \in Seq(U32)
        /\ Increasing(Append(docs, value))
        /\ Len(Append(docs, value)) = Len(docs) + 1
        /\ Append(docs, value) \in [DOMAIN Append(docs, value) -> U32]
        /\ DOMAIN Append(docs, value) \subseteq Nat
    BY <1>4, <1>8, <1>9, AppendIncreases
  <2>2. Increasing(docs') <=> Increasing(docs)'
    BY DEF Increasing
  <2> QED BY <1>1, <2>1, <2>2
<1>11. Len(docs') <= count
  <2>1. Len(docs) \in Nat
    BY <1>4
  <2> QED BY <1>1, <1>4, <1>10, <2>1
<1>12. DocsInv'
  BY <1>1, <1>6, <1>10, <1>11 DEF BlockInv, DocsInv, DocsAre, stored
<1> QED BY <1>2, <1>3, <1>12 DEF BlockInv


\* What is left of a first range that is split, and the other ranges.
Splits(new, s, i, j, m) ==
  /\ new \in Seq(Nat \X Nat)
  /\ \A k \in DOMAIN new :
       \/ i < m /\ new[k][1] = i /\ new[k][2] = m - 1
       \/ m < j /\ new[k][1] = m + 1 /\ new[k][2] = j
       \/ \E l \in DOMAIN s : l /= 1 /\ new[k] = s[l]
  /\ \A k, l \in DOMAIN new : k < l => new[k][2] < new[l][1]
  /\ i < m => \E k \in DOMAIN new : new[k][1] = i /\ new[k][2] = m - 1
  /\ m < j => \E k \in DOMAIN new : new[k][1] = m + 1 /\ new[k][2] = j
  /\ \A l \in DOMAIN s : l /= 1 => \E k \in DOMAIN new : new[k] = s[l]

LEMMA UnreadIs ==
  ASSUME NEW i \in Nat, NEW j \in Int
  PROVE  /\ Unread(i, j) \in Seq(Nat \X Nat)
         /\ Len(Unread(i, j)) = IF i <= j THEN 1 ELSE 0
         /\ i <= j => Unread(i, j)[1][1] = i /\ Unread(i, j)[1][2] = j
<1>1. CASE i <= j
  <2>1. Unread(i, j) = << <<i, j>> >> /\ j \in Nat
    BY <1>1 DEF Unread
  <2> QED BY <1>1, <2>1
<1>2. CASE ~(i <= j)
  BY <1>2 DEF Unread
<1> QED BY <1>1, <1>2

LEMMA SplitRanges ==
  ASSUME NEW s \in Seq(Nat \X Nat), s /= <<>>,
         NEW i \in Nat, NEW j \in Nat, NEW m \in Nat, i <= m, m <= j,
         s[1][1] = i, s[1][2] = j,
         \A k \in DOMAIN s : s[k][1] <= s[k][2],
         \A k, l \in DOMAIN s : k < l => s[k][2] < s[l][1]
  PROVE  Splits(Unread(i, m - 1) \o Unread(m + 1, j) \o Tail(s), s, i, j, m)
<1> DEFINE A == Unread(i, m - 1)
           B == Unread(m + 1, j)
           a == Len(A)
           b == Len(B)
           n == Len(s)
           new == A \o B \o Tail(s)
<1>1. /\ A \in Seq(Nat \X Nat) /\ (i < m => a = 1) /\ (~(i < m) => a = 0)
      /\ i < m => A[1][1] = i /\ A[1][2] = m - 1
  <2>1. m - 1 \in Int /\ (i <= m - 1 <=> i < m)
    OBVIOUS
  <2> QED BY <2>1, UnreadIs
<1>2. /\ B \in Seq(Nat \X Nat) /\ (m < j => b = 1) /\ (~(m < j) => b = 0)
      /\ m < j => B[1][1] = m + 1 /\ B[1][2] = j
  <2>1. m + 1 \in Nat /\ j \in Int /\ (m + 1 <= j <=> m < j)
    OBVIOUS
  <2>2. /\ B \in Seq(Nat \X Nat)
        /\ b = IF m + 1 <= j THEN 1 ELSE 0
        /\ m + 1 <= j => B[1][1] = m + 1 /\ B[1][2] = j
    <3> DEFINE next == m + 1
    <3>1. next \in Nat /\ j \in Int
      BY <2>1
    <3> HIDE DEF next
    <3>2. /\ Unread(next, j) \in Seq(Nat \X Nat)
          /\ Len(Unread(next, j)) = IF next <= j THEN 1 ELSE 0
          /\ next <= j => Unread(next, j)[1][1] = next /\ Unread(next, j)[1][2] = j
      BY ONLY <3>1, UnreadIs
    <3> QED BY ONLY <3>2 DEF next, b, B
  <2> HIDE DEF B
  <2>3. /\ m < j => b = 1
        /\ ~(m < j) => b = 0
    BY ONLY <2>1, <2>2
  <2> QED BY ONLY <2>1, <2>2, <2>3
<1> HIDE DEF A, B
<1>3. /\ n \in Nat \ {0} /\ DOMAIN s = 1 .. n
      /\ Tail(s) \in Seq(Nat \X Nat) /\ Len(Tail(s)) = n - 1
      /\ \A k \in 1 .. n - 1 : Tail(s)[k] = s[k + 1]
  <2>1. n \in Nat \ {0} /\ DOMAIN s = 1 .. n
    BY EmptySeq
  <2> QED BY <2>1
<1>4. a \in Nat /\ b \in Nat
  BY <1>1, <1>2
<1>5. /\ new \in Seq(Nat \X Nat) /\ Len(new) = (a + b) + (n - 1)
      /\ DOMAIN new = 1 .. (a + b) + (n - 1)
      /\ (\A k \in 1 .. a : new[k] = A[k])
      /\ (\A k \in 1 .. b : new[a + k] = B[k])
      /\ (\A k \in 1 .. n - 1 : new[(a + b) + k] = s[k + 1])
  <2> DEFINE AB == A \o B
  <2>1. /\ AB \in Seq(Nat \X Nat) /\ Len(AB) = a + b
        /\ \A k \in 1 .. a : AB[k] = A[k]
        /\ \A k \in 1 .. b : AB[a + k] = B[k]
    BY <1>1, <1>2
  <2>2. new = AB \o Tail(s)
    OBVIOUS
  <2> HIDE DEF AB, new
  <2>3. /\ new \in Seq(Nat \X Nat) /\ Len(new) = (a + b) + (n - 1)
        /\ \A k \in 1 .. a + b : new[k] = AB[k]
        /\ \A k \in 1 .. n - 1 : new[(a + b) + k] = Tail(s)[k]
    <3>1. Tail(s) \in Seq(Nat \X Nat) /\ Len(Tail(s)) = n - 1
      BY <1>3
    <3> HIDE DEF a, b, n
    <3> DEFINE behind == Tail(s)
    <3>2. /\ AB \o behind \in Seq(Nat \X Nat) /\ Len(AB \o behind) = Len(AB) + Len(behind)
          /\ \A k \in 1 .. Len(AB) : (AB \o behind)[k] = AB[k]
          /\ \A k \in 1 .. Len(behind) : (AB \o behind)[Len(AB) + k] = behind[k]
      <4>1. behind \in Seq(Nat \X Nat) /\ AB \in Seq(Nat \X Nat)
        BY <2>1, <3>1
      <4> HIDE DEF behind
      <4> QED BY ONLY <4>1
    <3> QED BY ONLY <2>1, <2>2, <3>1, <3>2
  <2>4. \A k \in 1 .. a : k \in 1 .. a + b
    BY <1>4
  <2>5. \A k \in 1 .. b : a + k \in 1 .. a + b
    BY <1>4
  <2> HIDE DEF a, b, n
  <2>6. Len(new) = (a + b) + (n - 1) /\ DOMAIN new = 1 .. (a + b) + (n - 1)
    BY <1>3, <1>4, <2>3, SeqElements
  <2> QED BY <1>3, <2>1, <2>3, <2>4, <2>5, <2>6
<1> HIDE DEF a, b, n, new
<1>6. ASSUME NEW k \in DOMAIN new
      PROVE  \/ i < m /\ k = 1 /\ new[k][1] = i /\ new[k][2] = m - 1
             \/ m < j /\ k = a + 1 /\ new[k][1] = m + 1 /\ new[k][2] = j
             \/ k > a + b /\ (k - (a + b)) + 1 \in 2 .. n /\ new[k] = s[(k - (a + b)) + 1]
  <2>0. k \in Nat /\ 1 <= k /\ k <= (a + b) + (n - 1)
    BY <1>3, <1>4, <1>5
  <2>1. CASE k <= a
    <3>1. k = 1 /\ i < m
      BY <1>1, <1>4, <2>0, <2>1
    <3>2. k \in 1 .. a
      BY <2>0, <2>1, <1>4
    <3> QED BY <1>1, <1>5, <3>1, <3>2
  <2>2. CASE a < k /\ k <= a + b
    <3>1. k = a + 1 /\ m < j
      BY ONLY <1>2, <1>4, <2>0, <2>2
    <3>2. 1 \in 1 .. b
      BY <1>2, <3>1
    <3> QED BY <1>2, <1>5, <3>1, <3>2
  <2>3. CASE a + b < k
    <3>1. k - (a + b) \in 1 .. n - 1 /\ (a + b) + (k - (a + b)) = k
      BY ONLY <1>3, <1>4, <2>0, <2>3
    <3> DEFINE behind == k - (a + b)
    <3>2. behind \in 1 .. n - 1 /\ (a + b) + behind = k
      BY <3>1
    <3> HIDE DEF behind
    <3>3. behind \in 1 .. n - 1 /\ (a + b) + behind = k /\ behind + 1 \in 2 .. n
      BY ONLY <1>3, <3>2
    <3>4. new[(a + b) + behind] = s[behind + 1]
      BY ONLY <1>5, <3>3
    <3>5. k > a + b /\ behind + 1 \in 2 .. n /\ new[k] = s[behind + 1]
      BY ONLY <1>4, <2>0, <2>3, <3>3, <3>4
    <3> QED BY ONLY <3>5 DEF behind
  <2> QED BY <1>4, <2>0, <2>1, <2>2, <2>3
<1>7. \A k \in DOMAIN new :
        \/ i < m /\ new[k][1] = i /\ new[k][2] = m - 1
        \/ m < j /\ new[k][1] = m + 1 /\ new[k][2] = j
        \/ \E l \in DOMAIN s : l /= 1 /\ new[k] = s[l]
  <2>1. \A l \in 2 .. n : l \in DOMAIN s /\ l /= 1
    BY ONLY <1>3
  <2> QED BY <1>6, <2>1
<1>8. \A l \in DOMAIN s : l /= 1 => j < s[l][1] /\ s[l][1] \in Nat /\ s[l][2] \in Nat
  <2>1. TAKE l \in DOMAIN s
  <2>2. s[l] \in Nat \X Nat
    OBVIOUS
  <2>3. 1 \in DOMAIN s /\ (l /= 1 => 1 < l)
    BY <1>3
  <2> QED BY <2>2, <2>3
<1>9. ASSUME NEW k \in DOMAIN new, NEW l \in DOMAIN new, k < l
      PROVE  new[k][2] < new[l][1]
  <2>1. \A x \in 2 .. n : x \in DOMAIN s /\ x /= 1
    BY <1>3
  <2>2. k \in Nat /\ l \in Nat /\ 1 <= k /\ 1 <= l /\ k <= (a + b) + (n - 1) /\ l <= (a + b) + (n - 1)
    <3>1. k \in 1 .. (a + b) + (n - 1) /\ l \in 1 .. (a + b) + (n - 1)
      BY <1>5
    <3> QED BY ONLY <1>3, <1>4, <3>1
  <2>3. CASE k > a + b
    <3>1. l > a + b
      BY <1>4, <1>9, <2>2, <2>3
    <3> DEFINE x == (k - (a + b)) + 1
               y == (l - (a + b)) + 1
    <3>2. x \in 2 .. n /\ y \in 2 .. n /\ new[k] = s[x] /\ new[l] = s[y]
      <4>1. a <= 1 /\ b <= 1 /\ (i < m => a = 1) /\ (m < j => b = 1)
        BY <1>1, <1>2
      <4>2. ~(i < m /\ k = 1) /\ ~(i < m /\ l = 1) /\ ~(m < j /\ k = a + 1) /\ ~(m < j /\ l = a + 1)
        BY ONLY <1>4, <2>2, <2>3, <3>1, <4>1
      <4> QED BY <1>6, <4>2
    <3>3. x < y
      BY <1>4, <1>9, <2>2
    <3> HIDE DEF x, y
    <3> QED BY <2>1, <3>2, <3>3
  <2>4. CASE ~(k > a + b) /\ l > a + b
    <3> DEFINE y == (l - (a + b)) + 1
    <3>1. y \in 2 .. n /\ new[l] = s[y]
      <4>1. a <= 1 /\ b <= 1 /\ (i < m => a = 1) /\ (m < j => b = 1)
        BY <1>1, <1>2
      <4>2. ~(i < m /\ l = 1) /\ ~(m < j /\ l = a + 1)
        BY ONLY <1>4, <2>2, <2>4, <4>1
      <4> QED BY <1>6, <4>2
    <3> HIDE DEF y
    <3>2. j < new[l][1] /\ new[l][1] \in Nat
      BY <1>8, <2>1, <3>1
    <3>3. new[k][2] = m - 1 \/ new[k][2] = j
      BY <1>6, <2>4
    <3> QED BY <3>2, <3>3
  <2>5. CASE ~(k > a + b) /\ ~(l > a + b)
    <3>0. m \in Nat
      OBVIOUS
    <3>1. k = 1 /\ l = 2 /\ a = 1 /\ b = 1
      <4>1. a <= 1 /\ b <= 1
        BY <1>1, <1>2
      <4> QED BY ONLY <1>4, <1>9, <2>2, <2>5, <4>1
    <3>2. new[k] = A[1] /\ new[l] = B[1]
      <4>1. 1 \in 1 .. a /\ 1 \in 1 .. b /\ a + 1 = 2
        BY ONLY <3>1
      <4>2. new[1] = A[1] /\ new[a + 1] = B[1]
        BY ONLY <1>5, <4>1
      <4> QED BY ONLY <3>1, <4>1, <4>2
    <3>3. A[1][2] = m - 1 /\ B[1][1] = m + 1
      BY ONLY <1>1, <1>2, <1>4, <3>1
    <3>4. new[k][2] < new[l][1]
      BY ONLY <3>2, <3>3, <3>0
    <3> QED BY <3>4
  <2> QED BY <2>3, <2>4, <2>5
<1>10. i < m => \E k \in DOMAIN new : new[k][1] = i /\ new[k][2] = m - 1
  <2>1. i < m => 1 \in DOMAIN new /\ 1 \in 1 .. a
    BY <1>1, <1>3, <1>4, <1>5
  <2> QED BY <1>1, <1>5, <2>1
<1>11. m < j => \E k \in DOMAIN new : new[k][1] = m + 1 /\ new[k][2] = j
  <2>1. m < j => a + 1 \in DOMAIN new /\ 1 \in 1 .. b
    BY <1>2, <1>3, <1>4, <1>5
  <2>2. m < j => new[a + 1] = B[1]
    BY <1>5, <2>1
  <2> QED BY <1>2, <2>1, <2>2
<1>12. \A l \in DOMAIN s : l /= 1 => \E k \in DOMAIN new : new[k] = s[l]
  <2>1. ASSUME NEW l \in DOMAIN s, l /= 1 PROVE \E k \in DOMAIN new : new[k] = s[l]
    <3>1. l - 1 \in 1 .. n - 1 /\ (l - 1) + 1 = l
      BY <1>3, <2>1
    <3>2. (a + b) + (l - 1) \in DOMAIN new
      <4> DEFINE first == a + b
                 x == l - 1
      <4>1. first \in Nat /\ x \in 1 .. n - 1 /\ n \in Nat
        BY <1>3, <1>4, <3>1
      <4> HIDE DEF first, x
      <4>2. first + x \in 1 .. first + (n - 1)
        BY ONLY <4>1
      <4> QED BY <1>5, <4>2 DEF first, x
    <3>3. new[(a + b) + (l - 1)] = s[l]
      BY <1>5, <3>1
    <3> QED BY <3>2, <3>3
  <2> QED BY <2>1
<1>13. new \in Seq(Nat \X Nat)
  BY <1>5
<1>14. Splits(new, s, i, j, m)
  BY <1>7, <1>9, <1>10, <1>11, <1>12, <1>13 DEF Splits
<1> QED BY <1>14 DEF new, A, B


\* The median of a range, with an ID between those of its bounds.
LEMMA MedianBetween ==
  ASSUME NEW i \in Nat, NEW j \in Nat, i <= j, NEW lower \in Int, NEW upper \in Int,
         NEW offset \in Nat,
         offset < (Greatest(i, j, upper) - Least(i, j, lower)) + 1
  PROVE  /\ Middle(i, j) \in i .. j
         /\ Least(i, j, lower) + offset \in Int
         /\ lower < Least(i, j, lower) + offset
         /\ Least(i, j, lower) + offset < upper
<1> DEFINE middle == Middle(i, j)
<1>1. middle \in i .. j
  <2>1. (j - i + 1) \div 2 \in 0 .. j - i
    OBVIOUS
  <2> DEFINE half == (j - i + 1) \div 2
  <2>2. middle = i + half
    BY DEF Middle
  <2> HIDE DEF half, middle
  <2> QED BY <2>1, <2>2 DEF half
<1>2. /\ Least(i, j, lower) = (lower + (middle - i)) + 1
      /\ Greatest(i, j, upper) = (upper - (j - middle)) - 1
  BY DEF Least, Greatest
<1> HIDE DEF middle
<1> QED BY <1>1, <1>2 DEF middle

LEMMA DecodeMedianKeepsInv ==
  ASSUME BlockInv, DecodeMedian
  PROVE  BlockInv'
<1> DEFINE i == Head(segments)[1]
           j == Head(segments)[2]
           middle == Middle(i, j)
           value == SegmentLeast + Codeword.offset
<1>1. /\ reading = "docs" /\ codec = "Interpolative" /\ segments /= <<>>
      /\ MedianFits
      /\ docs' = [k \in DOMAIN docs \union {middle} |-> IF k = middle THEN value ELSE docs[k]]
      /\ segments' = Unread(i, middle - 1) \o Unread(middle + 1, j) \o Tail(segments)
      /\ UNCHANGED <<stored, reading, cursor, frequency, positions, decoded>>
  BY DEF DecodeMedian
<1>2. BlockTypes'
  BY <1>1, StoredStays DEF BlockInv
<1>3. NumbersInv'
  BY <1>1 DEF BlockInv, NumbersInv, Increasing
<1>4. Tiled /\ DocsAre /\ count \in Nat /\ ShapeFits(docBlock.last, count) /\ decoded = <<>>
  BY <1>1 DEF BlockInv, BlockTypes, DocsInv
<1>5. /\ i \in Nat /\ j \in Nat /\ 1 <= i /\ i <= j
      /\ i = 1 \/ i - 1 \in DOMAIN docs
      /\ j + 1 \in DOMAIN docs
      /\ \A m \in i .. j : m \notin DOMAIN docs
      /\ segments[1] = <<i, j>>
  <2>1. segments \in Seq(Nat \X Nat)
    BY <1>4 DEF Tiled
  <2>2. 1 \in DOMAIN segments /\ Head(segments) = segments[1] /\ segments[1] \in Nat \X Nat
    BY <1>1, <2>1
  <2> QED BY <1>4, <2>2 DEF Tiled, Within
<1> DEFINE lower == SegmentLower
           upper == docs[j + 1]
<1>6. /\ lower \in Int /\ lower >= -1 /\ (i /= 1 => lower = docs[i - 1])
      /\ upper \in U32
  <2>1. lower = IF i = 1 THEN -1 ELSE docs[i - 1]
    BY DEF SegmentLower
  <2>2. i /= 1 => docs[i - 1] \in U32
    BY <1>4, <1>5 DEF DocsAre
  <2>3. upper \in U32
    BY <1>4, <1>5 DEF DocsAre
  <2> HIDE DEF lower, i, upper
  <2> QED BY <2>1, <2>2, <2>3 DEF U32
<1>7. /\ middle \in i .. j /\ value \in U32
      /\ lower < value /\ value < upper
  <2>1. /\ SegmentLeast = Least(i, j, lower)
        /\ SegmentGreatest = Greatest(i, j, upper)
    BY DEF SegmentLeast, SegmentGreatest, SegmentLower
  <2> DEFINE range == (Greatest(i, j, upper) - Least(i, j, lower)) + 1
  <2>2. Least(i, j, lower) <= Greatest(i, j, upper) /\ Codeword.ok
    BY <1>1, <2>1 DEF MedianFits
  <2>3. Codeword = ReadTruncated(docBlock.bits, docBlock.size, position, range)
    BY <2>1 DEF Codeword
  <2>4. Least(i, j, lower) \in Int /\ Greatest(i, j, upper) \in Int
    <3>1. middle \in Int
      BY <1>5 DEF Middle
    <3>2. upper \in Int
      BY <1>6 DEF U32
    <3> HIDE DEF i, j, lower, upper
    <3> QED BY <1>5, <1>6, <3>1, <3>2 DEF Least, Greatest
  <2>5. range \in Nat \ {0}
    <3> DEFINE a == Least(i, j, lower)
               b == Greatest(i, j, upper)
    <3>1. a \in Int /\ b \in Int /\ a <= b
      BY <2>2, <2>4
    <3> HIDE DEF a, b
    <3>2. (b - a) + 1 \in Nat \ {0}
      BY <3>1
    <3> QED BY <3>2 DEF a, b
  <2> HIDE DEF range
  <2>6. Codeword.offset \in 0 .. range - 1
    BY <2>2, <2>3, <2>5, OffsetInRange
  <2>7. Codeword.offset \in Nat /\ Codeword.offset < range
    BY <2>5, <2>6
  <2>8. upper \in Int
    BY <1>6 DEF U32
  <2> DEFINE offset == Codeword.offset
  <2>9. /\ Middle(i, j) \in i .. j
        /\ Least(i, j, lower) + offset \in Int
        /\ lower < Least(i, j, lower) + offset
        /\ Least(i, j, lower) + offset < upper
    <3>1. offset \in Nat /\ offset < (Greatest(i, j, upper) - Least(i, j, lower)) + 1
      BY <2>7 DEF range
    <3> HIDE DEF i, j, lower, upper, offset
    <3> QED BY <1>5, <1>6, <2>8, <3>1, MedianBetween
  <2>10. value = Least(i, j, lower) + offset
    BY <2>1
  <2>11. middle \in i .. j
    BY <2>9
  <2>12. value \in Int /\ lower < value /\ value < upper
    BY <2>9, <2>10
  <2>13. value \in U32
    <3>1. upper \in Nat /\ upper <= MaxValue /\ MaxValue \in Nat
      BY <1>6, MaxValueIs DEF U32
    <3> HIDE DEF value, lower, upper
    <3> QED BY ONLY <1>6, <2>12, <3>1 DEF U32
  <2> QED BY <2>11, <2>12, <2>13
<1> HIDE DEF value, lower, upper, middle
<1>8. middle \in Nat /\ middle \notin DOMAIN docs
  <2>1. middle \in i .. j
    BY <1>7
  <2> HIDE DEF i, j
  <2> QED BY <1>5, <2>1
<1>9. /\ DOMAIN docs' = DOMAIN docs \union {middle}
      /\ docs'[middle] = value
      /\ \A k \in DOMAIN docs : docs'[k] = docs[k]
  BY <1>1, <1>8
<1>10. DocsAre'
  <2>1. docs' \in [DOMAIN docs' -> U32]
    BY <1>1, <1>4, <1>7 DEF DocsAre
  <2>2. DOMAIN docs' \subseteq Nat
    BY <1>4, <1>8, <1>9 DEF DocsAre
  <2>3. ASSUME NEW k \in DOMAIN docs, k < middle PROVE docs[k] < value
    <3>1. k \in Nat /\ docs[k] \in U32
      BY <1>4 DEF DocsAre
    <3>2. 1 <= k
      BY <1>4 DEF Tiled
    <3>3. k < i
      <4>1. k \notin i .. j /\ middle \in i .. j
        BY <1>5, <1>7
      <4> HIDE DEF i, j
      <4> QED BY <1>5, <2>3, <3>1, <4>1
    <3>4. i /= 1 /\ i - 1 \in DOMAIN docs
      BY <1>5, <3>1, <3>2, <3>3
    <3>5. docs[i - 1] \in U32 /\ docs[i - 1] < value
      BY <1>4, <1>6, <1>7, <3>4 DEF DocsAre
    <3>6. k = i - 1 \/ k < i - 1
      <4> HIDE DEF i
      <4> QED BY <1>5, <3>1, <3>3
    <3>7. k < i - 1 => docs[k] < docs[i - 1]
      BY <1>4, <3>4 DEF DocsAre, Increasing
    <3> QED BY <1>7, <3>1, <3>5, <3>6, <3>7 DEF U32
  <2>4. ASSUME NEW k \in DOMAIN docs, middle < k PROVE value < docs[k]
    <3>1. k \in Nat /\ docs[k] \in U32
      BY <1>4 DEF DocsAre
    <3>2. j < k
      <4>1. k \notin i .. j /\ middle \in i .. j
        BY <1>5, <1>7
      <4> HIDE DEF i, j
      <4> QED BY <1>5, <2>4, <3>1, <4>1
    <3>3. docs[j + 1] \in U32 /\ value < docs[j + 1]
      BY <1>6, <1>7 DEF upper
    <3>4. k = j + 1 \/ j + 1 < k
      <4> HIDE DEF j
      <4> QED BY <1>5, <3>1, <3>2
    <3>5. j + 1 < k => docs[j + 1] < docs[k]
      BY <1>4, <1>5 DEF DocsAre, Increasing
    <3> QED BY <1>7, <3>1, <3>3, <3>4, <3>5 DEF U32
  <2>5. ASSUME NEW k \in DOMAIN docs', NEW l \in DOMAIN docs', k < l PROVE docs'[k] < docs'[l]
    <3>1. k \in Nat /\ l \in Nat
      BY <2>2
    <3>2. CASE k \in DOMAIN docs /\ l \in DOMAIN docs
      BY <1>4, <1>9, <2>5, <3>2 DEF DocsAre, Increasing
    <3>3. CASE k = middle /\ l \in DOMAIN docs
      BY <1>9, <2>4, <2>5, <3>3
    <3>4. CASE k \in DOMAIN docs /\ l = middle
      BY <1>9, <2>3, <2>5, <3>4
    <3>5. ~(k = middle /\ l = middle)
      BY <2>5, <3>1
    <3> QED BY <1>9, <3>2, <3>3, <3>4, <3>5
  <2>6. Increasing(docs)'
    BY <2>5 DEF Increasing
  <2> QED BY <2>1, <2>2, <2>6 DEF DocsAre
<1>11. Tiled'
  <2>1. segments \in Seq(Nat \X Nat) /\ segments[1][1] = i /\ segments[1][2] = j
    BY <1>4, <1>5 DEF Tiled
  <2>2. middle \in i .. j
    BY <1>7
  <2>3. /\ \A k \in DOMAIN segments : segments[k][1] <= segments[k][2]
        /\ \A k, l \in DOMAIN segments : k < l => segments[k][2] < segments[l][1]
    BY <1>4 DEF Tiled
  <2>4. segments' = Unread(i, middle - 1) \o Unread(middle + 1, j) \o Tail(segments)
    BY <1>1 DEF middle
  <2> HIDE DEF i, j
  <2>5. Splits(segments', segments, i, j, middle)
    <3>1. middle \in Nat /\ i <= middle /\ middle <= j
      BY <1>5, <2>2
    <3>2. Splits(Unread(i, middle - 1) \o Unread(middle + 1, j) \o Tail(segments),
                 segments, i, j, middle)
      BY <1>1, <1>5, <2>1, <2>3, <3>1, SplitRanges
    <3> QED BY <2>4, <3>2
  <2>6. ASSUME NEW l \in DOMAIN segments, l /= 1
        PROVE  /\ segments[l] \in Nat \X Nat
               /\ middle < segments[l][1]
               /\ 1 <= segments[l][1] /\ segments[l][1] <= segments[l][2]
               /\ segments[l][1] = 1 \/ segments[l][1] - 1 \in DOMAIN docs'
               /\ segments[l][2] + 1 \in DOMAIN docs'
               /\ \A x \in segments[l][1] .. segments[l][2] : x \notin DOMAIN docs'
    <3>1. /\ segments[l] \in Nat \X Nat
          /\ 1 <= segments[l][1] /\ segments[l][1] <= segments[l][2]
          /\ segments[l][1] = 1 \/ segments[l][1] - 1 \in DOMAIN docs
          /\ segments[l][2] + 1 \in DOMAIN docs
          /\ \A x \in segments[l][1] .. segments[l][2] : x \notin DOMAIN docs
      BY <1>4, <2>1, <2>6 DEF Tiled, Within
    <3>2. segments[1][2] < segments[l][1]
      <4>1. 1 \in DOMAIN segments /\ 1 < l
        BY <1>1, <2>1, <2>6, EmptySeq
      <4> QED BY <2>3, <4>1
    <3>3. segments[l][1] \in Nat /\ segments[l][2] \in Nat
      BY <3>1
    <3>4. middle < segments[l][1]
      BY ONLY <1>5, <2>1, <2>2, <3>2, <3>3
    <3>5. \A x \in segments[l][1] .. segments[l][2] : x /= middle
      BY ONLY <1>8, <3>3, <3>4
    <3> QED BY <1>9, <3>1, <3>4, <3>5
  <2>7. ASSUME NEW k \in DOMAIN segments'
        PROVE  /\ 1 <= segments'[k][1] /\ segments'[k][1] <= segments'[k][2]
               /\ segments'[k][1] = 1 \/ segments'[k][1] - 1 \in DOMAIN docs'
               /\ segments'[k][2] + 1 \in DOMAIN docs'
               /\ \A x \in segments'[k][1] .. segments'[k][2] : x \notin DOMAIN docs'
    <3>1. CASE i < middle /\ segments'[k][1] = i /\ segments'[k][2] = middle - 1
      <4>1. i <= middle - 1 /\ (middle - 1) + 1 = middle
        BY <1>5, <1>8, <3>1
      <4>2. \A x \in i .. middle - 1 : x \in i .. j /\ x /= middle
        BY <1>5, <2>2
      <4> QED BY <1>5, <1>9, <3>1, <4>1, <4>2
    <3>2. CASE middle < j /\ segments'[k][1] = middle + 1 /\ segments'[k][2] = j
      <4>1. 1 <= middle + 1 /\ middle + 1 <= j /\ (middle + 1) - 1 = middle
        BY <1>5, <1>8, <2>2, <3>2
      <4>2. \A x \in middle + 1 .. j : x \in i .. j /\ x /= middle
        BY <1>5, <2>2
      <4> QED BY <1>5, <1>9, <3>2, <4>1, <4>2
    <3>3. CASE \E l \in DOMAIN segments : l /= 1 /\ segments'[k] = segments[l]
      BY <2>6, <3>3
    <3> QED BY <2>5, <3>1, <3>2, <3>3 DEF Splits
  <2>8. ASSUME NEW x \in 1 .. count, x \notin DOMAIN docs'
        PROVE  \E k \in DOMAIN segments' : x \in segments'[k][1] .. segments'[k][2]
    <3>1. x \notin DOMAIN docs /\ x /= middle
      BY <1>9, <2>8
    <3>2. PICK l \in DOMAIN segments : x \in segments[l][1] .. segments[l][2]
      BY <1>4, <3>1 DEF Tiled, Within
    <3>3. CASE l /= 1
      <4>1. \E k \in DOMAIN segments' : segments'[k] = segments[l]
        BY <2>5, <3>3 DEF Splits
      <4> QED BY <3>2, <4>1
    <3>4. CASE l = 1 /\ x < middle
      <4>1. i < middle /\ x \in i .. middle - 1
        BY <1>5, <1>8, <2>1, <2>2, <3>2, <3>4
      <4>2. \E k \in DOMAIN segments' : segments'[k][1] = i /\ segments'[k][2] = middle - 1
        BY <2>5, <4>1 DEF Splits
      <4> QED BY <4>1, <4>2
    <3>5. CASE l = 1 /\ x > middle
      <4>1. middle < j /\ x \in middle + 1 .. j
        BY <1>5, <1>8, <2>1, <2>2, <3>2, <3>5
      <4>2. \E k \in DOMAIN segments' : segments'[k][1] = middle + 1 /\ segments'[k][2] = j
        BY <2>5, <4>1 DEF Splits
      <4> QED BY <4>1, <4>2
    <3>6. x < middle \/ x > middle
      BY <1>8, <3>1
    <3> QED BY <3>3, <3>4, <3>5, <3>6
  <2>9. DOMAIN docs' \subseteq 1 .. count
    <3>1. j < count /\ count \in Nat
      <4>1. DOMAIN docs \subseteq 1 .. count
        BY <1>4 DEF Tiled
      <4> QED BY <1>4, <1>5, <4>1
    <3>2. middle \in 1 .. count
      BY <1>5, <2>2, <3>1
    <3> QED BY <1>4, <1>9, <3>2 DEF Tiled
  <2>10. /\ segments' \in Seq(Nat \X Nat)
         /\ \A k, l \in DOMAIN segments' : k < l => segments'[k][2] < segments'[l][1]
    BY <2>5 DEF Splits
  <2>11. count' = count
    BY <1>1 DEF stored
  <2>12. /\ \A k \in DOMAIN segments' :
             /\ 1 <= segments'[k][1] /\ segments'[k][1] <= segments'[k][2]
             /\ segments'[k][1] = 1 \/ segments'[k][1] - 1 \in DOMAIN docs'
             /\ segments'[k][2] + 1 \in DOMAIN docs'
             /\ \A x \in segments'[k][1] .. segments'[k][2] : x \notin DOMAIN docs'
         /\ \A x \in 1 .. count' :
              x \in DOMAIN docs' \/ \E k \in DOMAIN segments' : x \in segments'[k][1] .. segments'[k][2]
    BY <2>7, <2>8, <2>11
  <2> QED BY <2>9, <2>10, <2>11, <2>12 DEF Tiled, Within
<1>12. DocsInv'
  <2>1. UNCHANGED <<codec, count, docBlock>>
    BY <1>1 DEF stored
  <2> QED BY <1>1, <1>4, <1>10, <1>11, <2>1 DEF DocsInv
<1> QED BY <1>2, <1>3, <1>12 DEF BlockInv



LEMMA BlockStepKeepsInv ==
  ASSUME BlockInv, [DecoderNext]_(decoderVars)
  PROVE  BlockInv'
<1>1. CASE Open
  BY <1>1, OpenKeepsInv
<1>2. CASE DecodeElias
  BY <1>2, DecodeEliasKeepsInv
<1>3. CASE DecodeMedian
  BY <1>3, DecodeMedianKeepsInv
<1>4. CASE FinishDocs
  BY <1>4, FinishDocsKeepsInv
<1>5. CASE ReadGap
  BY <1>5, ReadGapKeepsInv
<1>6. CASE ReadFrequency
  BY <1>6, ReadFrequencyKeepsInv
<1>7. CASE ReadPosition
  BY <1>7, ReadPositionKeepsInv
<1>8. CASE PushPosting
  BY <1>8, PushPostingKeepsInv
<1>9. CASE Accept \/ RefuseBlock \/ UNCHANGED decoderVars
  BY <1>9, EndKeepsInv
<1> QED BY <1>1, <1>2, <1>3, <1>4, <1>5, <1>6, <1>7, <1>8, <1>9 DEF DecoderNext

LEMMA BlockInvIsValid ==
  ASSUME BlockInv
  PROVE  DecodedIsValid
<1>1. /\ \A i \in DOMAIN docs : docs[i] \in 0 .. MaxValue
      /\ Increasing(docs) /\ Increasing(positions)
  BY DEF BlockInv, NumbersInv, DocsInv, DocsAre, U32
<1>2. ASSUME NEW i \in DOMAIN decoded PROVE decoded[i].positions \in ValidPositions
  <2>1. decoded \in Seq([doc : U32, positions : ValidPositions])
    BY DEF BlockInv, NumbersInv
  <2> DEFINE Posting == [doc : U32, positions : ValidPositions]
  <2> HIDE DEF Posting
  <2>2. decoded[i] \in Posting
    BY <2>1, SeqElements DEF Posting
  <2> QED BY <2>2 DEF Posting
<1>3. ASSUME NEW i \in DOMAIN decoded
      PROVE  /\ decoded[i].positions /= <<>>
             /\ Len(decoded[i].positions) <= MaxPositions
             /\ Increasing(decoded[i].positions)
             /\ \A p \in DOMAIN decoded[i].positions :
                  decoded[i].positions[p] \in 0 .. MaxValue
  <2> DEFINE p == decoded[i].positions
  <2>1. p \in ValidPositions
    BY <1>2
  <2> HIDE DEF p
  <2>2. p \in Seq(U32) /\ p /= <<>> /\ Len(p) <= MaxPositions /\ Increasing(p)
    BY <2>1 DEF ValidPositions
  <2>3. \A k \in DOMAIN p : p[k] \in U32
    BY <2>2
  <2> QED BY <2>2, <2>3 DEF p, U32
<1>4. reading = "done" => DOMAIN docs = 1 .. count /\ Len(decoded) = count
  BY DEF BlockInv, DocsInv
<1> QED BY <1>1, <1>3, <1>4 DEF DecodedIsValid

\* Whatever bytes a decoder of codec.rs is given, the document IDs it has found at any
\* moment, and the positions, are increasing u32 values; a posting it delivers has as many
\* positions as its frequency allows; and a block it accepts has the declared postings.
THEOREM DecodersTrustNothing ==
  DecoderSpec => []DecodedIsValid
<1>1. DecoderInit => BlockInv
  BY StartIsValid
<1>2. BlockInv /\ [DecoderNext]_(decoderVars) => BlockInv'
  BY BlockStepKeepsInv
<1>3. BlockInv => DecodedIsValid
  BY BlockInvIsValid
<1> QED BY <1>1, <1>2, <1>3, PTL DEF DecoderSpec

-----------------------------------------------------------------------------
\* What an encoder wrote is read back: numbers, Elias-Fano, medians, and the blocks.


LEMMA ModSplit ==
  ASSUME NEW v \in Nat, NEW a \in Nat \ {0}, NEW b \in Nat \ {0}
  PROVE  /\ v % (a * b) = (v % a) + ((v \div a) % b) * a
         /\ a * b \in Nat \ {0}
<1>1. PICK q \in Nat, r \in 0 .. a - 1 : q = v \div a /\ r = v % a /\ v = q * a + r
  BY Division
<1>2. PICK s \in Nat, t \in 0 .. b - 1 : s = q \div b /\ t = q % b /\ q = s * b + t
  BY Division
<1>3. PICK n \in Nat : n = a * b
  OBVIOUS
<1>4. n /= 0
  BY <1>3
<1>5. v = s * n + (t * a + r)
  <2>1. q * a = (s * b + t) * a
    BY <1>2
  <2>2. (s * b + t) * a = (s * b) * a + t * a
    OBVIOUS
  <2>3. (s * b) * a = s * n
    BY <1>3
  <2>4. s * n \in Nat /\ t * a \in Nat
    OBVIOUS
  <2> QED BY <1>1, <2>1, <2>2, <2>3, <2>4
<1>6. t * a + r \in 0 .. n - 1
  <2>1. PICK c \in Nat : b = t + 1 + c
    <3>1. b - t - 1 \in Nat /\ b = t + 1 + (b - t - 1)
      OBVIOUS
    <3> QED BY <3>1
  <2>2. n = t * a + a + c * a /\ c * a \in Nat /\ t * a \in Nat
    BY <1>3, <2>1
  <2> QED BY <2>2
<1>7. PICK m \in Nat, u \in 0 .. n - 1 : u = v % n /\ v = m * n + u
  <2>1. v % n \in 0 .. n - 1 /\ v \div n \in Nat /\ v = (v \div n) * n + (v % n)
    BY <1>4, Division
  <2> QED BY <2>1
<1>8. u = t * a + r
  <2>1. PICK x \in 0 .. n - 1 : x = t * a + r
    BY <1>6
  <2>2. n \in Nat \ {0} /\ s * n + x = m * n + u
    BY <1>4, <1>5, <1>7, <2>1
  <2>3. x = u
    BY ONLY <2>2, s \in Nat, m \in Nat, x \in 0 .. n - 1, u \in 0 .. n - 1, DivisionIsUnique
  <2> QED BY ONLY <2>1, <2>3
<1>9. v % (a * b) = u /\ v % a = r /\ ((v \div a) % b) = t
  BY ONLY <1>1, <1>2, <1>3, <1>7
<1>10. u = r + t * a
  <2>1. t * a \in Int
    OBVIOUS
  <2> QED BY ONLY <1>8, <2>1, r \in 0 .. a - 1
<1> QED BY ONLY <1>3, <1>4, <1>9, <1>10, n \in Nat

\* Digits of a number in a base, weighted by their places, add up to what is left of it below.
Digits(u, v, g, base, n) ==
  /\ base[0] = 1
  /\ \A k \in 0 .. n : base[k] \in Nat \ {0}
  /\ \A k \in 1 .. n : base[k] = base[k - 1] * g
  /\ \A i \in 1 .. n : u[i] = ((v \div base[i - 1]) % g) * base[i - 1]

LEMMA DigitsAdd ==
  ASSUME NEW n \in Nat, NEW v \in Nat, NEW g \in Nat \ {0}, NEW base, NEW u, Digits(u, v, g, base, n)
  PROVE  UpTo(u, n) = v % base[n]
<1>0. /\ base[0] = 1
      /\ \A k \in 0 .. n : base[k] \in Nat \ {0}
      /\ \A k \in 1 .. n : base[k] = base[k - 1] * g
      /\ \A i \in 1 .. n : u[i] = ((v \div base[i - 1]) % g) * base[i - 1]
  BY DEF Digits
<1>1. \A i \in 1 .. n : u[i] \in Int
  <2> TAKE i \in 1 .. n
  <2>1. i - 1 \in 0 .. n
    OBVIOUS
  <2>2. PICK b \in Nat \ {0} : b = base[i - 1]
    BY <1>0, <2>1
  <2>3. PICK w \in Nat : w = v \div b
    BY Division
  <2>4. PICK d \in Nat : d = w % g
    BY ONLY w \in Nat, g \in Nat \ {0}, Division
  <2>5. u[i] = d * b
    BY <1>0, <2>2, <2>3, <2>4
  <2> QED BY ONLY <2>5, b \in Nat, d \in Nat
<1>2. UpTo(u, 0) = 0 /\ \A k \in 1 .. n : UpTo(u, k) = UpTo(u, k - 1) + u[k]
  BY <1>1, UpToNext
<1> DEFINE Bad == {k \in 0 .. n : UpTo(u, k) /= v % base[k]}
<1>3. ASSUME NEW k \in Bad PROVE \E l \in Bad : ~(k <= l)
  <2>1. CASE k = 0
    <3>1. v % 1 = 0
      OBVIOUS
    <3> QED BY <1>0, <1>2, <2>1, <3>1
  <2>2. CASE k /= 0 /\ k - 1 \in Bad
    BY <2>2
  <2>3. CASE k /= 0 /\ k - 1 \notin Bad
    <3>1. k \in 1 .. n /\ k - 1 \in 0 .. n
      BY <2>3
    <3>2. PICK b \in Nat \ {0} : b = base[k - 1]
      BY <1>0, <3>1
    <3>3. base[k] = b * g /\ u[k] = ((v \div b) % g) * b
      BY <1>0, <3>1, <3>2
    <3>4. UpTo(u, k - 1) = v % b
      BY <2>3, <3>1, <3>2
    <3>5. v % (b * g) = (v % b) + ((v \div b) % g) * b
      BY ONLY v \in Nat, b \in Nat \ {0}, g \in Nat \ {0}, ModSplit
    <3>6. UpTo(u, k) = UpTo(u, k - 1) + u[k]
      BY <1>2, <3>1
    <3>7. UpTo(u, k) = v % base[k]
      BY ONLY <3>3, <3>4, <3>5, <3>6
    <3> QED BY <3>7
  <2> QED BY <2>1, <2>2, <2>3
<1>4. Bad = {}
  <2>1. Bad \in SUBSET Nat
    OBVIOUS
  <2> HIDE DEF Bad
  <2> QED BY <1>3, <2>1, LeastNatural
<1> QED BY <1>4


LEMMA PowersAdd ==
  ASSUME NEW m \in Nat, NEW n \in Nat
  PROVE  Pow2[m + n] = Pow2[m] * Pow2[n]
<1> DEFINE Bad == {k \in Nat : Pow2[m + k] /= Pow2[m] * Pow2[k]}
<1>1. ASSUME NEW k \in Bad PROVE \E l \in Bad : ~(k <= l)
  <2>1. Pow2[m] \in Nat /\ Pow2[k] \in Nat
    BY PowersGrow
  <2>2. k /= 0
    <3>1. SUFFICES ASSUME k = 0 PROVE Pow2[m + k] = Pow2[m] * Pow2[k]
      OBVIOUS
    <3>2. m + k = m /\ Pow2[k] = 1
      BY <3>1, PowersDouble
    <3> QED BY <2>1, <3>2
  <2>3. k - 1 \in Nat /\ m + k \in Nat \ {0} /\ (m + k) - 1 = m + (k - 1) /\ k \in Nat \ {0}
    BY <2>2
  <2>4. Pow2[k] = 2 * Pow2[k - 1] /\ Pow2[m + k] = 2 * Pow2[m + (k - 1)]
    BY <2>3, PowersDouble
  <2>5. PICK a \in Nat, b \in Nat : a = Pow2[m] /\ b = Pow2[k - 1]
    BY <2>3, PowersGrow
  <2>6. k - 1 \in Bad
    <3>1. SUFFICES ASSUME Pow2[m + (k - 1)] = a * b PROVE Pow2[m + k] = Pow2[m] * Pow2[k]
      BY <2>3, <2>5
    <3>2. 2 * (a * b) = a * (2 * b)
      OBVIOUS
    <3> QED BY ONLY <2>4, <2>5, <3>1, <3>2
  <2> QED BY <2>3, <2>6
<1>2. Bad = {}
  <2>1. Bad \in SUBSET Nat
    OBVIOUS
  <2> HIDE DEF Bad
  <2> QED BY <1>1, <2>1, LeastNatural
<1> QED BY <1>2

-----------------------------------------------------------------------------
\* What was encoded is decoded: numbers.

Digit(value, i) == (value \div Pow2[GroupBits * (i - 1)]) % Group

LEMMA NumberIs ==
  ASSUME NEW value \in 0 .. MaxValue
  PROVE  /\ Group \in Nat \ {0}
         /\ \E s \in 1 .. Groups :
              /\ Len(EncodeNumber(value)) = s
              /\ value < Pow2[GroupBits * s]
              /\ \A i \in 1 .. s :
                   /\ Digit(value, i) \in 0 .. Group - 1
                   /\ EncodeNumber(value)[i] = Digit(value, i) + (IF i < s THEN Group ELSE 0)
<1> DEFINE sizes == {n \in 1 .. Groups : value < Pow2[GroupBits * n]}
           size == Min(sizes)
<1>0. MaxValue < Pow2[GroupBits * Groups] /\ MaxValue \in Nat
  BY MaxValueIs
<1>1. Groups \in sizes
  <2>2. GroupBits * Groups \in Nat /\ Groups \in 1 .. Groups
    BY VarByteAssumption
  <2>3. Pow2[GroupBits * Groups] \in Nat
    BY <2>2, PowersGrow
  <2> QED BY <1>0, <2>2, <2>3
<1>2. size \in sizes
  <2>1. IsFiniteSet(1 .. Groups)
    BY FS_Interval, VarByteAssumption
  <2>2. sizes \subseteq 1 .. Groups /\ 1 .. Groups \subseteq Int
    OBVIOUS
  <2> HIDE DEF sizes
  <2>3. IsFiniteSet(sizes) /\ sizes \in SUBSET Int
    BY <2>1, <2>2, FS_Subset
  <2> QED BY <1>1, <2>3, MinOfFinite
<1>3. Group \in Nat \ {0}
  BY PowersGrow, VarByteAssumption DEF Group
<1>4. size \in 1 .. Groups /\ value < Pow2[GroupBits * size]
  BY <1>2
<1>5. ASSUME NEW i \in 1 .. size PROVE Digit(value, i) \in 0 .. Group - 1
  <2>1. GroupBits * (i - 1) \in Nat
    BY VarByteAssumption
  <2>2. PICK b \in Nat \ {0} : b = Pow2[GroupBits * (i - 1)]
    BY <2>1, PowersGrow
  <2>3. value \in Nat
    BY <1>0
  <2>4. PICK q \in Nat : q = value \div b
    BY <2>3, Division
  <2> QED BY <1>3, <2>2, <2>4, Division DEF Digit
<1>6. EncodeNumber(value) = [i \in 1 .. size |-> Digit(value, i) + (IF i < size THEN Group ELSE 0)]
  BY DEF EncodeNumber, Digit
<1> HIDE DEF size
<1>7. ASSUME NEW i \in 1 .. size
      PROVE  Digit(value, i) + (IF i < size THEN Group ELSE 0) \in Nat
  BY <1>3, <1>4, <1>5
<1>8. Len(EncodeNumber(value)) = size
  <2>1. EncodeNumber(value) \in [1 .. size -> Nat]
    BY <1>6, <1>7
  <2> QED BY <1>4, <2>1, FunctionIsSeq
<1> QED BY <1>3, <1>4, <1>5, <1>6, <1>8


\* A code stands in a block after `start`.
Coded(block, start, code) ==
  /\ start + Len(code) <= Len(block)
  /\ \A i \in 1 .. Len(code) : block[start + i] = code[i]

LEMMA NumberReadsBack ==
  ASSUME NEW value \in 0 .. MaxValue, NEW block \in Seq(Nat), NEW start \in Nat,
         Coded(block, start, EncodeNumber(value))
  PROVE  /\ DecodeNumber(block, start).ok
         /\ DecodeNumber(block, start).value = value
         /\ DecodeNumber(block, start).next = start + Len(EncodeNumber(value))
         /\ Len(EncodeNumber(value)) \in Nat \ {0}
<1>1. /\ Group \in Nat \ {0} /\ value \in Nat
      /\ Groups \in Nat /\ GroupBits \in Nat /\ TopBits \in Nat
  BY NumberIs, MaxValueIs, VarByteAssumption
<1>2. PICK size \in 1 .. Groups :
        /\ Len(EncodeNumber(value)) = size
        /\ value < Pow2[GroupBits * size]
        /\ \A i \in 1 .. size :
             /\ Digit(value, i) \in 0 .. Group - 1
             /\ EncodeNumber(value)[i] = Digit(value, i) + (IF i < size THEN Group ELSE 0)
  BY NumberIs
<1>3. /\ start + size <= Len(block)
      /\ \A i \in 1 .. size : block[start + i] = Digit(value, i) + (IF i < size THEN Group ELSE 0)
  BY <1>2 DEF Coded
<1> DEFINE ends == {n \in 1 .. Groups : start + n <= Len(block) /\ block[start + n] < Group}
           Byte(i) == (block[start + i] % Group) * Pow2[GroupBits * (i - 1)]
           total == SumFunction([i \in 1 .. size |-> Byte(i)])
<1>4. Min(ends) = size /\ ends /= {}
  <2>1. size \in ends
    <3>1. size \in 1 .. size /\ ~(size < size)
      OBVIOUS
    <3> QED BY <1>1, <1>2, <1>3, <3>1
  <2>2. \A n \in ends : size <= n
    <3>1. TAKE n \in ends
    <3>2. SUFFICES ASSUME n < size PROVE FALSE
      OBVIOUS
    <3>3. n \in 1 .. size /\ Digit(value, n) \in Nat /\ block[start + n] = Digit(value, n) + Group
      BY <1>2, <1>3, <3>2
    <3> QED BY <1>1, <3>3
  <2>3. IsFiniteSet(1 .. Groups)
    BY <1>1, FS_Interval
  <2>4. ends \subseteq 1 .. Groups /\ 1 .. Groups \subseteq Int
    OBVIOUS
  <2> HIDE DEF ends
  <2>5. IsFiniteSet(ends) /\ ends \in SUBSET Int
    BY <2>3, <2>4, FS_Subset
  <2>6. Min(ends) \in ends /\ Min(ends) <= size
    BY <2>1, <2>5, MinOfFinite
  <2>7. size <= Min(ends) /\ Min(ends) \in Int /\ size \in Int
    BY <2>2, <2>4, <2>6
  <2> QED BY ONLY <2>1, <2>6, <2>7
<1>5. ~(size = Groups /\ block[start + size] >= Pow2[TopBits])
  <2> SUFFICES ASSUME size = Groups PROVE block[start + size] < Pow2[TopBits]
    <3>1. Pow2[TopBits] \in Nat
      BY <1>1, PowersGrow
    <3>2. size \in 1 .. size /\ ~(size < size)
      OBVIOUS
    <3>3. Digit(value, size) \in Nat /\ block[start + size] = Digit(value, size)
      BY <1>2, <1>3, <3>2
    <3> QED BY <3>1, <3>3
  <2>1. size \in 1 .. size /\ ~(size < size)
    OBVIOUS
  <2>2. block[start + size] = Digit(value, size) /\ Digit(value, size) \in Nat
    BY <1>2, <1>3, <2>1
  <2> DEFINE low == GroupBits * (Groups - 1)
  <2>3. low \in Nat
    BY <1>1
  <2>4. Pow2[low + TopBits] = Pow2[low] * Pow2[TopBits] /\ MaxValue = Pow2[low + TopBits] - 1
    <3>1. MaxValue = Pow2[low + TopBits] - 1
      BY DEF MaxValue
    <3> HIDE DEF low
    <3>2. Pow2[low + TopBits] = Pow2[low] * Pow2[TopBits]
      BY <1>1, <2>3, PowersAdd
    <3> QED BY <3>1, <3>2
  <2> HIDE DEF low
  <2>5. PICK b \in Nat \ {0}, t \in Nat : b = Pow2[low] /\ t = Pow2[TopBits]
    BY <1>1, <2>3, PowersGrow
  <2>6. value < b * t
    <3>1. b * t \in Nat
      OBVIOUS
    <3>2. value <= MaxValue /\ MaxValue = b * t - 1
      BY <1>1, <2>4, <2>5, MaxValueIs
    <3> QED BY ONLY <1>1, <3>1, <3>2
  <2>7. PICK q \in Nat, r \in 0 .. b - 1 : q = value \div b /\ value = q * b + r
    BY ONLY <1>1, b \in Nat \ {0}, Division
  <2>8. q < t
    <3>1. SUFFICES ASSUME t <= q PROVE FALSE
      OBVIOUS
    <3>2. PICK d \in Nat : q = t + d
      <4>1. q - t \in Nat /\ q = t + (q - t)
        BY <3>1
      <4> QED BY <4>1
    <3>3. q * b = b * t + d * b /\ d * b \in Nat /\ b * t \in Nat
      BY <3>2
    <3> QED BY ONLY <2>6, <2>7, <3>3, value \in Nat, r \in 0 .. b - 1
  <2>9. Digit(value, size) <= q
    <3>1. Digit(value, size) = q % Group
      BY <2>5, <2>7 DEF Digit, low
    <3>2. q % Group <= q
      <4>1. PICK y \in Nat, g \in Nat : q = y + g /\ g = q % Group
        <5>1. /\ (q \div Group) * Group \in Nat /\ (q % Group) \in Nat
              /\ q = (q \div Group) * Group + (q % Group)
          <6>1. q % Group \in Nat /\ q \div Group \in Nat /\ q = (q \div Group) * Group + (q % Group)
            <7>1. q % Group \in 0 .. Group - 1 /\ q \div Group \in Nat /\ q = (q \div Group) * Group + (q % Group)
              BY ONLY <1>1, q \in Nat, Division
            <7>2. \A x \in 0 .. Group - 1 : x \in Nat
              BY ONLY <1>1
            <7> QED BY ONLY <7>1, <7>2
          <6>2. PICK x \in Nat : x = q \div Group
            BY <6>1
          <6>3. x * Group \in Nat
            BY <1>1
          <6> QED BY ONLY <6>1, <6>2, <6>3
        <5> QED BY ONLY <5>1
      <4> QED BY ONLY <4>1
    <3> QED BY <3>1, <3>2
  <2> QED BY <2>2, <2>5, <2>8, <2>9
<1>6. total = value
  <2> DEFINE u == [i \in 1 .. size |-> Byte(i)]
             base == [k \in 0 .. size |-> Pow2[GroupBits * k]]
  <2>1. \A k \in 0 .. size : base[k] \in Nat \ {0}
    <3> TAKE k \in 0 .. size
    <3>1. GroupBits * k \in Nat
      BY <1>1
    <3> QED BY <3>1, PowersGrow
  <2>2. base[0] = 1
    BY <1>1, PowersDouble
  <2>3. \A k \in 1 .. size : base[k] = base[k - 1] * Group
    <3> TAKE k \in 1 .. size
    <3>1. GroupBits * (k - 1) \in Nat /\ GroupBits * k = GroupBits * (k - 1) + GroupBits
      BY <1>1
    <3>2. Pow2[GroupBits * k] = Pow2[GroupBits * (k - 1)] * Pow2[GroupBits]
      BY <1>1, <3>1, PowersAdd
    <3> QED BY <3>2 DEF Group
  <2>4. \A i \in 1 .. size : u[i] = ((value \div base[i - 1]) % Group) * base[i - 1]
    <3> TAKE i \in 1 .. size
    <3>1. block[start + i] % Group = Digit(value, i)
      <4>1. PICK d \in 0 .. Group - 1 : d = Digit(value, i)
        BY <1>2
      <4>2. block[start + i] = d \/ block[start + i] = d + Group
        BY <1>3, <4>1
      <4>3. d % Group = d /\ (d + Group) % Group = d
        BY <1>1
      <4> QED BY <4>1, <4>2, <4>3
    <3>2. u[i] = (block[start + i] % Group) * Pow2[GroupBits * (i - 1)]
      OBVIOUS
    <3>3. base[i - 1] = Pow2[GroupBits * (i - 1)]
      OBVIOUS
    <3> QED BY ONLY <3>1, <3>2, <3>3 DEF Digit
  <2>5. value < base[size]
    BY <1>2
  <2>6. total = UpTo(u, size)
    BY DEF UpTo
  <2> HIDE DEF u, base, total
  <2>7. UpTo(u, size) = value % base[size]
    <3>1. Digits(u, value, Group, base, size)
      BY <2>1, <2>2, <2>3, <2>4 DEF Digits
    <3>2. size \in Nat
      OBVIOUS
    <3> QED BY ONLY <1>1, <3>1, <3>2, DigitsAdd
  <2>8. value % base[size] = value
    <3>1. PICK b \in Nat \ {0} : b = base[size]
      BY <2>1
    <3>2. value \in 0 .. b - 1
      BY <1>1, <2>5, <3>1
    <3>3. value % b = value
      BY ONLY <3>2, b \in Nat \ {0}
    <3> QED BY ONLY <3>1, <3>3
  <2> QED BY <2>6, <2>7, <2>8
<1>7. DecodeNumber(block, start) = [ok |-> TRUE, value |-> total, next |-> start + size]
  <2> HIDE DEF ends
  <2> QED BY <1>4, <1>5 DEF DecodeNumber, ends
<1> HIDE DEF total
<1> QED BY <1>2, <1>6, <1>7

\* A code in a code.
LEMMA CodedWithin ==
  ASSUME NEW block, NEW code, NEW part, NEW s \in Nat, NEW t \in Nat,
         Len(block) \in Nat, Len(code) \in Nat, Len(part) \in Nat,
         Coded(block, s, code), Coded(code, t, part)
  PROVE  Coded(block, s + t, part)
<1>1. /\ s + Len(code) <= Len(block) /\ t + Len(part) <= Len(code)
      /\ \A i \in 1 .. Len(code) : block[s + i] = code[i]
      /\ \A i \in 1 .. Len(part) : code[t + i] = part[i]
  BY DEF Coded
<1>2. (s + t) + Len(part) <= Len(block)
  BY <1>1
<1>3. ASSUME NEW i \in 1 .. Len(part) PROVE block[(s + t) + i] = part[i]
  <2>1. t + i \in 1 .. Len(code) /\ s + (t + i) = (s + t) + i
    BY <1>1
  <2> QED BY <1>1, <2>1
<1> QED BY <1>2, <1>3 DEF Coded

LEMMA Concatenated ==
  ASSUME NEW S, NEW a \in Seq(S), NEW b \in Seq(S)
  PROVE  /\ a \o b \in Seq(S) /\ Len(a \o b) = Len(a) + Len(b)
         /\ \A i \in 1 .. Len(a) : (a \o b)[i] = a[i]
         /\ \A i \in 1 .. Len(b) : (a \o b)[Len(a) + i] = b[i]
         /\ Len(a) \in Nat /\ Len(b) \in Nat
OBVIOUS

LEMMA CodedInBoth ==
  ASSUME NEW S, NEW a \in Seq(S), NEW b \in Seq(S)
  PROVE  /\ a \o b \in Seq(S) /\ Len(a \o b) = Len(a) + Len(b)
         /\ Coded(a \o b, 0, a)
         /\ Coded(a \o b, Len(a), b)
<1>1. /\ a \o b \in Seq(S) /\ Len(a \o b) = Len(a) + Len(b)
      /\ \A i \in 1 .. Len(a) : (a \o b)[i] = a[i]
      /\ \A i \in 1 .. Len(b) : (a \o b)[Len(a) + i] = b[i]
      /\ Len(a) \in Nat /\ Len(b) \in Nat
  BY Concatenated
<1> DEFINE both == a \o b
<1>2. \A i \in 1 .. Len(a) : both[0 + i] = a[i]
  BY <1>1
<1> HIDE DEF both
<1>3. Coded(both, 0, a) /\ Coded(both, Len(a), b)
  BY <1>1, <1>2 DEF Coded, both
<1> QED BY <1>1, <1>3 DEF both

\* Sequences in a sequence stand one after another.
LEMMA FlattenedIs ==
  ASSUME NEW S, NEW seqs \in Seq(Seq(S)), NEW sizes,
         \A k \in 1 .. Len(seqs) : sizes[k] = Len(seqs[k])
  PROVE  /\ FlattenSeq(seqs) \in Seq(S)
         /\ Len(FlattenSeq(seqs)) = UpTo(sizes, Len(seqs))
         /\ \A k \in 1 .. Len(seqs) : Coded(FlattenSeq(seqs), UpTo(sizes, k - 1), seqs[k])
<1> DEFINE n == Len(seqs)
           f == CHOOSE f : Flattens(f, seqs, n)
           Good(k) == /\ f[k] \in Seq(S) /\ Len(f[k]) = UpTo(sizes, k)
                      /\ \A l \in 1 .. k : Coded(f[k], UpTo(sizes, l - 1), seqs[l])
           Bad == {k \in 1 .. n : ~Good(k)}
<1>1. n \in Nat /\ (n /= 0 => Flattens(f, seqs, n))
  <2>1. n \in Nat
    OBVIOUS
  <2>2. n /= 0 => \E g : Flattens(g, seqs, n)
    <3> HIDE DEF n
    <3> QED BY <2>1, FlattenedExists
  <2> QED BY <2>1, <2>2
<1>2. FlattenSeq(seqs) = IF n = 0 THEN seqs ELSE f[n]
  BY DEF FlattenSeq, Flattens
<1>3. \A k \in 1 .. n : seqs[k] \in Seq(S) /\ Len(seqs[k]) \in Nat /\ sizes[k] = Len(seqs[k])
  OBVIOUS
<1>4. /\ UpTo(sizes, 0) = 0
      /\ \A k \in 0 .. n : UpTo(sizes, k) \in Nat
      /\ \A k \in 1 .. n : UpTo(sizes, k) = UpTo(sizes, k - 1) + sizes[k]
  <2> HIDE DEF n
  <2>1. \A k \in 1 .. n : sizes[k] \in Nat /\ sizes[k] \in Int
    <3> TAKE k \in 1 .. n
    <3>1. Len(seqs[k]) \in Nat /\ sizes[k] = Len(seqs[k])
      BY <1>3
    <3> QED BY ONLY <3>1
  <2> QED BY <1>1, <2>1, UpToNext, UpToGrows
<1> HIDE DEF n, f
<1>5. ASSUME NEW k \in Bad PROVE \E l \in Bad : ~(k <= l)
  <2>1. k \in 1 .. n /\ seqs[k] \in Seq(S) /\ n /= 0
    BY <1>1, <1>3
  <2>2. f[k] = IF k = 1 THEN seqs[k] ELSE f[k - 1] \o seqs[k]
    BY <1>1, <2>1 DEF Flattens
  <2>3. k /= 1
    <3>1. SUFFICES ASSUME k = 1 PROVE Good(1)
      OBVIOUS
    <3>2. f[1] = seqs[1] /\ f[1] \in Seq(S) /\ Len(f[1]) = UpTo(sizes, 1) /\ UpTo(sizes, 1 - 1) = 0
      BY <1>3, <1>4, <2>1, <2>2, <3>1
    <3>3. Coded(f[1], 0, seqs[1])
      <4>1. Len(f[1]) \in Nat
        BY <3>2
      <4> QED BY <3>2, <4>1 DEF Coded
    <3>4. \A l \in 1 .. 1 : l = 1
      OBVIOUS
    <3> QED BY <3>2, <3>3, <3>4
  <2>4. k - 1 \in 1 .. n
    BY <1>1, <2>1, <2>3
  <2>5. ~Good(k - 1)
    <3>1. SUFFICES ASSUME Good(k - 1) PROVE Good(k)
      OBVIOUS
    <3>2. PICK a \in Seq(S), b \in Seq(S) : a = f[k - 1] /\ b = seqs[k]
      BY <2>1, <3>1
    <3>3. f[k] = a \o b /\ Len(a) = UpTo(sizes, k - 1) /\ sizes[k] = Len(b)
      BY <1>3, <2>1, <2>2, <2>3, <3>1, <3>2
    <3>4. /\ a \o b \in Seq(S) /\ Len(a \o b) = Len(a) + Len(b)
          /\ Coded(a \o b, 0, a)
          /\ Coded(a \o b, Len(a), b)
      BY CodedInBoth
    <3>5. ASSUME NEW l \in 1 .. k PROVE Coded(f[k], UpTo(sizes, l - 1), seqs[l])
      <4>1. CASE l = k
        BY <3>2, <3>3, <3>4, <4>1
      <4>2. CASE l /= k
        <5>1. l \in 1 .. k - 1 /\ l \in 1 .. n /\ l - 1 \in 0 .. n
          BY <1>1, <2>1, <4>2
        <5>2. Coded(a, UpTo(sizes, l - 1), seqs[l])
          BY <3>1, <3>2, <5>1
        <5>3. PICK t \in Nat : t = UpTo(sizes, l - 1)
          BY <1>4, <5>1
        <5>4. Len(a \o b) \in Nat /\ Len(a) \in Nat /\ Len(seqs[l]) \in Nat
          BY <1>3, <3>4, <5>1
        <5>5. Coded(a \o b, 0 + t, seqs[l])
          BY <3>4, <5>2, <5>3, <5>4, CodedWithin
        <5> QED BY <3>3, <5>3, <5>5
      <4> QED BY <4>1, <4>2
    <3>6. Len(f[k]) = UpTo(sizes, k)
      BY <1>4, <2>1, <3>3, <3>4
    <3> QED BY <3>3, <3>4, <3>5, <3>6
  <2> HIDE DEF Good
  <2>6. k - 1 \in Bad /\ ~(k <= k - 1)
    BY <2>1, <2>4, <2>5
  <2> QED BY <2>6
<1>6. Bad = {}
  <2>1. Bad \in SUBSET Nat
    BY <1>1
  <2> HIDE DEF Bad
  <2> QED BY <1>5, <2>1, LeastNatural
<1>7. CASE n = 0
  <2>1. seqs = <<>> /\ Len(seqs) = 0
    BY <1>7 DEF n
  <2>2. <<>> \in Seq(S) /\ \A k \in 1 .. 0 : FALSE
    OBVIOUS
  <2> QED BY <1>2, <1>4, <1>7, <2>1, <2>2
<1>8. CASE n /= 0
  <2>1. n \in 1 .. n
    BY <1>1, <1>8
  <2>2. Good(n)
    <3> HIDE DEF Good
    <3> QED BY <1>6, <2>1
  <2> QED BY <1>2, <1>8, <2>2 DEF n
<1> QED BY <1>7, <1>8

-----------------------------------------------------------------------------
\* Where the numbers of a list stand in its bytes.

Source(c, list) == c \in Codecs /\ list \in StoredLists /\ Encodable(c, list)

\* The numbers of a posting before its frequency.
Lead(c) == IF c = "VarByte" THEN 1 ELSE 0

LEMMA SourceIs ==
  ASSUME NEW c, NEW list, Source(c, list)
  PROVE  /\ c \in Codecs /\ Len(list) \in Nat \ {0} /\ DOMAIN list = 1 .. Len(list)
         /\ \A i \in 1 .. Len(list) : list[i].doc \in U32 /\ list[i].positions \in Seq(U32)
         /\ \A i \in 1 .. Len(list) : list[i] = [doc |-> list[i].doc, positions |-> list[i].positions]
         /\ DOMAIN IdsOf(list) = 1 .. Len(list) /\ Len(IdsOf(list)) = Len(list)
         /\ \A i \in 1 .. Len(list) : IdsOf(list)[i] = list[i].doc
         /\ Increasing(IdsOf(list))
<1> DEFINE SourceList == [doc : 0 .. MaxValue, positions : Seq(0 .. MaxValue)]
<1>1. list \in Seq(SourceList) /\ list /= <<>> /\ c \in Codecs /\ Increasing(IdsOf(list))
  BY BlocksAssumption DEF Source, Encodable
<1>2. Len(list) \in Nat \ {0} /\ DOMAIN list = 1 .. Len(list)
  <2> HIDE DEF SourceList
  <2> QED BY <1>1, EmptySeq
<1>3. \A i \in 1 .. Len(list) : list[i] \in SourceList
  <2> HIDE DEF SourceList
  <2> QED BY <1>1, <1>2, SeqElements
<1>4. \A i \in 1 .. Len(list) : list[i].doc \in U32 /\ list[i].positions \in Seq(U32)
  BY <1>3 DEF U32
<1>5. \A i \in 1 .. Len(list) : list[i] = [doc |-> list[i].doc, positions |-> list[i].positions]
  BY <1>3
<1>6. IdsOf(list) = [i \in 1 .. Len(list) |-> list[i].doc]
  BY <1>2 DEF IdsOf
<1>7. Len(IdsOf(list)) = Len(list)
  <2>1. IdsOf(list) \in [1 .. Len(list) -> U32]
    BY <1>4, <1>6
  <2> QED BY <1>2, <2>1, FunctionIsSeq
<1> QED BY <1>1, <1>2, <1>4, <1>5, <1>6, <1>7

LEMMA GapsAre ==
  ASSUME NEW values \in Seq(U32)
  PROVE  /\ Gaps(values) \in Seq(Int) /\ Len(Gaps(values)) = Len(values)
         /\ \A k \in 1 .. Len(values) :
              Gaps(values)[k] = values[k] - (IF k = 1 THEN -1 ELSE values[k - 1])
<1>1. /\ Len(values) \in Nat /\ DOMAIN values = 1 .. Len(values)
      /\ \A k \in 1 .. Len(values) : values[k] \in U32
  BY SeqElements
<1>2. \A k \in 1 .. Len(values) : values[k] \in Int
  BY <1>1 DEF U32
<1>3. Gaps(values) = [k \in 1 .. Len(values) |-> values[k] - (IF k = 1 THEN -1 ELSE values[k - 1])]
  BY <1>1 DEF Gaps
<1>4. ASSUME NEW k \in 1 .. Len(values)
      PROVE  values[k] - (IF k = 1 THEN -1 ELSE values[k - 1]) \in Int
  <2>1. CASE k = 1
    BY <1>2, <2>1
  <2>2. CASE k /= 1
    <3>1. k - 1 \in 1 .. Len(values)
      BY <1>1, <2>2
    <3>2. PICK x \in Int, y \in Int : x = values[k] /\ y = values[k - 1]
      BY <1>2, <3>1
    <3> QED BY <2>2, <3>2
  <2> QED BY <2>1, <2>2
<1>5. Gaps(values) \in [1 .. Len(values) -> Int]
  BY <1>3, <1>4
<1>6. Gaps(values) \in Seq(Int) /\ Len(Gaps(values)) = Len(values)
  <2> DEFINE n == Len(values)
  <2>1. n \in Nat /\ Gaps(values) \in [1 .. n -> Int]
    BY <1>1, <1>5
  <2> HIDE DEF n
  <2>2. Gaps(values) \in Seq(Int) /\ Len(Gaps(values)) = n
    BY <2>1, FunctionIsSeq
  <2> QED BY <2>2 DEF n
<1> QED BY <1>3, <1>6

\* The numbers of a posting.
LEMMA NumbersAre ==
  ASSUME NEW c, NEW list, Source(c, list), NEW i \in 1 .. Len(list)
  PROVE  /\ NumbersOf(c, list, i) \in Seq(1 .. MaxValue)
         /\ Len(NumbersOf(c, list, i)) = Lead(c) + 1 + Len(list[i].positions)
         /\ c = "VarByte" =>
              NumbersOf(c, list, i)[1] = list[i].doc - (IF i = 1 THEN -1 ELSE list[i - 1].doc)
         /\ NumbersOf(c, list, i)[Lead(c) + 1] = Len(list[i].positions)
         /\ \A k \in 1 .. Len(list[i].positions) :
              NumbersOf(c, list, i)[Lead(c) + 1 + k]
                = list[i].positions[k] - (IF k = 1 THEN -1 ELSE list[i].positions[k - 1])
         /\ Len(list[i].positions) \in 1 .. MaxPositions
<1> DEFINE ids == IdsOf(list)
           places == list[i].positions
           numbers == NumbersOf(c, list, i)
           head == IF c = "VarByte" THEN <<Gaps(ids)[i]>> ELSE <<>>
<1>1. /\ Len(list) \in Nat \ {0} /\ DOMAIN list = 1 .. Len(list)
      /\ \A k \in 1 .. Len(list) : list[k].doc \in U32 /\ ids[k] = list[k].doc
      /\ places \in Seq(U32) /\ DOMAIN ids = 1 .. Len(list) /\ Len(ids) = Len(list)
  BY SourceIs
<1>2. ids \in Seq(U32)
  <2>1. ids = [k \in 1 .. Len(list) |-> list[k].doc]
    BY <1>1 DEF IdsOf
  <2>2. ids \in [1 .. Len(list) -> U32]
    BY <1>1, <2>1
  <2> QED BY <1>1, <2>2, FunctionIsSeq
<1>3. /\ Gaps(ids) \in Seq(Int) /\ Len(Gaps(ids)) = Len(list)
      /\ Gaps(ids)[i] = list[i].doc - (IF i = 1 THEN -1 ELSE list[i - 1].doc)
      /\ Gaps(ids)[i] \in Int
  <2> HIDE DEF ids
  <2>1. /\ Gaps(ids) \in Seq(Int) /\ Len(Gaps(ids)) = Len(ids)
        /\ \A k \in 1 .. Len(ids) : Gaps(ids)[k] = ids[k] - (IF k = 1 THEN -1 ELSE ids[k - 1])
    BY <1>2, GapsAre
  <2>2. i = 1 \/ i - 1 \in 1 .. Len(list)
    OBVIOUS
  <2>3. Gaps(ids)[i] \in Int
    BY <1>1, <2>1, SeqElements
  <2> QED BY <1>1, <2>1, <2>2, <2>3
<1>4. /\ Gaps(places) \in Seq(Int) /\ Len(Gaps(places)) = Len(places) /\ Len(places) \in Nat
      /\ \A k \in 1 .. Len(places) :
           Gaps(places)[k] = places[k] - (IF k = 1 THEN -1 ELSE places[k - 1])
  <2> HIDE DEF places
  <2> QED BY <1>1, GapsAre
<1>5. numbers = head \o <<Len(places)>> \o Gaps(places)
  BY DEF NumbersOf
<1>6. head \in Seq(Int) /\ Len(head) = Lead(c) /\ (c = "VarByte" => head[1] = Gaps(ids)[i])
  BY <1>3 DEF Lead
<1> HIDE DEF head, places, ids, numbers
<1>7. /\ numbers \in Seq(Int) /\ Len(numbers) = Lead(c) + 1 + Len(places)
      /\ \A k \in 1 .. Lead(c) : numbers[k] = head[k]
      /\ numbers[Lead(c) + 1] = Len(places)
      /\ \A k \in 1 .. Len(places) : numbers[Lead(c) + 1 + k] = Gaps(places)[k]
  <2> DEFINE both == head \o <<Len(places)>>
  <2>1. /\ both \in Seq(Int) /\ Len(both) = Lead(c) + 1
        /\ \A k \in 1 .. Lead(c) : both[k] = head[k]
        /\ both[Lead(c) + 1] = Len(places)
    <3>1. \A k \in 1 .. Len(head) : both[k] = head[k]
      BY <1>4, <1>6
    <3>2. both \in Seq(Int) /\ Len(both) = Len(head) + 1 /\ both[Len(head) + 1] = Len(places)
      BY <1>4, <1>6
    <3> HIDE DEF both
    <3> QED BY <1>6, <3>1, <3>2
  <2> HIDE DEF both
  <2>2. Lead(c) \in Nat
    BY DEF Lead
  <2>3. numbers = both \o Gaps(places)
    BY <1>5 DEF both
  <2>4. /\ numbers \in Seq(Int) /\ Len(numbers) = Len(both) + Len(Gaps(places))
        /\ \A k \in 1 .. Len(both) : numbers[k] = both[k]
        /\ \A k \in 1 .. Len(Gaps(places)) : numbers[Len(both) + k] = Gaps(places)[k]
    <3> DEFINE more == Gaps(places)
    <3>1. more \in Seq(Int) /\ both \in Seq(Int)
      BY <1>4, <2>1
    <3> HIDE DEF more
    <3>2. /\ both \o more \in Seq(Int) /\ Len(both \o more) = Len(both) + Len(more)
          /\ \A k \in 1 .. Len(both) : (both \o more)[k] = both[k]
          /\ \A k \in 1 .. Len(more) : (both \o more)[Len(both) + k] = more[k]
      BY ONLY <3>1, Concatenated
    <3> QED BY ONLY <2>3, <3>2 DEF more
  <2>5. Lead(c) + 1 \in 1 .. Len(both) /\ \A k \in 1 .. Lead(c) : k \in 1 .. Len(both)
    BY <2>1, <2>2
  <2> QED BY <1>4, <2>1, <2>4, <2>5
<1>8. \A k \in 1 .. Len(numbers) : numbers[k] \in 1 .. MaxValue
  <2>1. DOMAIN numbers = 1 .. Len(numbers)
    BY <1>7, SeqElements
  <2> QED BY <1>1, <2>1 DEF Source, Encodable, numbers
<1>9. Len(places) \in 1 .. MaxPositions
  <2>1. Len(places) <= MaxPositions
    BY <1>1 DEF Source, Encodable, places
  <2>2. Lead(c) + 1 \in 1 .. Len(numbers)
    BY <1>4, <1>7 DEF Lead
  <2>3. Len(places) \in 1 .. MaxValue
    BY <1>7, <1>8, <2>2
  <2> QED BY <2>1, <2>3
<1>10. numbers \in Seq(1 .. MaxValue)
  <2>1. Len(numbers) \in Nat /\ DOMAIN numbers = 1 .. Len(numbers)
    BY <1>7, SeqElements
  <2>2. numbers \in [1 .. Len(numbers) -> 1 .. MaxValue]
    <3>1. numbers \in [1 .. Len(numbers) -> Int]
      <4>1. \A k \in 1 .. Len(numbers) : numbers[k] \in Int
        BY <1>7, <2>1, SeqElements
      <4> QED BY <1>7
    <3> QED BY <1>8, <3>1
  <2> QED BY <2>1, <2>2, FunctionIsSeq
<1>11. c = "VarByte" => numbers[1] = Gaps(ids)[i]
  BY <1>6, <1>7 DEF Lead
<1>12. \A k \in 1 .. Len(places) :
         numbers[Lead(c) + 1 + k] = places[k] - (IF k = 1 THEN -1 ELSE places[k - 1])
  BY <1>4, <1>7
<1>13. numbers \in Seq(1 .. MaxValue) /\ Len(numbers) = Lead(c) + 1 + Len(places)
       /\ numbers[Lead(c) + 1] = Len(places)
  BY <1>7, <1>10
<1> QED BY <1>3, <1>9, <1>11, <1>12, <1>13 DEF numbers, places

NumberSizes(numbers) == [j \in DOMAIN numbers |-> Len(EncodeNumber(numbers[j]))]

LEMMA NumbersStand ==
  ASSUME NEW numbers \in Seq(1 .. MaxValue)
  PROVE  /\ EncodeNumbers(numbers) \in Seq(Nat)
         /\ Len(EncodeNumbers(numbers)) = UpTo(NumberSizes(numbers), Len(numbers))
         /\ \A j \in 1 .. Len(numbers) :
              /\ numbers[j] \in 0 .. MaxValue
              /\ NumberSizes(numbers)[j] = Len(EncodeNumber(numbers[j]))
              /\ NumberSizes(numbers)[j] \in Nat \ {0}
              /\ Coded(EncodeNumbers(numbers), UpTo(NumberSizes(numbers), j - 1),
                       EncodeNumber(numbers[j]))
<1> DEFINE codes == [j \in DOMAIN numbers |-> EncodeNumber(numbers[j])]
           sizes == NumberSizes(numbers)
<1>1. /\ Len(numbers) \in Nat /\ DOMAIN numbers = 1 .. Len(numbers)
      /\ \A j \in 1 .. Len(numbers) : numbers[j] \in 1 .. MaxValue
  BY SeqElements
<1>2. MaxValue \in Nat
  BY MaxValueIs
<1>3. ASSUME NEW j \in 1 .. Len(numbers)
      PROVE  /\ numbers[j] \in 0 .. MaxValue /\ EncodeNumber(numbers[j]) \in Seq(Nat)
             /\ Len(EncodeNumber(numbers[j])) \in Nat \ {0}
  <2>1. PICK v \in 0 .. MaxValue : v = numbers[j]
    BY <1>1, <1>2
  <2>2. v \in Int /\ v <= MaxValue
    BY <1>2
  <2>3. EncodeNumber(v) \in Seq(Nat)
    BY <2>2, NumberIsBytes
  <2>4. PICK s \in 1 .. Groups : Len(EncodeNumber(v)) = s
    BY NumberIs
  <2>5. Groups \in Nat
    BY VarByteAssumption
  <2> QED BY <2>1, <2>3, <2>4, <2>5
<1>4. codes \in Seq(Seq(Nat)) /\ Len(codes) = Len(numbers)
  <2> DEFINE n == Len(numbers)
  <2>1. codes \in [1 .. n -> Seq(Nat)] /\ n \in Nat
    BY <1>1, <1>3
  <2> HIDE DEF n, codes
  <2>2. codes \in Seq(Seq(Nat)) /\ Len(codes) = n
    BY <2>1, FunctionIsSeq
  <2> QED BY <2>2 DEF n
<1>5. \A j \in 1 .. Len(numbers) : codes[j] = EncodeNumber(numbers[j]) /\ sizes[j] = Len(codes[j])
  BY <1>1 DEF NumberSizes
<1>6. EncodeNumbers(numbers) = FlattenSeq(codes)
  BY DEF EncodeNumbers
<1> HIDE DEF codes, sizes
<1>7. /\ FlattenSeq(codes) \in Seq(Nat)
      /\ Len(FlattenSeq(codes)) = UpTo(sizes, Len(codes))
      /\ \A k \in 1 .. Len(codes) : Coded(FlattenSeq(codes), UpTo(sizes, k - 1), codes[k])
  BY <1>4, <1>5, FlattenedIs
<1> QED BY <1>3, <1>4, <1>5, <1>6, <1>7 DEF sizes

\* The offset of a number in the bytes of a list.
PostingSizes(c, list) == [i \in DOMAIN list |-> Len(EncodeNumbers(NumbersOf(c, list, i)))]

Offset(c, list, i, j) ==
  UpTo(PostingSizes(c, list), i - 1) + UpTo(NumberSizes(NumbersOf(c, list, i)), j - 1)

LEMMA PostingsStand ==
  ASSUME NEW c, NEW list, Source(c, list)
  PROVE  /\ EncodeBlock(c, list).bytes \in Seq(Nat)
         /\ Len(EncodeBlock(c, list).bytes) = UpTo(PostingSizes(c, list), Len(list))
         /\ \A i \in 1 .. Len(list) :
              /\ PostingSizes(c, list)[i] = Len(EncodeNumbers(NumbersOf(c, list, i)))
              /\ PostingSizes(c, list)[i] \in Nat
              /\ Coded(EncodeBlock(c, list).bytes, UpTo(PostingSizes(c, list), i - 1),
                       EncodeNumbers(NumbersOf(c, list, i)))
<1> DEFINE codes == [i \in DOMAIN list |-> EncodeNumbers(NumbersOf(c, list, i))]
           sizes == PostingSizes(c, list)
           n == Len(list)
<1>1. n \in Nat /\ DOMAIN list = 1 .. n
  BY SourceIs
<1>2. ASSUME NEW i \in 1 .. n
      PROVE  EncodeNumbers(NumbersOf(c, list, i)) \in Seq(Nat)
  <2> DEFINE numbers == NumbersOf(c, list, i)
  <2>1. numbers \in Seq(1 .. MaxValue)
    BY NumbersAre
  <2> HIDE DEF numbers
  <2>2. EncodeNumbers(numbers) \in Seq(Nat)
    BY <2>1, NumbersStand
  <2> QED BY <2>2 DEF numbers
<1>3. EncodeBlock(c, list).bytes = FlattenSeq(codes)
  BY DEF EncodeBlock
<1>4. codes \in [1 .. n -> Seq(Nat)]
  BY <1>1, <1>2
<1>5. \A i \in 1 .. n : codes[i] = EncodeNumbers(NumbersOf(c, list, i)) /\ sizes[i] = Len(codes[i])
  BY <1>1 DEF PostingSizes
<1> HIDE DEF codes, sizes, n
<1>6. codes \in Seq(Seq(Nat)) /\ Len(codes) = n
  BY <1>1, <1>4, FunctionIsSeq
<1>7. /\ FlattenSeq(codes) \in Seq(Nat)
      /\ Len(FlattenSeq(codes)) = UpTo(sizes, Len(codes))
      /\ \A k \in 1 .. Len(codes) : Coded(FlattenSeq(codes), UpTo(sizes, k - 1), codes[k])
  BY <1>5, <1>6, FlattenedIs
<1>8. ASSUME NEW i \in 1 .. n PROVE sizes[i] \in Nat
  <2>1. codes[i] \in Seq(Nat)
    BY <1>4
  <2>2. Len(codes[i]) \in Nat
    BY <2>1
  <2> QED BY <1>5, <2>2
<1> QED BY <1>3, <1>5, <1>6, <1>7, <1>8 DEF sizes, n

\* A sum grows at least by as much for every place.
LEMMA UpToGrowsBy ==
  ASSUME NEW f, NEW n \in Nat, NEW b \in Nat, \A i \in 1 .. n : f[i] \in Nat /\ b <= f[i],
         NEW m \in 0 .. n
  PROVE  UpTo(f, m) + b * (n - m) <= UpTo(f, n) /\ UpTo(f, m) \in Nat
<1>1. \A i \in 1 .. n : f[i] \in Int
  OBVIOUS
<1>2. \A k \in 0 .. n : UpTo(f, k) \in Int
  BY <1>1, UpToNext
<1>3. \A k \in 1 .. n : UpTo(f, k) = UpTo(f, k - 1) + f[k]
  BY <1>1, UpToNext
<1> DEFINE Bad == {k \in 0 .. n : m <= k /\ ~(UpTo(f, m) + b * (k - m) <= UpTo(f, k))}
<1>4. ASSUME NEW k \in Bad PROVE \E l \in Bad : ~(k <= l)
  <2>1. k /= m
    <3>1. SUFFICES ASSUME k = m PROVE UpTo(f, m) + b * (k - m) <= UpTo(f, k)
      OBVIOUS
    <3>2. b * (k - m) = 0
      BY <3>1
    <3> QED BY <1>2, <3>1, <3>2
  <2>2. k - 1 \in 0 .. n /\ m <= k - 1 /\ k \in 1 .. n
    BY <2>1
  <2>3. PICK x \in Int, y \in Int, z \in Int : x = UpTo(f, m) /\ y = UpTo(f, k - 1) /\ z = UpTo(f, k)
    BY <1>2, <2>2
  <2>4. PICK v \in Nat : v = f[k] /\ b <= v /\ z = y + v
    BY <1>3, <2>2, <2>3
  <2>5. b * (k - m) = b * ((k - 1) - m) + b
    OBVIOUS
  <2>6. PICK p \in Int : p = b * ((k - 1) - m)
    OBVIOUS
  <2>7. k - 1 \in Bad
    <3>1. SUFFICES ASSUME x + p <= y PROVE x + (p + b) <= z
      BY <2>2, <2>3, <2>5, <2>6
    <3> QED BY ONLY <2>4, <3>1, x \in Int, y \in Int, z \in Int, p \in Int, b \in Nat
  <2> QED BY <2>2, <2>7
<1>5. Bad = {}
  <2>1. Bad \in SUBSET Nat
    OBVIOUS
  <2> HIDE DEF Bad
  <2> QED BY <1>4, <2>1, LeastNatural
<1>6. UpTo(f, m) \in Nat
  BY UpToGrows
<1> QED BY <1>5, <1>6

\* A number is read back at its offset, and there is a byte for every number after it.
LEMMA OffsetReads ==
  ASSUME NEW c, NEW list, Source(c, list), NEW i \in 1 .. Len(list),
         NEW j \in 1 .. Len(NumbersOf(c, list, i))
  PROVE  /\ Offset(c, list, i, j) \in Nat
         /\ DecodeNumber(EncodeBlock(c, list).bytes, Offset(c, list, i, j)).ok
         /\ DecodeNumber(EncodeBlock(c, list).bytes, Offset(c, list, i, j)).value
              = NumbersOf(c, list, i)[j]
         /\ DecodeNumber(EncodeBlock(c, list).bytes, Offset(c, list, i, j)).next
              = Offset(c, list, i, j + 1)
         /\ Offset(c, list, i, j + 1) \in Nat
         /\ Offset(c, list, i, j + 1) + (Len(NumbersOf(c, list, i)) - j)
              <= Len(EncodeBlock(c, list).bytes)
<1> DEFINE numbers == NumbersOf(c, list, i)
           sizes == NumberSizes(numbers)
           outer == PostingSizes(c, list)
           block == EncodeBlock(c, list).bytes
           code == EncodeNumbers(numbers)
           m == Len(numbers)
           n == Len(list)
<1>1. /\ block \in Seq(Nat) /\ Len(block) = UpTo(outer, n)
      /\ \A k \in 1 .. n : outer[k] \in Nat
      /\ outer[i] = Len(code) /\ Coded(block, UpTo(outer, i - 1), code)
  BY PostingsStand
<1>2. numbers \in Seq(1 .. MaxValue) /\ n \in Nat /\ m \in Nat
  <2>1. numbers \in Seq(1 .. MaxValue)
    BY NumbersAre
  <2>2. n \in Nat
    BY SourceIs
  <2> HIDE DEF numbers
  <2> QED BY <2>1, <2>2, SeqElements
<1> HIDE DEF numbers, block, outer, n
<1>3. /\ code \in Seq(Nat) /\ Len(code) = UpTo(sizes, m)
      /\ \A k \in 1 .. m :
           /\ numbers[k] \in 0 .. MaxValue
           /\ sizes[k] = Len(EncodeNumber(numbers[k]))
           /\ sizes[k] \in Nat \ {0}
           /\ Coded(code, UpTo(sizes, k - 1), EncodeNumber(numbers[k]))
  BY <1>2, NumbersStand
<1> HIDE DEF code, sizes, m
<1>4. /\ j \in 1 .. m /\ i \in 1 .. n
      /\ Offset(c, list, i, j) = UpTo(outer, i - 1) + UpTo(sizes, j - 1)
      /\ Offset(c, list, i, j + 1) = UpTo(outer, i - 1) + UpTo(sizes, (j + 1) - 1)
  BY DEF Offset, numbers, sizes, outer, m, n
<1>5. /\ UpTo(outer, i - 1) \in Nat /\ UpTo(outer, i) <= UpTo(outer, n) /\ UpTo(outer, i) \in Nat
      /\ UpTo(outer, i) = UpTo(outer, i - 1) + outer[i]
      /\ UpTo(outer, n) \in Nat
  <2>1. i - 1 \in 0 .. n /\ i \in 0 .. n /\ n \in 0 .. n
    BY <1>2, <1>4
  <2>2. \A k \in 1 .. n : outer[k] \in Int
    BY <1>1
  <2> QED BY <1>1, <1>2, <1>4, <2>1, <2>2, UpToNext, UpToGrows
<1>6. /\ UpTo(sizes, j - 1) \in Nat /\ UpTo(sizes, j) \in Nat
      /\ UpTo(sizes, j) = UpTo(sizes, j - 1) + sizes[j]
      /\ UpTo(sizes, j) + (m - j) <= UpTo(sizes, m)
      /\ UpTo(sizes, m) \in Nat
  <2>1. j - 1 \in 0 .. m /\ j \in 0 .. m /\ m \in 0 .. m
    BY <1>2, <1>4
  <2>2. \A k \in 1 .. m : sizes[k] \in Nat /\ 1 <= sizes[k] /\ sizes[k] \in Int
    BY <1>3
  <2>3. UpTo(sizes, j) + 1 * (m - j) <= UpTo(sizes, m)
    BY <1>2, <2>1, <2>2, UpToGrowsBy
  <2>4. 1 * (m - j) = m - j
    BY <1>2, <1>4
  <2>5. UpTo(sizes, j - 1) \in Nat /\ UpTo(sizes, j) \in Nat /\ UpTo(sizes, m) \in Nat
    BY <1>2, <2>1, <2>2, UpToGrows
  <2>6. UpTo(sizes, j) = UpTo(sizes, j - 1) + sizes[j]
    BY <1>2, <1>4, <2>2, UpToNext
  <2> QED BY <2>3, <2>4, <2>5, <2>6
<1>7. PICK s \in Nat, t \in Nat : s = UpTo(outer, i - 1) /\ t = UpTo(sizes, j - 1)
  BY <1>5, <1>6
<1>8. PICK v \in 0 .. MaxValue : v = numbers[j]
  BY <1>3, <1>4
<1>9. Coded(block, s + t, EncodeNumber(v)) /\ Len(EncodeNumber(v)) = sizes[j]
  <2>1. Coded(block, s, code) /\ Coded(code, t, EncodeNumber(v)) /\ Len(EncodeNumber(v)) = sizes[j]
    BY <1>1, <1>3, <1>4, <1>7, <1>8
  <2>2. Len(block) \in Nat /\ Len(code) \in Nat /\ Len(EncodeNumber(v)) \in Nat
    BY <1>1, <1>3, <1>4, <2>1
  <2> QED BY <2>1, <2>2, CodedWithin
<1>10. /\ DecodeNumber(block, s + t).ok
       /\ DecodeNumber(block, s + t).value = v
       /\ DecodeNumber(block, s + t).next = s + t + Len(EncodeNumber(v))
  <2> DEFINE start == s + t
  <2>1. start \in Nat /\ Coded(block, start, EncodeNumber(v))
    BY <1>9
  <2> HIDE DEF start
  <2>2. /\ DecodeNumber(block, start).ok
        /\ DecodeNumber(block, start).value = v
        /\ DecodeNumber(block, start).next = start + Len(EncodeNumber(v))
    BY <1>1, <2>1, NumberReadsBack
  <2> QED BY <2>2 DEF start
<1>11. (j + 1) - 1 = j
  BY <1>4
<1>12. Offset(c, list, i, j) = s + t /\ Offset(c, list, i, j + 1) = s + UpTo(sizes, j)
  BY <1>4, <1>7, <1>11
<1>13. s + UpTo(sizes, j) = s + t + sizes[j] /\ s + UpTo(sizes, j) \in Nat
       /\ s + UpTo(sizes, j) + (m - j) <= Len(block)
  <2>1. sizes[j] \in Nat /\ j \in Nat
    BY <1>3, <1>4
  <2>2. PICK y \in Nat, z \in Nat, w \in Nat : y = UpTo(sizes, j) /\ z = UpTo(sizes, m) /\ w = UpTo(outer, i)
    BY <1>5, <1>6
  <2>3. y = t + sizes[j] /\ y + (m - j) <= z
    BY ONLY <1>6, <1>7, <2>2
  <2>4. w = s + z /\ w <= Len(block) /\ Len(block) \in Nat
    BY ONLY <1>1, <1>3, <1>5, <1>7, <2>2
  <2>5. PICK size \in Nat, total \in Nat : size = sizes[j] /\ total = Len(block)
    BY <2>1, <2>4
  <2>6. m \in Nat
    BY <1>2
  <2>7. y = t + size /\ y + (m - j) <= z /\ w = s + z /\ w <= total
    BY ONLY <2>3, <2>4, <2>5
  <2>8. s + y = s + t + size /\ s + y \in Nat
    BY ONLY <2>7, s \in Nat, t \in Nat, y \in Nat, size \in Nat
  <2>9. s + y + (m - j) <= total
    BY ONLY <2>1, <2>6, <2>7, s \in Nat, y \in Nat, z \in Nat, w \in Nat, total \in Nat
  <2> QED BY ONLY <2>2, <2>5, <2>8, <2>9
<1> QED BY <1>8, <1>9, <1>10, <1>12, <1>13 DEF numbers, block, m

LEMMA OffsetsMeet ==
  ASSUME NEW c, NEW list, Source(c, list)
  PROVE  /\ Offset(c, list, 1, 1) = 0
         /\ \A i \in 1 .. Len(list) :
              Offset(c, list, i, Len(NumbersOf(c, list, i)) + 1) = Offset(c, list, i + 1, 1)
         /\ Offset(c, list, Len(list) + 1, 1) = Len(EncodeBlock(c, list).bytes)
         /\ (Lead(c) + 2) * Len(list) <= Len(EncodeBlock(c, list).bytes)
<1> DEFINE outer == PostingSizes(c, list)
           block == EncodeBlock(c, list).bytes
           n == Len(list)
<1>1. /\ block \in Seq(Nat) /\ Len(block) = UpTo(outer, n)
      /\ \A k \in 1 .. n : outer[k] \in Nat /\ outer[k] = Len(EncodeNumbers(NumbersOf(c, list, k)))
  BY PostingsStand
<1>2. n \in Nat /\ c \in Codecs
  BY SourceIs
<1>3. \A f : UpTo(f, 0) = 0
  <2> TAKE f
  <2>1. \A i \in 1 .. 0 : f[i] \in Int
    OBVIOUS
  <2> QED BY <2>1, UpToNext
<1>4. \A k \in 0 .. n : UpTo(outer, k) \in Int
  <2>1. \A k \in 1 .. n : outer[k] \in Int
    BY <1>1
  <2> HIDE DEF outer, n
  <2> QED BY <1>2, <2>1, UpToNext
<1>5. \A i \in 1 .. n + 1 : Offset(c, list, i, 1) = UpTo(outer, i - 1)
  <2> TAKE i \in 1 .. n + 1
  <2> DEFINE inner == NumberSizes(NumbersOf(c, list, i))
  <2>1. Offset(c, list, i, 1) = UpTo(outer, i - 1) + UpTo(inner, 1 - 1)
    BY DEF Offset
  <2>2. UpTo(inner, 1 - 1) = 0
    BY <1>3
  <2>3. i - 1 \in 0 .. n
    BY <1>2
  <2> HIDE DEF inner, outer, n
  <2> QED BY <1>4, <2>1, <2>2, <2>3
<1>6. ASSUME NEW i \in 1 .. n
      PROVE  /\ outer[i] = UpTo(NumberSizes(NumbersOf(c, list, i)), Len(NumbersOf(c, list, i)))
             /\ Lead(c) + 2 <= outer[i]
             /\ Len(NumbersOf(c, list, i)) \in Nat
  <2> DEFINE numbers == NumbersOf(c, list, i)
             sizes == NumberSizes(numbers)
  <2>1. numbers \in Seq(1 .. MaxValue)
    BY NumbersAre
  <2>2. Len(numbers) \in Nat /\ Lead(c) + 2 <= Len(numbers)
    <3>1. Len(numbers) = Lead(c) + 1 + Len(list[i].positions) /\ Len(list[i].positions) \in 1 .. MaxPositions
      BY NumbersAre
    <3>2. Lead(c) \in Nat
      BY DEF Lead
    <3> HIDE DEF numbers
    <3> QED BY <3>1, <3>2
  <2>3. outer[i] = Len(EncodeNumbers(numbers))
    BY <1>1
  <2> HIDE DEF numbers, outer, n
  <2>4. Len(EncodeNumbers(numbers)) = UpTo(sizes, Len(numbers))
        /\ \A k \in 1 .. Len(numbers) : sizes[k] \in Nat \ {0}
    BY <2>1, NumbersStand
  <2> HIDE DEF sizes
  <2>5. 1 * Len(numbers) <= UpTo(sizes, Len(numbers)) /\ UpTo(sizes, Len(numbers)) \in Nat
    <3>1. \A k \in 1 .. Len(numbers) : sizes[k] \in Nat /\ 1 <= sizes[k]
      BY <2>4
    <3> QED BY <2>2, <3>1, UpToBounds
  <2>6. Lead(c) \in Nat
    BY DEF Lead
  <2>7. Lead(c) + 2 <= outer[i]
    BY <2>2, <2>3, <2>4, <2>5, <2>6
  <2> QED BY <2>2, <2>3, <2>4, <2>7 DEF numbers, sizes
<1>7. ASSUME NEW i \in 1 .. n
      PROVE  Offset(c, list, i, Len(NumbersOf(c, list, i)) + 1) = Offset(c, list, i + 1, 1)
  <2> DEFINE inner == NumberSizes(NumbersOf(c, list, i))
             m == Len(NumbersOf(c, list, i))
  <2>1. Offset(c, list, i, m + 1) = UpTo(outer, i - 1) + UpTo(inner, (m + 1) - 1)
    BY DEF Offset
  <2>2. m \in Nat /\ outer[i] = UpTo(inner, m)
    BY <1>6
  <2> HIDE DEF m, inner, outer, n
  <2>3. (m + 1) - 1 = m /\ (i + 1) - 1 = i /\ i + 1 \in 1 .. n + 1
    BY <1>2, <2>2
  <2>4. UpTo(outer, i) = UpTo(outer, i - 1) + outer[i]
    <3>1. \A k \in 1 .. n : outer[k] \in Int
      BY <1>1
    <3> QED BY <1>2, <3>1, UpToNext
  <2>5. Offset(c, list, i + 1, 1) = UpTo(outer, i)
    BY <1>5, <2>3
  <2>6. Offset(c, list, i, m + 1) = Offset(c, list, i + 1, 1)
    BY <2>1, <2>2, <2>3, <2>4, <2>5
  <2> QED BY <2>6 DEF m
<1>8. Offset(c, list, 1, 1) = 0 /\ Offset(c, list, n + 1, 1) = UpTo(outer, n)
  <2>1. 1 \in 1 .. n + 1 /\ n + 1 \in 1 .. n + 1 /\ (n + 1) - 1 = n /\ 1 - 1 = 0
    BY <1>2
  <2>2. Offset(c, list, 1, 1) = UpTo(outer, 1 - 1) /\ Offset(c, list, n + 1, 1) = UpTo(outer, (n + 1) - 1)
    <3> HIDE DEF n, outer
    <3> QED BY ONLY <1>5, <2>1
  <2>3. UpTo(outer, 1 - 1) = 0
    <3> HIDE DEF n, outer
    <3> QED BY ONLY <1>3, <2>1
  <2> HIDE DEF n, outer
  <2> QED BY ONLY <2>1, <2>2, <2>3
<1>9. (Lead(c) + 2) * n <= UpTo(outer, n)
  <2> DEFINE b == Lead(c) + 2
  <2>1. b \in Nat
    BY DEF Lead
  <2>2. \A k \in 1 .. n : outer[k] \in Nat /\ b <= outer[k]
    BY <1>1, <1>6
  <2> HIDE DEF b, outer, n
  <2>3. b * n <= UpTo(outer, n)
    BY <1>2, <2>1, <2>2, UpToBounds
  <2> QED BY <2>3 DEF b
<1> QED BY <1>1, <1>7, <1>8, <1>9

-----------------------------------------------------------------------------
\* Bits of a number.

\* Values that increase are as far apart as their indices at least.
LEMMA ApartAtLeast ==
  ASSUME NEW values \in Seq(Nat), Increasing(values), NEW i \in 1 .. Len(values)
  PROVE  /\ \A j \in i .. Len(values) : values[i] + (j - i) <= values[j]
         /\ i - 1 <= values[i]
<1>1. /\ Len(values) \in Nat /\ DOMAIN values = 1 .. Len(values)
      /\ \A k \in 1 .. Len(values) : values[k] \in Nat
  BY SeqElements
<1> DEFINE n == Len(values)
<1>2. ASSUME NEW a \in 1 .. n
      PROVE  \A j \in a .. n : values[a] + (j - a) <= values[j]
  <2> DEFINE Bad == {j \in a .. n : ~(values[a] + (j - a) <= values[j])}
  <2>1. ASSUME NEW j \in Bad PROVE \E l \in Bad : ~(j <= l)
    <3>0. j \in a .. n /\ j \in 1 .. n /\ values[j] \in Nat /\ values[a] \in Nat
      BY <1>1
    <3>1. j /= a
      BY <3>0
    <3>2. j - 1 \in a .. n /\ j - 1 \in DOMAIN values /\ j \in DOMAIN values /\ j - 1 < j
      BY <1>1, <3>0, <3>1
    <3>3. values[j - 1] < values[j] /\ values[j - 1] \in Nat
      BY <1>1, <3>2 DEF Increasing
    <3>4. PICK x \in Nat, y \in Nat, z \in Nat : x = values[a] /\ y = values[j - 1] /\ z = values[j]
      BY <3>0, <3>3
    <3>5. y < z /\ ~(x + (j - a) <= z) /\ j \in Nat
      BY <3>0, <3>3, <3>4
    <3>6. ~(x + ((j - 1) - a) <= y)
      BY ONLY <3>5, a \in 1 .. n, x \in Nat, y \in Nat, z \in Nat
    <3>7. j - 1 \in Bad
      BY <3>2, <3>4, <3>6
    <3> QED BY <3>0, <3>7
  <2>2. Bad = {}
    <3>1. Bad \in SUBSET Nat
      OBVIOUS
    <3> HIDE DEF Bad
    <3> QED BY <2>1, <3>1, LeastNatural
  <2> QED BY <2>2
<1>3. i - 1 <= values[i]
  <2>1. 1 \in 1 .. n /\ i \in 1 .. n /\ values[1] \in Nat /\ values[i] \in Nat
    BY <1>1
  <2>2. values[1] + (i - 1) <= values[i]
    BY <1>2, <2>1
  <2> QED BY <2>1, <2>2
<1> QED BY <1>2, <1>3

\* Halving after a division by a power of two.
LEMMA HalfOfQuotient ==
  ASSUME NEW v \in Nat, NEW b \in Nat \ {0}
  PROVE  /\ v \div b \in Nat /\ v \div (2 * b) \in Nat
         /\ v \div b = 2 * (v \div (2 * b)) + ((v \div b) % 2)
         /\ (v \div b) % 2 \in {0, 1}
<1>1. PICK q \in Nat, r \in 0 .. b - 1 : q = v \div b /\ v = q * b + r
  BY Division
<1>2. PICK h \in Nat, d \in 0 .. 1 : d = q % 2 /\ q = h * 2 + d
  OBVIOUS
<1>3. PICK n \in Nat \ {0} : n = 2 * b
  OBVIOUS
<1>4. v = h * n + (d * b + r)
  <2>1. q * b = (h * 2 + d) * b
    BY <1>2
  <2>2. (h * 2 + d) * b = h * (2 * b) + d * b
    OBVIOUS
  <2>3. h * n \in Nat /\ d * b \in Nat /\ q * b \in Nat
    OBVIOUS
  <2> QED BY ONLY <1>1, <1>3, <2>1, <2>2, <2>3, r \in 0 .. b - 1
<1>5. d * b + r \in 0 .. n - 1
  <2>1. d = 0 \/ d = 1
    OBVIOUS
  <2>2. CASE d = 0
    BY <1>3, <2>2
  <2>3. CASE d = 1
    BY <1>3, <2>3
  <2> QED BY <2>1, <2>2, <2>3
<1>6. PICK m \in Nat, u \in 0 .. n - 1 : m = v \div n /\ v = m * n + u
  BY Division
<1>7. m = h
  <2>1. PICK x \in 0 .. n - 1 : x = d * b + r
    BY <1>5
  <2>2. h * n + x = m * n + u
    BY <1>4, <1>6, <2>1
  <2> QED BY ONLY <2>2, n \in Nat \ {0}, h \in Nat, m \in Nat, x \in 0 .. n - 1, u \in 0 .. n - 1, DivisionIsUnique
<1>8. v \div b = q /\ v \div (2 * b) = h /\ (v \div b) % 2 = d
  BY ONLY <1>1, <1>2, <1>3, <1>6, <1>7
<1>9. q = 2 * h + d
  BY <1>2
<1> QED BY ONLY <1>8, <1>9, q \in Nat, h \in Nat, d \in 0 .. 1

\* One bit more at the end of a number.
LEMMA NumberTakesBit ==
  ASSUME NEW bits, NEW from, NEW width \in Nat
  PROVE  /\ Number(bits, from, 0) = 0
         /\ Number(bits, from, width) \in Nat
         /\ Number(bits, from, width + 1)
              = 2 * Number(bits, from, width) + (IF bits[from + (width + 1)] = 1 THEN 1 ELSE 0)
<1> DEFINE ones == {i \in 1 .. width : bits[from + i] = 1}
           more == {i \in 1 .. width + 1 : bits[from + i] = 1}
           f == [i \in ones |-> Pow2[width - i]]
           g == [i \in ones |-> Pow2[(width + 1) - i]]
           h == [i \in more |-> Pow2[(width + 1) - i]]
           last == width + 1
<1>1. /\ Number(bits, from, width) = SumFunction(f)
      /\ Number(bits, from, width + 1) = SumFunction(h)
  BY DEF Number
<1>2. IsFiniteSet(ones) /\ \A i \in ones : i \in 1 .. width
  <2>1. IsFiniteSet(1 .. width) /\ ones \in SUBSET (1 .. width)
    BY FS_Interval
  <2> HIDE DEF ones
  <2> QED BY <2>1, FS_Subset
<1>3. \A i \in ones : f[i] \in Nat /\ f[i] \in Int /\ g[i] \in Int /\ g[i] = f[i] * 2
  <2> TAKE i \in ones
  <2>1. width - i \in Nat /\ (width + 1) - i \in Nat \ {0} /\ ((width + 1) - i) - 1 = width - i
    BY <1>2
  <2>2. Pow2[(width + 1) - i] = 2 * Pow2[width - i]
    BY <2>1, PowersDouble
  <2>3. Pow2[width - i] \in Nat
    BY <2>1, PowersGrow
  <2> QED BY <2>2, <2>3
<1>4. DOMAIN f = ones /\ DOMAIN g = ones /\ DOMAIN h = more
  OBVIOUS
<1>5. SumFunction(g) = SumFunction(f) * 2 /\ SumFunction(f) \in Nat
  <2> HIDE DEF f, g, ones
  <2>1. SumFunction(g) = SumFunction(f) * 2
    BY <1>2, <1>3, <1>4, SumOfMultiples
  <2>2. SumFunction(f) \in Nat
    BY <1>2, <1>3, <1>4, SumOfNaturals
  <2> QED BY <2>1, <2>2
<1>6. Number(bits, from, 0) = 0
  <2>1. {i \in 1 .. 0 : bits[from + i] = 1} = {}
    OBVIOUS
  <2>2. DOMAIN [i \in {i \in 1 .. 0 : bits[from + i] = 1} |-> Pow2[0 - i]] = {}
    BY <2>1
  <2> QED BY <2>2, SumOfNone DEF Number
<1>7. CASE bits[from + last] = 1
  <2>1. more = ones \union {last} /\ last \notin ones
    BY <1>7
  <2>2. h[last] = 1
    <3>1. last \in more /\ (width + 1) - last = 0 /\ Pow2[0] = 1
      BY <2>1, PowersDouble
    <3> QED BY <3>1
  <2>3. \A i \in ones : g[i] = h[i]
    BY <2>1
  <2>4. \A i \in ones \union {last} : h[i] \in Int
    <3> TAKE i \in ones \union {last}
    <3>1. CASE i \in ones
      <4>1. g[i] \in Int /\ g[i] = h[i]
        BY <1>3, <2>3, <3>1
      <4> QED BY ONLY <4>1
    <3>2. CASE i = last
      BY <2>2, <3>2
    <3> QED BY <3>1, <3>2
  <2> HIDE DEF ones, more, f, g, h, last
  <2>5. SumFunction(h) = SumFunction(g) + h[last]
    BY <1>2, <1>4, <2>1, <2>3, <2>4, SumOfMore
  <2> QED BY <1>1, <1>5, <1>6, <1>7, <2>2, <2>5 DEF last
<1>8. CASE bits[from + last] /= 1
  <2>1. more = ones
    BY <1>8
  <2>2. h = g
    BY <2>1
  <2> HIDE DEF ones, more, f, g, h
  <2> QED BY <1>1, <1>5, <1>6, <1>8, <2>2 DEF last
<1> QED BY <1>7, <1>8

\* The leading bits of a number that is written are a number of its own.
LEMMA LeadingBits ==
  ASSUME NEW v \in Nat, NEW width \in Nat, v < Pow2[width],
         NEW bits, NEW from \in Nat, Coded(bits, from, Fixed(v, width)), NEW k \in 0 .. width
  PROVE  Number(bits, from, k) = v \div Pow2[width - k]
<1> DEFINE Bad == {m \in 0 .. width : Number(bits, from, m) /= v \div Pow2[width - m]}
<1>1. /\ Fixed(v, width) = [i \in 1 .. width |-> (v \div Pow2[width - i]) % 2]
      /\ Len(Fixed(v, width)) = width
  <2>1. Fixed(v, width) = [i \in 1 .. width |-> (v \div Pow2[width - i]) % 2]
    BY DEF Fixed
  <2>2. \A i \in 1 .. width : (v \div Pow2[width - i]) % 2 \in {0, 1}
    <3> TAKE i \in 1 .. width
    <3>1. width - i \in Nat
      OBVIOUS
    <3>2. PICK b \in Nat \ {0} : b = Pow2[width - i]
      BY <3>1, PowersGrow
    <3> QED BY <3>2, HalfOfQuotient
  <2>3. Fixed(v, width) \in [1 .. width -> {0, 1}]
    BY <2>1, <2>2
  <2> QED BY <2>1, <2>3, FunctionIsSeq
<1>2. \A i \in 1 .. width : bits[from + i] = (v \div Pow2[width - i]) % 2
  BY <1>1 DEF Coded
<1>3. ASSUME NEW m \in Bad PROVE \E l \in Bad : ~(m <= l)
  <2>1. m /= 0
    <3>1. SUFFICES ASSUME m = 0 PROVE Number(bits, from, 0) = v \div Pow2[width - 0]
      OBVIOUS
    <3>2. Number(bits, from, 0) = 0
      BY NumberTakesBit
    <3>3. width - 0 = width
      OBVIOUS
    <3>4. PICK b \in Nat \ {0} : b = Pow2[width]
      BY PowersGrow
    <3>5. v \in 0 .. b - 1
      BY <3>4
    <3>6. v \div b = 0
      <4>1. PICK q \in Nat, r \in 0 .. b - 1 : q = v \div b /\ v = q * b + r
        BY Division
      <4>2. 0 * b + v = q * b + r
        BY <4>1
      <4>3. 0 = q
        BY ONLY <3>5, <4>2, b \in Nat \ {0}, q \in Nat, r \in 0 .. b - 1, 0 \in Nat, DivisionIsUnique
      <4> QED BY <4>1, <4>3
    <3> QED BY <3>2, <3>3, <3>4, <3>6
  <2>2. PICK l \in Nat : m = l + 1 /\ l \in 0 .. width /\ width - m \in Nat /\ l + 1 \in 1 .. width
    <3>1. m - 1 \in Nat /\ m = (m - 1) + 1 /\ m - 1 \in 0 .. width /\ width - m \in Nat
          /\ (m - 1) + 1 \in 1 .. width
      BY <2>1
    <3> QED BY <3>1
  <2>3. SUFFICES ASSUME Number(bits, from, l) = v \div Pow2[width - l]
                 PROVE  Number(bits, from, l + 1) = v \div Pow2[width - (l + 1)]
    <3>1. l \in Bad
      BY <2>2, <2>3
    <3> QED BY <2>2, <3>1
  <2>4. PICK b \in Nat \ {0} : b = Pow2[width - (l + 1)]
    BY <2>2, PowersGrow
  <2>5. Pow2[width - l] = 2 * b
    <3>1. width - l \in Nat \ {0} /\ (width - l) - 1 = width - (l + 1)
      BY <2>2
    <3> QED BY <2>4, <3>1, PowersDouble
  <2>6. bits[from + (l + 1)] = (v \div b) % 2
    BY <1>2, <2>2, <2>4
  <2>7. Number(bits, from, l + 1)
          = 2 * Number(bits, from, l) + (IF bits[from + (l + 1)] = 1 THEN 1 ELSE 0)
    BY NumberTakesBit
  <2>8. /\ v \div b \in Nat /\ v \div (2 * b) \in Nat
        /\ v \div b = 2 * (v \div (2 * b)) + ((v \div b) % 2)
        /\ (v \div b) % 2 \in {0, 1}
    BY HalfOfQuotient
  <2>9. PICK q \in Nat, h \in Nat, d \in {0, 1} : q = v \div b /\ h = v \div (2 * b) /\ d = (v \div b) % 2
    BY <2>8
  <2>10. q = 2 * h + d /\ Number(bits, from, l) = h /\ bits[from + (l + 1)] = d
    BY ONLY <2>3, <2>5, <2>6, <2>8, <2>9
  <2>11. Number(bits, from, l + 1) = q
    BY ONLY <2>7, <2>10, q \in Nat, h \in Nat, d \in {0, 1}
  <2> QED BY ONLY <2>4, <2>9, <2>11
<1>4. Bad = {}
  <2>1. Bad \in SUBSET Nat
    OBVIOUS
  <2> HIDE DEF Bad
  <2> QED BY <1>3, <2>1, LeastNatural
<1> QED BY <1>4

LEMMA FixedIs ==
  ASSUME NEW v \in Nat, NEW width \in Nat
  PROVE  Fixed(v, width) \in Seq({0, 1}) /\ Len(Fixed(v, width)) = width
<1>1. Fixed(v, width) = [i \in 1 .. width |-> (v \div Pow2[width - i]) % 2]
  BY DEF Fixed
<1>2. \A i \in 1 .. width : (v \div Pow2[width - i]) % 2 \in {0, 1}
  <2> TAKE i \in 1 .. width
  <2>1. width - i \in Nat
    OBVIOUS
  <2>2. PICK b \in Nat \ {0} : b = Pow2[width - i]
    BY <2>1, PowersGrow
  <2> QED BY <2>2, HalfOfQuotient
<1>3. Fixed(v, width) \in [1 .. width -> {0, 1}]
  BY <1>1, <1>2
<1> QED BY <1>3, FunctionIsSeq

\* A rank is written in as many bits as its range needs, rounded up or down.
LEMMA TruncatedIs ==
  ASSUME NEW range \in Nat \ {0}, NEW offset \in 0 .. range - 1
  PROVE  /\ Truncated(offset, range) \in Seq({0, 1})
         /\ Log2(range) \in Nat
         /\ Cutoff(range) \in Nat /\ Cutoff(range) <= Pow2[Log2(range)] /\ Cutoff(range) <= range
         /\ offset < Cutoff(range) =>
              Truncated(offset, range) = Fixed(offset, Log2(range)) /\ offset < Pow2[Log2(range)]
         /\ ~(offset < Cutoff(range)) =>
              /\ Truncated(offset, range) = Fixed(offset + Cutoff(range), Log2(range) + 1)
              /\ offset + Cutoff(range) < Pow2[Log2(range) + 1]
         /\ \A m \in Nat : range < Pow2[m] => Len(Truncated(offset, range)) <= m
         /\ Len(Truncated(offset, range)) \in Nat
<1>1. PICK w \in Nat : w = Log2(range) /\ Pow2[w] <= range /\ range < Pow2[w + 1]
  BY Log2Is
<1>2. PICK p \in Nat : p = Pow2[w] /\ Pow2[w + 1] = 2 * p
  <2>1. w + 1 \in Nat \ {0} /\ (w + 1) - 1 = w
    OBVIOUS
  <2> QED BY <2>1, PowersDouble, PowersGrow
<1>3. PICK cut \in Nat : cut = Cutoff(range) /\ cut = 2 * p - range
  <2>1. 2 * p - range \in Nat
    BY <1>1, <1>2
  <2> QED BY <1>1, <1>2, <2>1 DEF Cutoff
<1>4. cut <= p /\ cut <= range /\ (offset < cut => offset < p) /\ offset + cut < 2 * p
  BY <1>1, <1>2, <1>3
<1>5. Truncated(offset, range) = IF offset < cut THEN Fixed(offset, w) ELSE Fixed(offset + cut, w + 1)
  BY <1>1, <1>3 DEF Truncated
<1>6. /\ Fixed(offset, w) \in Seq({0, 1}) /\ Len(Fixed(offset, w)) = w
      /\ Fixed(offset + cut, w + 1) \in Seq({0, 1}) /\ Len(Fixed(offset + cut, w + 1)) = w + 1
  <2>1. offset \in Nat /\ offset + cut \in Nat /\ w + 1 \in Nat
    OBVIOUS
  <2> DEFINE long == offset + cut
             more == w + 1
  <2>2. long \in Nat /\ more \in Nat
    BY <2>1
  <2> HIDE DEF long, more
  <2>3. Fixed(long, more) \in Seq({0, 1}) /\ Len(Fixed(long, more)) = more
    BY <2>2, FixedIs
  <2>4. Fixed(offset, w) \in Seq({0, 1}) /\ Len(Fixed(offset, w)) = w
    BY <2>1, FixedIs
  <2> QED BY <2>3, <2>4 DEF long, more
<1>7. ASSUME NEW m \in Nat, range < Pow2[m] PROVE w + 1 <= m
  <2>1. SUFFICES ASSUME m <= w PROVE FALSE
    OBVIOUS
  <2>2. Pow2[m] <= Pow2[w] /\ Pow2[m] \in Nat /\ Pow2[w] \in Nat
    BY <2>1, PowersAscend, PowersGrow
  <2> QED BY <1>1, <1>7, <2>2
<1>8. Len(Truncated(offset, range)) \in {w, w + 1} /\ Truncated(offset, range) \in Seq({0, 1})
  BY <1>5, <1>6
<1>9. \A m \in Nat : range < Pow2[m] => Len(Truncated(offset, range)) <= m
  BY <1>7, <1>8
<1> QED BY <1>1, <1>2, <1>3, <1>4, <1>5, <1>8, <1>9

\* A rank is read back.
LEMMA RankReadsBack ==
  ASSUME NEW range \in Nat \ {0}, NEW offset \in 0 .. range - 1,
         NEW bits, NEW limit \in Nat, NEW from \in Nat, Coded(bits, from, Truncated(offset, range)),
         from + Len(Truncated(offset, range)) <= limit
  PROVE  /\ ReadTruncated(bits, limit, from, range).ok
         /\ ReadTruncated(bits, limit, from, range).offset = offset
         /\ ReadTruncated(bits, limit, from, range).next = from + Len(Truncated(offset, range))
<1> DEFINE prefix == Number(bits, from, Log2(range))
           long == Number(bits, from, Log2(range) + 1)
           size == IF prefix < Cutoff(range) THEN Log2(range) ELSE Log2(range) + 1
           rank == IF prefix < Cutoff(range) THEN prefix
                   ELSE Number(bits, from, size) - Cutoff(range)
<1>1. /\ Log2(range) \in Nat
      /\ Cutoff(range) \in Nat /\ Cutoff(range) <= Pow2[Log2(range)] /\ Cutoff(range) <= range
      /\ offset < Cutoff(range) =>
           Truncated(offset, range) = Fixed(offset, Log2(range)) /\ offset < Pow2[Log2(range)]
      /\ ~(offset < Cutoff(range)) =>
           /\ Truncated(offset, range) = Fixed(offset + Cutoff(range), Log2(range) + 1)
           /\ offset + Cutoff(range) < Pow2[Log2(range) + 1]
  BY TruncatedIs
<1>2. PICK w \in Nat, cut \in Nat : w = Log2(range) /\ cut = Cutoff(range)
  BY <1>1
<1>3. Pow2[0] = 1 /\ \A x \in Nat : x \div 1 = x
  BY PowersDouble
<1>4. ReadTruncated(bits, limit, from, range)
        = IF from + Log2(range) > limit \/ from + size > limit \/ rank >= range
          THEN [ok |-> FALSE]
          ELSE [ok |-> TRUE, offset |-> rank, next |-> from + size]
  BY DEF ReadTruncated
<1>5. SUFFICES rank = offset /\ size = Len(Truncated(offset, range)) /\ w <= size
  <2>1. from + w <= limit /\ from + size <= limit /\ ~(rank >= range)
    <3>1. PICK s \in Int : s = size
      BY <1>2
    <3> HIDE DEF size, rank
    <3>2. from + s <= limit /\ w <= s
      BY <1>5, <3>1
    <3> QED BY <1>5, <3>1, <3>2
  <2> HIDE DEF size, rank
  <2>2. ReadTruncated(bits, limit, from, range) = [ok |-> TRUE, offset |-> rank, next |-> from + size]
    <3>1. PICK s \in Int : s = size
      BY <1>2 DEF size
    <3>2. PICK x \in Int : x = rank
      BY <1>5
    <3> QED BY <1>2, <1>4, <2>1, <3>1, <3>2
  <2> QED BY <1>5, <2>2
<1>6. CASE offset < cut
  <2>1. Truncated(offset, range) = Fixed(offset, w) /\ offset < Pow2[w] /\ offset \in Nat
    BY <1>1, <1>2, <1>6
  <2>2. w \in 0 .. w /\ w - w = 0
    OBVIOUS
  <2>3. Number(bits, from, w) = offset \div Pow2[w - w]
    BY <2>1, <2>2, LeadingBits
  <2>4. Number(bits, from, w) = offset
    BY <1>3, <2>1, <2>2, <2>3
  <2>5. Len(Truncated(offset, range)) = w
    BY <2>1, FixedIs
  <2>6. prefix = offset /\ size = w /\ rank = offset
    BY <1>2, <1>6, <2>4
  <2> HIDE DEF prefix, size, rank
  <2> QED BY <2>5, <2>6
<1>7. CASE ~(offset < cut)
  <2>1. PICK v \in Nat, n \in Nat \ {0} : v = offset + cut /\ n = w + 1
    OBVIOUS
  <2>2. Truncated(offset, range) = Fixed(v, n) /\ v < Pow2[n]
    BY <1>1, <1>2, <1>7, <2>1
  <2>3. n \in 0 .. n /\ n - n = 0 /\ w \in 0 .. n /\ n - w = 1
    BY <2>1
  <2>4. Number(bits, from, n) = v \div Pow2[n - n] /\ Number(bits, from, w) = v \div Pow2[n - w]
    BY <2>2, <2>3, LeadingBits
  <2>5. Pow2[1] = 2
    <3>1. 1 \in Nat \ {0} /\ 1 - 1 = 0
      OBVIOUS
    <3> QED BY <1>3, <3>1, PowersDouble
  <2>6. Number(bits, from, n) = v
    BY <1>3, <2>3, <2>4
  <2>7. Number(bits, from, w) = v \div 2
    BY <2>3, <2>4, <2>5
  <2>8. ~(v \div 2 < cut)
    BY <1>7, <2>1
  <2>9. ~(prefix < Cutoff(range)) /\ size = n /\ long = v
    BY <1>2, <2>1, <2>6, <2>7, <2>8
  <2>10. rank = v - cut /\ v - cut = offset
    BY <1>2, <2>1, <2>6, <2>9
  <2>11. Len(Truncated(offset, range)) = n
    BY <2>2, FixedIs
  <2> HIDE DEF prefix, size, rank, long
  <2> QED BY <2>1, <2>9, <2>10, <2>11
<1> QED BY <1>6, <1>7

-----------------------------------------------------------------------------
\* The codes of index ranges.

Codes(values, code) ==
  code = [part \in (1 .. Len(values)) \X (0 .. Len(values) - 1) |->
            SegmentCode(values, code, part[1], part[2])]
CodeOf(values) == CHOOSE code : Codes(values, code)

LEMMA MiddleIs ==
  ASSUME NEW i \in Nat, NEW j \in Nat, i <= j
  PROVE  Middle(i, j) \in i .. j
<1>1. PICK d \in Nat : d = j - i
  OBVIOUS
<1>2. Middle(i, j) = i + (d + 1) \div 2
  BY <1>1 DEF Middle
<1>3. (d + 1) \div 2 \in 0 .. d
  OBVIOUS
<1> QED BY <1>1, <1>2, <1>3

LEMMA SameSegmentCode ==
  ASSUME NEW values, NEW f, NEW g, NEW i, NEW j,
         ~(i > j) => /\ f[<<i, Middle(i, j) - 1>>] = g[<<i, Middle(i, j) - 1>>]
                     /\ f[<<Middle(i, j) + 1, j>>] = g[<<Middle(i, j) + 1, j>>]
  PROVE  SegmentCode(values, f, i, j) = SegmentCode(values, g, i, j)
BY DEF SegmentCode

LEMMA CodesExist ==
  ASSUME NEW values, Len(values) \in Nat
  PROVE  Codes(values, CodeOf(values))
<1> DEFINE n == Len(values)
           Parts == (1 .. n) \X (0 .. n - 1)
           Partly(f, m) == \A i \in 1 .. n, j \in 0 .. n - 1 :
                             j - i < m => f[<<i, j>>] = SegmentCode(values, f, i, j)
           Bad == {m \in Nat : ~ \E f : Partly(f, m)}
<1>1. ASSUME NEW i \in 1 .. n, NEW j \in 0 .. n - 1, ~(i > j)
      PROVE  /\ Middle(i, j) - 1 \in 0 .. n - 1 /\ Middle(i, j) + 1 \in 1 .. n
             /\ (Middle(i, j) - 1) - i < j - i
             /\ j - (Middle(i, j) + 1) < j - i
  <2>1. i \in Nat /\ j \in Nat /\ i <= j
    BY <1>1
  <2>2. Middle(i, j) \in i .. j
    BY ONLY <2>1, MiddleIs
  <2> QED BY <1>1, <2>2
<1>2. ASSUME NEW m \in Bad PROVE \E l \in Bad : ~(m <= l)
  <2>1. CASE m = 0
    <3> DEFINE f == [part \in Parts |-> <<>>]
    <3>1. Partly(f, 0)
      <4> TAKE i \in 1 .. n, j \in 0 .. n - 1
      <4>1. SUFFICES ASSUME j - i < 0 PROVE f[<<i, j>>] = SegmentCode(values, f, i, j)
        OBVIOUS
      <4>2. i > j
        BY <4>1
      <4>3. SegmentCode(values, f, i, j) = <<>>
        BY <4>2 DEF SegmentCode
      <4> QED BY <4>3
    <3> HIDE DEF f, Partly
    <3> QED BY <2>1, <3>1
  <2>2. CASE m /= 0
    <3>1. m - 1 \in Nat
      BY <2>2
    <3>2. SUFFICES ASSUME NEW f, Partly(f, m - 1) PROVE \E g : Partly(g, m)
      <4> HIDE DEF Partly
      <4> QED BY <3>1, <3>2
    <3> DEFINE g == [part \in Parts |-> SegmentCode(values, f, part[1], part[2])]
    <3>3. \A i \in 1 .. n, j \in 0 .. n - 1 : g[<<i, j>>] = SegmentCode(values, f, i, j)
      OBVIOUS
    <3> HIDE DEF g
    <3>4. Partly(g, m)
      <4> TAKE i \in 1 .. n, j \in 0 .. n - 1
      <4>1. SUFFICES ASSUME j - i < m PROVE g[<<i, j>>] = SegmentCode(values, g, i, j)
        OBVIOUS
      <4>2. \A k \in 1 .. n, l \in 0 .. n - 1 : l - k < j - i => f[<<k, l>>] = g[<<k, l>>]
        <5> TAKE k \in 1 .. n, l \in 0 .. n - 1
        <5>1. l - k < j - i => l - k < m - 1
          BY <4>1
        <5> QED BY <3>2, <3>3, <5>1
      <4>3. ASSUME ~(i > j)
            PROVE  /\ f[<<i, Middle(i, j) - 1>>] = g[<<i, Middle(i, j) - 1>>]
                   /\ f[<<Middle(i, j) + 1, j>>] = g[<<Middle(i, j) + 1, j>>]
        BY <1>1, <4>2, <4>3
      <4>4. SegmentCode(values, f, i, j) = SegmentCode(values, g, i, j)
        BY ONLY <4>3, SameSegmentCode
      <4> QED BY <3>3, <4>4
    <3> HIDE DEF Partly
    <3> QED BY <3>4
  <2> QED BY <2>1, <2>2
<1>3. Bad = {}
  <2>1. Bad \in SUBSET Nat
    OBVIOUS
  <2> HIDE DEF Bad
  <2> QED BY <1>2, <2>1, LeastNatural
<1>4. PICK f : Partly(f, n)
  <2> HIDE DEF Partly
  <2> QED BY <1>3
<1> DEFINE code == [part \in Parts |-> f[part]]
<1>5. \A i \in 1 .. n, j \in 0 .. n - 1 : code[<<i, j>>] = f[<<i, j>>]
  OBVIOUS
<1>6. \A i \in 1 .. n, j \in 0 .. n - 1 : code[<<i, j>>] = SegmentCode(values, code, i, j)
  <2> HIDE DEF code
  <2> TAKE i \in 1 .. n, j \in 0 .. n - 1
  <2>1. ASSUME ~(i > j)
        PROVE  /\ f[<<i, Middle(i, j) - 1>>] = code[<<i, Middle(i, j) - 1>>]
               /\ f[<<Middle(i, j) + 1, j>>] = code[<<Middle(i, j) + 1, j>>]
    BY <1>1, <1>5, <2>1
  <2>2. SegmentCode(values, f, i, j) = SegmentCode(values, code, i, j)
    BY <2>1, SameSegmentCode
  <2>3. j - i < n
    OBVIOUS
  <2> QED BY <1>4, <1>5, <2>2, <2>3
<1>7. Codes(values, code)
  <2>1. \A part \in Parts : code[part] = SegmentCode(values, code, part[1], part[2])
    <3> HIDE DEF code
    <3> TAKE part \in Parts
    <3>1. PICK i \in 1 .. n, j \in 0 .. n - 1 : part = <<i, j>>
      OBVIOUS
    <3> QED BY <1>6, <3>1
  <2>2. code = [part \in Parts |-> SegmentCode(values, code, part[1], part[2])]
    <3>1. code = [part \in Parts |-> code[part]]
      OBVIOUS
    <3> HIDE DEF code
    <3> QED BY <2>1, <3>1
  <2> HIDE DEF code
  <2> QED BY <2>2 DEF Codes
<1> HIDE DEF code
<1> QED BY <1>7 DEF CodeOf

Lower(values, i) == IF i = 1 THEN -1 ELSE values[i - 1]
RankOf(values, i, j) == values[Middle(i, j)] - Least(i, j, Lower(values, i))
RangeOf(values, i, j) == Greatest(i, j, values[j + 1]) - Least(i, j, Lower(values, i)) + 1

\* The median of a range lies in the interval that its neighbours leave.
LEMMA SegmentIs ==
  ASSUME NEW values \in Seq(U32), Increasing(values), NEW i \in 1 .. Len(values),
         NEW j \in 0 .. Len(values) - 1, i <= j
  PROVE  /\ Middle(i, j) \in i .. j
         /\ Least(i, j, Lower(values, i)) \in Int
         /\ Least(i, j, Lower(values, i)) <= Greatest(i, j, values[j + 1])
         /\ RangeOf(values, i, j) \in Nat \ {0}
         /\ RankOf(values, i, j) \in 0 .. RangeOf(values, i, j) - 1
         /\ RangeOf(values, i, j) < Pow2[MaxBitsPerValue]
         /\ CodeOf(values)[<<i, j>>]
              = Truncated(RankOf(values, i, j), RangeOf(values, i, j))
                  \o CodeOf(values)[<<i, Middle(i, j) - 1>>]
                  \o CodeOf(values)[<<Middle(i, j) + 1, j>>]
<1> DEFINE n == Len(values)
           m == Middle(i, j)
<1>1. /\ n \in Nat /\ DOMAIN values = 1 .. n
      /\ \A k \in 1 .. n : values[k] \in U32 /\ values[k] \in Nat /\ values[k] <= MaxValue
      /\ MaxValue \in Nat /\ values \in Seq(Nat)
  <2>1. n \in Nat /\ DOMAIN values = 1 .. n /\ \A k \in 1 .. n : values[k] \in U32
    BY SeqElements
  <2>2. MaxValue \in Nat
    BY MaxValueIs
  <2>3. \A k \in 1 .. n : values[k] \in Nat /\ values[k] <= MaxValue
    BY <2>1, <2>2 DEF U32
  <2>4. values \in [1 .. n -> U32]
    OBVIOUS
  <2>5. values \in [1 .. n -> Nat]
    BY <2>3, <2>4
  <2> QED BY <2>1, <2>2, <2>3, <2>5
<1>2. m \in i .. j
  <2>1. i \in Nat /\ j \in Nat /\ i <= j
    OBVIOUS
  <2> QED BY ONLY <2>1, MiddleIs
<1> HIDE DEF m, n
<1>3. i \in 1 .. n /\ j \in 0 .. n - 1 /\ m \in 1 .. n /\ j + 1 \in 1 .. n /\ j + 1 \in m .. n
  BY <1>1, <1>2 DEF n
<1>4. PICK x \in Nat, y \in Nat : /\ x = values[m] /\ y = values[j + 1]
                                  /\ x + ((j + 1) - m) <= y /\ y <= MaxValue
  <2>1. \A k \in m .. n : values[m] + (k - m) <= values[k]
    BY <1>1, <1>3, ApartAtLeast DEF n
  <2> QED BY <1>1, <1>3, <2>1
<1>5. PICK w \in Int : w = Lower(values, i) /\ w >= -1 /\ w + (m - i) + 1 <= x
  <2>1. CASE i = 1
    <3>1. m - 1 <= values[m]
      BY <1>1, <1>3, ApartAtLeast DEF n
    <3> QED BY <1>2, <1>3, <1>4, <2>1, <3>1 DEF Lower
  <2>2. CASE i /= 1
    <3>1. PICK h \in 1 .. n : h = i - 1 /\ m \in h .. n
      BY <1>1, <1>2, <1>3, <2>2
    <3>2. \A k \in h .. n : values[h] + (k - h) <= values[k]
      BY <1>1, ApartAtLeast DEF n
    <3>3. PICK z \in Nat : z = values[h] /\ z + (m - h) <= x
      BY <1>1, <1>4, <3>1, <3>2
    <3>4. Lower(values, i) = z
      BY <2>2, <3>1, <3>3 DEF Lower
    <3>5. z + (m - i) + 1 <= x /\ z >= -1
      BY <1>2, <1>3, <3>1, <3>3
    <3> QED BY <3>4, <3>5
  <2> QED BY <2>1, <2>2
<1>6. /\ Least(i, j, Lower(values, i)) = w + (m - i) + 1
      /\ Greatest(i, j, values[j + 1]) = y - (j - m) - 1
  BY <1>4, <1>5 DEF Least, Greatest, m
<1>7. PICK least \in Int, greatest \in Int :
        /\ least = Least(i, j, Lower(values, i)) /\ greatest = Greatest(i, j, values[j + 1])
        /\ least <= x /\ x <= greatest /\ greatest - least + 1 <= MaxValue
  <2>1. i \in Int /\ j \in Int /\ m \in Int /\ i <= m /\ m <= j
    BY <1>2
  <2>2. w + (m - i) + 1 <= x /\ x <= y - (j - m) - 1
        /\ (y - (j - m) - 1) - (w + (m - i) + 1) + 1 <= MaxValue
    <3>1. PICK top \in Nat : top = MaxValue
      BY <1>1
    <3>2. x + ((j + 1) - m) <= y /\ y <= top /\ w >= -1 /\ w + (m - i) + 1 <= x
      BY ONLY <1>4, <1>5, <3>1
    <3>3. w + (m - i) + 1 <= x /\ x <= y - (j - m) - 1
          /\ (y - (j - m) - 1) - (w + (m - i) + 1) + 1 <= top
      BY ONLY <2>1, <3>2, x \in Nat, y \in Nat, w \in Int, top \in Nat
    <3> QED BY ONLY <3>1, <3>3
  <2>3. w + (m - i) + 1 \in Int /\ y - (j - m) - 1 \in Int
    BY <2>1
  <2> QED BY <1>6, <2>2, <2>3
<1>8. /\ RangeOf(values, i, j) = greatest - least + 1
      /\ RankOf(values, i, j) = x - least
  BY <1>4, <1>7 DEF RangeOf, RankOf, m
<1>9. RangeOf(values, i, j) < Pow2[MaxBitsPerValue]
  <2>1. MaxValue < Pow2[MaxBitsPerValue] /\ Pow2[MaxBitsPerValue] \in Nat
    BY BitsAssumption, PowersGrow
  <2>2. PICK top \in Nat, p \in Nat : top = MaxValue /\ p = Pow2[MaxBitsPerValue]
    BY <1>1, <2>1
  <2>3. RangeOf(values, i, j) = greatest - least + 1 /\ greatest - least + 1 <= top /\ top < p
    BY ONLY <1>7, <1>8, <2>1, <2>2
  <2>4. RangeOf(values, i, j) < p
    BY ONLY <2>3, greatest \in Int, least \in Int, top \in Nat, p \in Nat
  <2> QED BY ONLY <2>2, <2>4
<1>10. CodeOf(values)[<<i, j>>] = SegmentCode(values, CodeOf(values), i, j)
  <2>1. Codes(values, CodeOf(values))
    BY <1>1, CodesExist DEF n
  <2> DEFINE code == CodeOf(values)
  <2>2. code = [part \in (1 .. n) \X (0 .. n - 1) |-> SegmentCode(values, code, part[1], part[2])]
    BY <2>1 DEF Codes, n
  <2> HIDE DEF code
  <2>3. code[<<i, j>>] = SegmentCode(values, code, i, j)
    BY <1>3, <2>2
  <2> QED BY <2>3 DEF code
<1>11. SegmentCode(values, CodeOf(values), i, j)
         = Truncated(RankOf(values, i, j), RangeOf(values, i, j))
             \o CodeOf(values)[<<i, Middle(i, j) - 1>>]
             \o CodeOf(values)[<<Middle(i, j) + 1, j>>]
  <2>1. ~(i > j)
    OBVIOUS
  <2> QED BY <2>1 DEF SegmentCode, RankOf, RangeOf, Lower
<1>12. RangeOf(values, i, j) \in Nat \ {0} /\ RankOf(values, i, j) \in 0 .. RangeOf(values, i, j) - 1
  <2>1. least <= x /\ x <= greatest
    BY ONLY <1>7
  <2>2. greatest - least + 1 \in Nat \ {0} /\ x - least \in 0 .. (greatest - least + 1) - 1
    BY ONLY <2>1, x \in Nat, least \in Int, greatest \in Int
  <2> QED BY ONLY <1>8, <2>2
<1> QED BY <1>2, <1>7, <1>9, <1>10, <1>11, <1>12 DEF m

\* Codes are bits, and no more than the budget.
LEMMA CodeIs ==
  ASSUME NEW values \in Seq(U32), Increasing(values)
  PROVE  \A i \in 1 .. Len(values), j \in 0 .. Len(values) - 1 :
           /\ CodeOf(values)[<<i, j>>] \in Seq({0, 1})
           /\ i > j => CodeOf(values)[<<i, j>>] = <<>>
           /\ i <= j => Len(CodeOf(values)[<<i, j>>]) <= ((j - i) + 1) * MaxBitsPerValue
<1> DEFINE n == Len(values)
           code == CodeOf(values)
           Fits(i, j) == code[<<i, j>>] \in Seq({0, 1})
                         /\ (i <= j => Len(code[<<i, j>>]) <= ((j - i) + 1) * MaxBitsPerValue)
           Bad == {d \in Nat : \E i \in 1 .. n, j \in 0 .. n - 1 : j - i < d /\ ~Fits(i, j)}
<1>1. n \in Nat /\ MaxBitsPerValue \in Nat
  BY BitsAssumption, SeqElements
<1>2. \A i \in 1 .. n, j \in 0 .. n - 1 : i > j => code[<<i, j>>] = <<>>
  <2> TAKE i \in 1 .. n, j \in 0 .. n - 1
  <2>1. SUFFICES ASSUME i > j PROVE code[<<i, j>>] = <<>>
    OBVIOUS
  <2>2. Codes(values, CodeOf(values))
    BY <1>1, CodesExist
  <2>3. code = [part \in (1 .. n) \X (0 .. n - 1) |-> SegmentCode(values, code, part[1], part[2])]
    BY <2>2 DEF Codes
  <2> HIDE DEF code, n
  <2>4. code[<<i, j>>] = SegmentCode(values, code, i, j)
    BY <2>3
  <2> QED BY <2>1, <2>4 DEF SegmentCode
<1>3. ASSUME NEW d \in Bad PROVE \E l \in Bad : ~(d <= l)
  <2>1. PICK i \in 1 .. n, j \in 0 .. n - 1 : j - i < d /\ ~Fits(i, j)
    OBVIOUS
  <2>2. i <= j
    <3>1. SUFFICES ASSUME i > j PROVE Fits(i, j)
      BY <2>1
    <3>2. code[<<i, j>>] = <<>> /\ <<>> \in Seq({0, 1}) /\ ~(i <= j)
      BY <1>2, <3>1
    <3> HIDE DEF code
    <3> QED BY <3>2
  <2> DEFINE m == Middle(i, j)
             rank == RankOf(values, i, j)
             range == RangeOf(values, i, j)
  <2>3. /\ m \in i .. j /\ range \in Nat \ {0} /\ rank \in 0 .. range - 1
        /\ range < Pow2[MaxBitsPerValue]
        /\ code[<<i, j>>] = Truncated(rank, range) \o code[<<i, m - 1>>] \o code[<<m + 1, j>>]
    BY <2>2, SegmentIs
  <2> HIDE DEF m, rank, range, code
  <2>4. PICK t \in Seq({0, 1}) : t = Truncated(rank, range) /\ Len(t) <= MaxBitsPerValue
    BY <1>1, <2>3, TruncatedIs
  <2>5. CASE Fits(i, m - 1) /\ Fits(m + 1, j)
    <3>1. PICK a \in Seq({0, 1}), b \in Seq({0, 1}) : a = code[<<i, m - 1>>] /\ b = code[<<m + 1, j>>]
      BY <2>5
    <3>2. code[<<i, j>>] = t \o a \o b
      BY <2>3, <2>4, <3>1
    <3>3. t \o a \in Seq({0, 1}) /\ Len(t \o a) = Len(t) + Len(a) /\ Len(t) \in Nat /\ Len(a) \in Nat
      BY ONLY t \in Seq({0, 1}), a \in Seq({0, 1}), Concatenated
    <3> DEFINE ta == t \o a
    <3>4. ta \in Seq({0, 1})
      BY <3>3
    <3> HIDE DEF ta
    <3>5. ta \o b \in Seq({0, 1}) /\ Len(ta \o b) = Len(ta) + Len(b) /\ Len(b) \in Nat
      BY ONLY <3>4, b \in Seq({0, 1}), Concatenated
    <3>6. code[<<i, j>>] \in Seq({0, 1}) /\ Len(code[<<i, j>>]) = Len(t) + Len(a) + Len(b)
      BY ONLY <3>2, <3>3, <3>5 DEF ta
    <3>7. Len(a) <= (m - i) * MaxBitsPerValue
      <4>1. m - 1 \in 0 .. n - 1 /\ ((m - 1) - i) + 1 = m - i
        BY <2>3, <1>1
      <4>2. CASE i <= m - 1
        BY <2>5, <3>1, <4>1, <4>2
      <4>3. CASE i > m - 1
        <5>1. a = <<>> /\ m - i = 0
          BY <1>2, <2>3, <3>1, <4>1, <4>3
        <5>2. (m - i) * MaxBitsPerValue = 0
          BY <1>1, <5>1
        <5> QED BY <5>1, <5>2
      <4> QED BY <2>3, <4>1, <4>2, <4>3
    <3>8. Len(b) <= (j - m) * MaxBitsPerValue
      <4>1. m + 1 \in 1 .. n /\ (j - (m + 1)) + 1 = j - m
        <5>1. m \in i .. j /\ n \in Nat
          BY <1>1, <2>3
        <5> QED BY ONLY <5>1, i \in 1 .. n, j \in 0 .. n - 1
      <4>2. CASE m + 1 <= j
        BY <2>5, <3>1, <4>1, <4>2
      <4>3. CASE m + 1 > j
        <5>1. b = <<>> /\ j - m = 0
          BY <1>2, <2>3, <3>1, <4>1, <4>3
        <5>2. (j - m) * MaxBitsPerValue = 0
          BY <1>1, <5>1
        <5> QED BY <5>1, <5>2
      <4> QED BY <2>3, <4>1, <4>2, <4>3
    <3>9. ((j - i) + 1) * MaxBitsPerValue
            = MaxBitsPerValue + (m - i) * MaxBitsPerValue + (j - m) * MaxBitsPerValue
      <4>1. PICK x \in Nat, y \in Nat : x = m - i /\ y = j - m /\ (j - i) + 1 = 1 + x + y
        <5>1. m \in i .. j
          BY <2>3
        <5>2. m - i \in Nat /\ j - m \in Nat /\ (j - i) + 1 = 1 + (m - i) + (j - m)
          BY ONLY <5>1, i \in 1 .. n, j \in 0 .. n - 1
        <5> QED BY ONLY <5>2
      <4>2. (1 + x + y) * MaxBitsPerValue
              = MaxBitsPerValue + x * MaxBitsPerValue + y * MaxBitsPerValue
        BY ONLY <1>1, x \in Nat, y \in Nat
      <4> QED BY ONLY <4>1, <4>2
    <3>10. PICK p \in Int, q \in Int : p = (m - i) * MaxBitsPerValue /\ q = (j - m) * MaxBitsPerValue
      BY <1>1, <2>3
    <3>11. Len(code[<<i, j>>]) <= ((j - i) + 1) * MaxBitsPerValue
      <4>1. PICK u \in Nat, v \in Nat, w \in Nat : u = Len(t) /\ v = Len(a) /\ w = Len(b)
        BY <3>3, <3>5
      <4>2. u + v + w <= MaxBitsPerValue + p + q
        <5>1. u <= MaxBitsPerValue /\ v <= p /\ w <= q
          BY ONLY <2>4, <3>7, <3>8, <3>10, <4>1
        <5> QED BY ONLY <1>1, <5>1, u \in Nat, v \in Nat, w \in Nat, p \in Int, q \in Int
      <4>3. PICK whole \in Int : whole = ((j - i) + 1) * MaxBitsPerValue
        BY ONLY <1>1, <3>9, <3>10
      <4>4. whole = MaxBitsPerValue + p + q
        BY ONLY <3>9, <3>10, <4>3
      <4>5. Len(code[<<i, j>>]) = u + v + w
        BY ONLY <3>6, <4>1
      <4> QED BY ONLY <4>2, <4>3, <4>4, <4>5
    <3> QED BY <2>1, <3>6, <3>11
  <2>6. CASE ~Fits(i, m - 1)
    <3>1. m - 1 \in 0 .. n - 1 /\ (m - 1) - i < d - 1 /\ d - 1 \in Nat
      <4>1. m \in i .. j /\ n \in Nat /\ j - i < d /\ d \in Nat
        BY <1>1, <2>1, <2>3
      <4> QED BY ONLY <2>2, <4>1, i \in 1 .. n, j \in 0 .. n - 1
    <3> HIDE DEF Fits
    <3>2. d - 1 \in Bad
      BY <2>6, <3>1
    <3>3. ~(d <= d - 1)
      BY <3>1
    <3> HIDE DEF Bad
    <3> QED BY <3>2, <3>3
  <2>7. CASE ~Fits(m + 1, j)
    <3>1. m + 1 \in 1 .. n /\ j - (m + 1) < d - 1 /\ d - 1 \in Nat
      <4>1. m \in i .. j /\ n \in Nat /\ j - i < d /\ d \in Nat
        BY <1>1, <2>1, <2>3
      <4> QED BY ONLY <2>2, <4>1, i \in 1 .. n, j \in 0 .. n - 1
    <3> HIDE DEF Fits
    <3>2. d - 1 \in Bad
      BY <2>7, <3>1
    <3>3. ~(d <= d - 1)
      BY <3>1
    <3> HIDE DEF Bad
    <3> QED BY <3>2, <3>3
  <2> HIDE DEF Fits
  <2> QED BY <2>5, <2>6, <2>7
<1>4. Bad = {}
  <2>1. Bad \in SUBSET Nat
    OBVIOUS
  <2> HIDE DEF Bad
  <2> QED BY <1>3, <2>1, LeastNatural
<1>5. ASSUME NEW i \in 1 .. n, NEW j \in 0 .. n - 1 PROVE Fits(i, j)
  <2>1. n \in Nat /\ j - i < n
    BY <1>1
  <2> HIDE DEF Fits
  <2> QED BY <1>4, <2>1
<1> QED BY <1>2, <1>5

\* What is read where the code of a range stands.
MedianIsRead(values, i, j, bits, from, limit) ==
  /\ ReadTruncated(bits, limit, from, RangeOf(values, i, j)).ok
  /\ ReadTruncated(bits, limit, from, RangeOf(values, i, j)).offset = RankOf(values, i, j)
  /\ \E next \in Nat, left \in Nat, right \in Nat :
       /\ next = ReadTruncated(bits, limit, from, RangeOf(values, i, j)).next
       /\ left = Len(CodeOf(values)[<<i, Middle(i, j) - 1>>])
       /\ right = Len(CodeOf(values)[<<Middle(i, j) + 1, j>>])
       /\ Coded(bits, next, CodeOf(values)[<<i, Middle(i, j) - 1>>])
       /\ Coded(bits, next + left, CodeOf(values)[<<Middle(i, j) + 1, j>>])
       /\ next + left + right = from + Len(CodeOf(values)[<<i, j>>])

\* A median is read where the code of its range stands, and the codes beside it follow.
LEMMA MedianReads ==
  ASSUME NEW values \in Seq(U32), Increasing(values), NEW i \in 1 .. Len(values),
         NEW j \in 0 .. Len(values) - 1, i <= j,
         NEW bits, Len(bits) \in Nat, NEW from \in Nat, NEW limit \in Nat,
         Coded(bits, from, CodeOf(values)[<<i, j>>]),
         from + Len(CodeOf(values)[<<i, j>>]) <= limit
  PROVE  MedianIsRead(values, i, j, bits, from, limit)
<1> DEFINE n == Len(values)
           m == Middle(i, j)
           rank == RankOf(values, i, j)
           range == RangeOf(values, i, j)
           code == CodeOf(values)[<<i, j>>]
           read == ReadTruncated(bits, limit, from, range)
<1>1. /\ m \in i .. j /\ range \in Nat \ {0} /\ rank \in 0 .. range - 1
      /\ code = Truncated(rank, range) \o CodeOf(values)[<<i, m - 1>>] \o CodeOf(values)[<<m + 1, j>>]
  BY SegmentIs
<1>2. n \in Nat
  BY SeqElements
<1> HIDE DEF m, rank, range, n, code
<1>3. PICK t \in Seq({0, 1}) : t = Truncated(rank, range)
  BY <1>1, TruncatedIs
<1>4. PICK a \in Seq({0, 1}), b \in Seq({0, 1}) :
        a = CodeOf(values)[<<i, m - 1>>] /\ b = CodeOf(values)[<<m + 1, j>>]
  <2>1. i \in 1 .. n /\ m - 1 \in 0 .. n - 1 /\ m + 1 \in 1 .. n /\ j \in 0 .. n - 1
    BY <1>1, <1>2 DEF n
  <2> QED BY <2>1, CodeIs DEF n
<1>5. code = (t \o a) \o b
  BY <1>1, <1>3, <1>4
<1>6. /\ t \o a \in Seq({0, 1}) /\ Len(t \o a) = Len(t) + Len(a)
      /\ Coded(t \o a, 0, t) /\ Coded(t \o a, Len(t), a)
      /\ Len(t) \in Nat /\ Len(a) \in Nat /\ Len(b) \in Nat
  BY CodedInBoth, Concatenated
<1>7. PICK ta \in Seq({0, 1}) : ta = t \o a
  BY <1>6
<1>8. /\ ta \o b \in Seq({0, 1}) /\ Len(ta \o b) = Len(ta) + Len(b)
      /\ Coded(ta \o b, 0, ta) /\ Coded(ta \o b, Len(ta), b)
  BY CodedInBoth
<1>9. /\ Len(code) = Len(t) + Len(a) + Len(b) /\ Len(code) \in Nat
      /\ Coded(code, 0, t) /\ Coded(code, Len(t), a) /\ Coded(code, Len(t) + Len(a), b)
  <2>1. code = ta \o b /\ Len(ta) = Len(t) + Len(a) /\ Len(ta) \in Nat
    BY <1>5, <1>6, <1>7
  <2>2. Len(code) \in Nat /\ Len(code) = Len(ta) + Len(b)
    BY <1>6, <1>8, <2>1
  <2>3. Coded(code, 0, ta) /\ Coded(ta, 0, t) /\ Coded(ta, Len(t), a) /\ Coded(code, Len(ta), b)
    BY <1>6, <1>7, <1>8, <2>1
  <2>4. PICK s \in Nat : s = Len(t)
    BY <1>6
  <2>5. Coded(code, 0 + 0, t) /\ Coded(code, 0 + s, a)
    <3>1. 0 \in Nat
      OBVIOUS
    <3> QED BY <1>6, <2>1, <2>2, <2>3, <2>4, <3>1, CodedWithin
  <2>6. 0 + 0 = 0 /\ 0 + s = s
    OBVIOUS
  <2> QED BY <2>1, <2>2, <2>3, <2>4, <2>5, <2>6
<1>10. /\ Coded(bits, from + 0, t) /\ Coded(bits, from + Len(t), a)
       /\ Coded(bits, from + (Len(t) + Len(a)), b)
  <2>1. PICK s \in Nat, u \in Nat : s = Len(t) /\ u = Len(t) + Len(a)
    BY <1>6
  <2>2. Coded(bits, from, code) /\ Coded(code, s, a) /\ Coded(code, u, b) /\ Coded(code, 0, t)
    BY <1>9, <2>1 DEF code
  <2>3. Coded(bits, from + 0, t)
    BY <1>6, <1>9, <2>2, 0 \in Nat, CodedWithin
  <2>4. Coded(bits, from + s, a)
    BY <1>6, <1>9, <2>2, CodedWithin
  <2>5. Coded(bits, from + u, b)
    BY <1>6, <1>9, <2>2, CodedWithin
  <2> QED BY <2>1, <2>3, <2>4, <2>5
<1>11. read.ok /\ read.offset = rank /\ read.next = from + Len(t)
  <2>1. from + Len(t) <= limit
    <3>1. from + Len(code) <= limit
      BY DEF code
    <3> QED BY ONLY <1>6, <1>9, <3>1, from \in Nat, limit \in Nat
  <2>2. Coded(bits, from, t)
    <3>1. from + 0 = from
      OBVIOUS
    <3> QED BY <1>10, <3>1
  <2>3. /\ range \in Nat \ {0} /\ rank \in 0 .. range - 1
        /\ Coded(bits, from, Truncated(rank, range))
        /\ from + Len(Truncated(rank, range)) <= limit
    BY ONLY <1>1, <1>3, <2>1, <2>2
  <2>4. read.ok /\ read.offset = rank /\ read.next = from + Len(Truncated(rank, range))
    BY ONLY <2>3, from \in Nat, limit \in Nat, RankReadsBack DEF read
  <2> QED BY ONLY <1>3, <2>4
<1>12. PICK next \in Nat, left \in Nat, right \in Nat :
         next = from + Len(t) /\ left = Len(a) /\ right = Len(b)
  BY <1>6
<1>13. next + left = from + (Len(t) + Len(a)) /\ next + left + right = from + Len(code)
  BY <1>6, <1>9, <1>12
<1>14. /\ next = read.next
       /\ left = Len(CodeOf(values)[<<i, m - 1>>])
       /\ right = Len(CodeOf(values)[<<m + 1, j>>])
       /\ Coded(bits, next, CodeOf(values)[<<i, m - 1>>])
       /\ Coded(bits, next + left, CodeOf(values)[<<m + 1, j>>])
       /\ next + left + right = from + Len(code)
  BY <1>4, <1>10, <1>11, <1>12, <1>13
<1> HIDE DEF read
<1> QED BY <1>11, <1>14 DEF MedianIsRead, m, rank, range, code, read

LEMMA WholeBytesIs ==
  ASSUME NEW b \in Nat
  PROVE  WholeBytes(b) \in Nat /\ b <= WholeBytes(b)
<1>1. ByteBits \in Nat \ {0}
  BY ByteAssumption
<1>2. PICK q \in Nat, r \in 0 .. ByteBits - 1 :
        q = (b + ByteBits - 1) \div ByteBits /\ b + ByteBits - 1 = q * ByteBits + r
  <2>1. PICK t \in Nat : t = b + ByteBits - 1
    BY <1>1
  <2>2. t % ByteBits \in 0 .. ByteBits - 1 /\ t \div ByteBits \in Nat
        /\ t = (t \div ByteBits) * ByteBits + (t % ByteBits)
    BY ONLY <1>1, t \in Nat, Division
  <2> QED BY ONLY <2>1, <2>2
<1>3. PICK p \in Nat : p = q * ByteBits /\ WholeBytes(b) = p
  <2>1. q * ByteBits \in Nat /\ ByteBits * q = q * ByteBits
    BY <1>1
  <2> QED BY <1>2, <2>1 DEF WholeBytes
<1> QED BY <1>1, <1>2, <1>3

\* What the encoder of ranges writes is opened.
LEMMA InterpolativeOpensBack ==
  ASSUME NEW values \in Seq(U32), Increasing(values), Len(values) /= 0
  PROVE  /\ InterpolativeOpens(EncodeInterpolative(values), Len(values))
         /\ EncodeInterpolative(values).last = values[Len(values)]
         /\ EncodeInterpolative(values).size = Len(CodeOf(values)[<<1, Len(values) - 1>>])
         /\ EncodeInterpolative(values).size \in Nat
         /\ Len(EncodeInterpolative(values).bits) \in Nat
         /\ Coded(EncodeInterpolative(values).bits, 0, CodeOf(values)[<<1, Len(values) - 1>>])
         /\ EncodeInterpolative(values).bits \in Seq({0, 1})
         /\ EncodeInterpolative(values)
              = [last |-> EncodeInterpolative(values).last,
                 size |-> EncodeInterpolative(values).size,
                 bits |-> EncodeInterpolative(values).bits]
<1> DEFINE n == Len(values)
           code == CodeOf(values)[<<1, n - 1>>]
           block == EncodeInterpolative(values)
           padding == [k \in 1 .. WholeBytes(Len(code)) - Len(code) |-> 0]
<1>1. /\ block.last = values[n]
      /\ block.size = Len(code)
      /\ block.bits = code \o padding
  BY DEF EncodeInterpolative, CodeOf, Codes
<1>0. block = [last |-> block.last, size |-> block.size, bits |-> block.bits]
  <2>1. PICK x, y, z : block = [last |-> x, size |-> y, bits |-> z]
    BY DEF EncodeInterpolative
  <2> HIDE DEF block
  <2> QED BY <2>1
<1>2. n \in Nat /\ n > 0 /\ 1 \in 1 .. n /\ n - 1 \in 0 .. n - 1 /\ n \in 1 .. n
  BY SeqElements
<1>3. code \in Seq({0, 1}) /\ Len(code) \in Nat /\ Len(code) <= BitBudget(n)
  <2>1. /\ code \in Seq({0, 1}) /\ (1 > n - 1 => code = <<>>)
        /\ (1 <= n - 1 => Len(code) <= (((n - 1) - 1) + 1) * MaxBitsPerValue)
    BY <1>2, CodeIs
  <2> HIDE DEF code, n
  <2>2. MaxBitsPerValue \in Nat
    BY BitsAssumption
  <2>3. CASE 1 <= n - 1
    <3>1. ((n - 1) - 1) + 1 = n - 1
      BY <1>2
    <3> QED BY <2>1, <2>3, <3>1 DEF BitBudget
  <2>4. CASE 1 > n - 1
    <3>1. Len(code) = 0 /\ n - 1 = 0
      BY <1>2, <2>1, <2>4
    <3>2. (n - 1) * MaxBitsPerValue = 0
      BY <2>2, <3>1
    <3> QED BY <2>1, <3>1, <3>2 DEF BitBudget
  <2> QED BY <1>2, <2>3, <2>4
<1> HIDE DEF block
<1>4. /\ padding \in Seq({0, 1}) /\ Len(padding) = WholeBytes(Len(code)) - Len(code)
      /\ \A k \in 1 .. Len(padding) : padding[k] = 0
  <2>1. WholeBytes(Len(code)) - Len(code) \in Nat
    <3>1. PICK b \in Nat : b = Len(code)
      BY <1>3
    <3>2. WholeBytes(b) \in Nat /\ b <= WholeBytes(b)
      BY WholeBytesIs
    <3> QED BY <3>1, <3>2
  <2> DEFINE l == WholeBytes(Len(code)) - Len(code)
  <2>2. padding \in [1 .. l -> {0, 1}] /\ l \in Nat /\ \A k \in 1 .. l : padding[k] = 0
    BY <2>1
  <2> HIDE DEF padding, l
  <2>3. padding \in Seq({0, 1}) /\ Len(padding) = l
    BY <2>2, FunctionIsSeq
  <2>4. padding \in Seq({0, 1}) /\ Len(padding) = l /\ \A k \in 1 .. Len(padding) : padding[k] = 0
    BY <2>2, <2>3
  <2> QED BY <2>4 DEF l
<1> HIDE DEF padding, code
<1>5. /\ code \o padding \in Seq({0, 1}) /\ Len(code \o padding) = Len(code) + Len(padding)
      /\ \A k \in 1 .. Len(padding) : (code \o padding)[Len(code) + k] = padding[k]
      /\ Len(padding) \in Nat
      /\ Coded(code \o padding, 0, code)
  <2>1. code \in Seq({0, 1}) /\ padding \in Seq({0, 1})
    BY <1>3, <1>4
  <2>2. /\ code \o padding \in Seq({0, 1}) /\ Len(code \o padding) = Len(code) + Len(padding)
        /\ \A k \in 1 .. Len(padding) : (code \o padding)[Len(code) + k] = padding[k]
        /\ Len(padding) \in Nat
    BY ONLY <2>1, Concatenated
  <2>3. Coded(code \o padding, 0, code)
    BY ONLY <2>1, CodedInBoth
  <2> QED BY <2>2, <2>3
<1>6. Len(block.bits) = WholeBytes(block.size) /\ Len(block.bits) \in Nat
  <2>1. WholeBytes(Len(code)) \in Nat
    BY <1>3, WholeBytesIs
  <2> QED BY <1>1, <1>3, <1>4, <1>5, <2>1
<1>7. \A k \in block.size + 1 .. Len(block.bits) : block.bits[k] = 0
  <2> TAKE k \in block.size + 1 .. Len(block.bits)
  <2>1. PICK b \in Nat, l \in Nat : b = Len(code) /\ l = Len(padding)
    BY <1>3, <1>5
  <2>2. k \in b + 1 .. b + l
    BY <1>1, <1>5, <2>1
  <2>3. k - b \in 1 .. l /\ b + (k - b) = k
    BY <2>2
  <2> QED BY <1>1, <1>4, <1>5, <2>1, <2>3
<1>8. ShapeFits(block.last, n)
  <2>1. values \in Seq(Nat)
    <3>1. values \in [1 .. n -> U32]
      OBVIOUS
    <3>2. \A k \in 1 .. n : values[k] \in Nat
      BY <3>1, MaxValueIs DEF U32
    <3>3. values \in [1 .. n -> Nat]
      BY <3>1, <3>2
    <3> QED BY <3>3
  <2>2. n - 1 <= values[n] /\ values[n] \in Nat
    BY <1>2, <2>1, ApartAtLeast
  <2> HIDE DEF n
  <2> QED BY <1>1, <1>2, <2>2 DEF ShapeFits
<1>9. InterpolativeOpens(block, n)
  BY <1>1, <1>3, <1>6, <1>7, <1>8 DEF InterpolativeOpens
<1> QED BY <1>0, <1>1, <1>3, <1>5, <1>6, <1>9 DEF block, code

-----------------------------------------------------------------------------
\* The bits of Elias-Fano.

LEMMA QuotientGrows ==
  ASSUME NEW a \in Nat, NEW b \in Nat, a <= b, NEW c \in Nat \ {0}
  PROVE  a \div c <= b \div c
<1>1. PICK q \in Nat, r \in 0 .. c - 1 : q = a \div c /\ a = q * c + r
  BY Division
<1>2. PICK s \in Nat, u \in 0 .. c - 1 : s = b \div c /\ b = s * c + u
  BY Division
<1>3. ~(s < q)
  <2>1. SUFFICES ASSUME s < q PROVE FALSE
    OBVIOUS
  <2>2. PICK d \in Nat : q = s + 1 + d
    <3>1. q - s - 1 \in Nat /\ q = s + 1 + (q - s - 1)
      BY <2>1
    <3> QED BY <3>1
  <2>3. q * c = s * c + c + d * c
    BY <2>2
  <2>4. s * c \in Nat /\ d * c \in Nat
    OBVIOUS
  <2> QED BY ONLY <1>1, <1>2, <2>3, <2>4, a <= b, a \in Nat, b \in Nat, c \in Nat,
                  r \in 0 .. c - 1, u \in 0 .. c - 1
<1> QED BY <1>1, <1>2, <1>3

\* The bits that are set below a width add up to the rest of the division by its power.
BitsBelow(ones, v, width) ==
  /\ ones \subseteq Nat
  /\ \A d \in Nat : d \in ones <=> d < width /\ (v \div Pow2[d]) % 2 = 1

OnesBelow(ones, k) == {d \in ones : d < k}
Weights(ones) == [d \in ones |-> Pow2[d]]

LEMMA OneMoreWeight ==
  ASSUME NEW S, S \subseteq Nat, IsFiniteSet(S), NEW l \in Nat, l \notin S
  PROVE  SumFunction(Weights(S \union {l})) = SumFunction(Weights(S)) + Pow2[l]
<1> DEFINE more == Weights(S \union {l})
           less == Weights(S)
<1>1. /\ DOMAIN more = S \union {l} /\ DOMAIN less = S
      /\ \A d \in S \union {l} : more[d] = Pow2[d]
      /\ \A d \in S : less[d] = Pow2[d]
  BY DEF Weights
<1>2. \A d \in S \union {l} : Pow2[d] \in Int
  BY PowersGrow
<1> HIDE DEF more, less
<1>3. \A y \in S \union {l} : more[y] \in Int
  BY <1>1, <1>2
<1>4. \A y \in S : less[y] = more[y]
  BY <1>1
<1>5. DOMAIN more = S \union {l} /\ DOMAIN less = S
  BY <1>1
<1>6. SumFunction(more) = SumFunction(less) + more[l]
  BY ONLY <1>3, <1>4, <1>5, IsFiniteSet(S), l \notin S, SumOfMore
<1> QED BY <1>1, <1>6 DEF more, less

LEMMA LowBitsAdd ==
  ASSUME NEW v \in Nat, NEW width \in Nat, NEW ones, BitsBelow(ones, v, width)
  PROVE  SumFunction(Weights(ones)) = v % Pow2[width]
<1> DEFINE Sum(k) == SumFunction(Weights(OnesBelow(ones, k)))
           Bad == {k \in 0 .. width : Sum(k) /= v % Pow2[k]}
<1>0. \A d \in ones : d \in Nat
  BY DEF BitsBelow
<1>1. \A d \in Nat : d \in ones <=> d < width /\ (v \div Pow2[d]) % 2 = 1
  BY DEF BitsBelow
<1>2. ASSUME NEW k \in Nat
      PROVE  IsFiniteSet(OnesBelow(ones, k)) /\ OnesBelow(ones, k) \subseteq Nat
  <2>1. IsFiniteSet(0 .. k - 1)
    BY FS_Interval
  <2>2. OnesBelow(ones, k) \in SUBSET (0 .. k - 1)
    BY ONLY <1>0, k \in Nat DEF OnesBelow
  <2> QED BY <2>1, <2>2, FS_Subset
<1>3. ASSUME NEW k \in Bad PROVE \E l \in Bad : ~(k <= l)
  <2>1. CASE k = 0
    <3>1. OnesBelow(ones, 0) = {}
      BY ONLY <1>0 DEF OnesBelow
    <3>2. Sum(0) = 0
      <4>1. DOMAIN Weights({}) = {}
        BY DEF Weights
      <4> QED BY <3>1, <4>1, SumOfNone
    <3>3. v % Pow2[0] = 0
      BY PowersDouble
    <3> QED BY <2>1, <3>2, <3>3
  <2>2. CASE k /= 0
    <3>1. PICK l \in Nat : k = l + 1 /\ l \in 0 .. width /\ l < width
      <4>1. k - 1 \in Nat /\ k = (k - 1) + 1 /\ k - 1 \in 0 .. width /\ k - 1 < width
        BY <2>2
      <4> QED BY <4>1
    <3>2. SUFFICES ASSUME Sum(l) = v % Pow2[l]
                   PROVE  Sum(l + 1) = v % Pow2[l + 1]
      <4>1. l \in Bad => ~(k <= l)
        BY <3>1
      <4>2. Sum(k) /= v % Pow2[k] /\ k \in 0 .. width
        OBVIOUS
      <4> HIDE DEF Sum
      <4> QED BY <3>1, <4>1, <4>2
    <3>3. PICK b \in Nat \ {0} : b = Pow2[l] /\ Pow2[l + 1] = b * 2
      <4>1. l + 1 \in Nat \ {0} /\ (l + 1) - 1 = l
        OBVIOUS
      <4> QED BY <4>1, PowersDouble, PowersGrow
    <3>4. PICK q \in Nat : q = v \div b
      BY Division
    <3>5. PICK t \in {0, 1} : t = q % 2
      OBVIOUS
    <3>6. v % (b * 2) = (v % b) + t * b
      <4>1. v % (b * 2) = (v % b) + ((v \div b) % 2) * b
        BY ModSplit, 2 \in Nat \ {0}
      <4> QED BY <3>4, <3>5, <4>1
    <3>7. PICK z \in Nat : z = v % b
      <4>1. v % b \in 0 .. b - 1
        BY ONLY Division, v \in Nat, b \in Nat \ {0}
      <4> QED BY <4>1
    <3>8. l \in ones <=> t = 1
      BY <1>1, <3>1, <3>3, <3>4, <3>5
    <3>9. CASE t = 1
      <4>1. OnesBelow(ones, l + 1) = OnesBelow(ones, l) \union {l} /\ l \notin OnesBelow(ones, l)
        BY ONLY <1>0, <3>8, <3>9, l \in Nat DEF OnesBelow
      <4>2. Sum(l + 1) = Sum(l) + b
        <5> DEFINE set == OnesBelow(ones, l)
        <5>1. IsFiniteSet(set) /\ set \subseteq Nat /\ l \notin set
          BY <1>2, <4>1
        <5> HIDE DEF set
        <5>2. SumFunction(Weights(set \union {l})) = SumFunction(Weights(set)) + Pow2[l]
          BY ONLY <5>1, l \in Nat, OneMoreWeight
        <5> QED BY <3>3, <4>1, <5>2 DEF set
      <4> HIDE DEF Sum
      <4> QED BY ONLY <3>2, <3>3, <3>6, <3>7, <3>9, <4>2, b \in Nat, z \in Nat
    <3>10. CASE t = 0
      <4>1. OnesBelow(ones, l + 1) = OnesBelow(ones, l)
        BY ONLY <1>0, <3>8, <3>10, l \in Nat DEF OnesBelow
      <4>2. Sum(l + 1) = Sum(l)
        BY <4>1
      <4> HIDE DEF Sum
      <4> QED BY ONLY <3>2, <3>3, <3>6, <3>7, <3>10, <4>2, b \in Nat, z \in Nat
    <3> QED BY <3>9, <3>10
  <2> QED BY <2>1, <2>2
<1>4. Bad = {}
  <2>1. Bad \in SUBSET Nat
    OBVIOUS
  <2> HIDE DEF Bad
  <2> QED BY <1>3, <2>1, LeastNatural
<1>5. ones = OnesBelow(ones, width)
  <2>1. \A d \in ones : d \in Nat /\ d < width
    BY <1>0, <1>1
  <2> QED BY ONLY <2>1 DEF OnesBelow
<1>6. Sum(width) = v % Pow2[width]
  BY <1>4
<1> QED BY <1>5, <1>6

\* A sequence of document IDs that is encoded, and its block.
SourceIds(values) == values \in Seq(U32) /\ Increasing(values) /\ Len(values) /= 0

WidthOf(values) == Width(values[Len(values)], Len(values))
HighStart(values) == WholeBytes(LowBits(values[Len(values)], Len(values)))
HighAt(values, i) == values[i] \div Pow2[WidthOf(values)] + i - 1
LowSet(values, p) ==
  /\ p < Len(values) * WidthOf(values)
  /\ (values[p \div WidthOf(values) + 1] \div Pow2[p % WidthOf(values)]) % 2 = 1
HighIs(values, p) ==
  \E i \in 1 .. Len(values) : p = HighStart(values) + values[i] \div Pow2[WidthOf(values)] + i - 1

LEMMA EliasParts ==
  ASSUME NEW values, SourceIds(values)
  PROVE  /\ Len(values) \in Nat \ {0}
         /\ values \in Seq(Nat)
         /\ \A i \in 1 .. Len(values) : values[i] \in Nat
         /\ ShapeFits(values[Len(values)], Len(values))
         /\ WidthOf(values) \in Nat
         /\ Pow2[WidthOf(values)] \in Nat \ {0}
         /\ LowBits(values[Len(values)], Len(values)) = Len(values) * WidthOf(values)
         /\ Len(values) * WidthOf(values) \in Nat
         /\ HighStart(values) \in Nat /\ Len(values) * WidthOf(values) <= HighStart(values)
<1> DEFINE n == Len(values)
           last == values[n]
<1>1. /\ MaxValue \in Nat
      /\ values \in Seq(U32) /\ Increasing(values) /\ n \in Nat \ {0} /\ n \in 1 .. n
  BY MaxValueIs DEF SourceIds
<1>2. values \in Seq(Nat)
  BY <1>1 DEF U32
<1>3. last \in Nat /\ \A i \in 1 .. n : values[i] \in Nat
  BY <1>1, <1>2
<1>4. n - 1 <= last
  BY <1>1, <1>2, ApartAtLeast
<1>5. ShapeFits(last, n)
  <2> HIDE DEF n, last
  <2> QED BY <1>1, <1>3, <1>4 DEF ShapeFits
<1>6. WidthOf(values) \in Nat
  BY <1>1, <1>3, <1>5, WidthIs DEF WidthOf
<1>7. Pow2[WidthOf(values)] \in Nat \ {0}
  BY <1>6, PowersGrow
<1>8. LowBits(last, n) = n * WidthOf(values) /\ n * WidthOf(values) \in Nat
  BY <1>1, <1>6 DEF LowBits, WidthOf
<1>9. HighStart(values) \in Nat /\ n * WidthOf(values) <= HighStart(values)
  <2>1. WholeBytes(LowBits(last, n)) \in Nat /\ LowBits(last, n) <= WholeBytes(LowBits(last, n))
    BY <1>8, WholeBytesIs
  <2> QED BY <1>8, <2>1 DEF HighStart
<1> QED BY <1>1, <1>2, <1>3, <1>5, <1>6, <1>7, <1>8, <1>9

LEMMA HighsGrow ==
  ASSUME NEW values, SourceIds(values)
  PROVE  /\ \A i \in 1 .. Len(values) :
              /\ HighAt(values, i) \in Nat
              /\ HighAt(values, i) <= HighAt(values, Len(values))
              /\ i - 1 <= HighAt(values, i)
         /\ \A i, j \in 1 .. Len(values) : i < j => HighAt(values, i) < HighAt(values, j)
         /\ HighBits(values[Len(values)], Len(values)) = HighAt(values, Len(values)) + 2
<1>1. PICK n \in Nat \ {0} : n = Len(values)
  BY EliasParts
<1>2. PICK c \in Nat \ {0} : c = Pow2[WidthOf(values)]
  BY EliasParts
<1>3. ASSUME NEW i \in 1 .. n
      PROVE  /\ values[i] \div c \in Nat
             /\ HighAt(values, i) = (values[i] \div c) + i - 1
             /\ HighAt(values, i) \in Nat /\ i - 1 <= HighAt(values, i)
  <2>1. values[i] \in Nat
    BY <1>1, EliasParts
  <2>2. values[i] \div c \in Nat
    BY <2>1, Division
  <2>3. HighAt(values, i) = (values[i] \div c) + i - 1
    BY <1>2 DEF HighAt
  <2>4. PICK q \in Nat : q = values[i] \div c
    BY <2>2
  <2> QED BY <2>2, <2>3, <2>4
<1>4. ASSUME NEW i \in 1 .. n, NEW j \in 1 .. n, i < j
      PROVE  HighAt(values, i) < HighAt(values, j)
  <2>1. values[i] \in Nat /\ values[j] \in Nat
    BY <1>1, EliasParts
  <2>2. values[i] < values[j]
    BY <1>1, <1>4 DEF SourceIds, Increasing
  <2>3. values[i] \div c <= values[j] \div c
    BY <2>1, <2>2, QuotientGrows
  <2>4. PICK p \in Nat, q \in Nat : p = values[i] \div c /\ q = values[j] \div c
    BY <1>3
  <2>5. HighAt(values, i) = p + i - 1 /\ HighAt(values, j) = q + j - 1 /\ p <= q
    BY <1>3, <2>3, <2>4
  <2> QED BY ONLY <1>4, <2>5, p \in Nat, q \in Nat, i \in 1 .. n, j \in 1 .. n, n \in Nat
<1>5. \A i \in 1 .. n : HighAt(values, i) <= HighAt(values, n)
  <2>1. TAKE i \in 1 .. n
  <2>2. n \in 1 .. n /\ HighAt(values, i) \in Nat /\ HighAt(values, n) \in Nat
    BY <1>3
  <2>3. CASE i = n
    BY <2>2, <2>3
  <2>4. CASE i /= n
    <3>1. i < n
      BY <2>4
    <3> QED BY <1>4, <2>2, <3>1
  <2> QED BY <2>3, <2>4
<1>6. HighBits(values[n], n) = HighAt(values, n) + 2
  <2>1. HighBits(values[n], n) = (values[n] \div c) + n + 1
    BY <1>1, <1>2 DEF HighBits, WidthOf
  <2>2. n \in 1 .. n
    OBVIOUS
  <2>3. PICK q \in Nat : q = values[n] \div c /\ HighAt(values, n) = q + n - 1
    BY <1>3, <2>2
  <2> QED BY <2>1, <2>3
<1> QED BY <1>1, <1>3, <1>4, <1>5, <1>6

\* The bits of a block.
EliasBit(values, k) ==
  IF IF k <= HighStart(values) THEN LowSet(values, k - 1) ELSE HighIs(values, k - 1) THEN 1 ELSE 0

LEMMA EliasBits ==
  ASSUME NEW values, SourceIds(values)
  PROVE  /\ EncodeElias(values).last = values[Len(values)]
         /\ Len(EncodeElias(values).bits) = EliasSize(values[Len(values)], Len(values))
         /\ EliasSize(values[Len(values)], Len(values)) \in Nat
         /\ HighStart(values) + HighAt(values, Len(values)) + 2
              <= EliasSize(values[Len(values)], Len(values))
         /\ DOMAIN EncodeElias(values).bits = 1 .. EliasSize(values[Len(values)], Len(values))
         /\ \A k \in 1 .. EliasSize(values[Len(values)], Len(values)) :
              EncodeElias(values).bits[k] = EliasBit(values, k)
<1> DEFINE n == Len(values)
           last == values[n]
           size == EliasSize(last, n)
           bits == [i \in 1 .. size |-> EliasBit(values, i)]
<1>1. n \in 1 .. n /\ HighStart(values) \in Nat
  BY EliasParts
<1>2. PICK top \in Nat : top = HighAt(values, n) /\ HighBits(last, n) = top + 2
  BY <1>1, HighsGrow
<1>3. PICK h \in Nat : h = WholeBytes(HighBits(last, n)) /\ top + 2 <= h
  BY <1>2, WholeBytesIs
<1>4. size = HighStart(values) + h
  BY <1>3 DEF EliasSize, HighStart
<1>5. size \in Nat /\ HighStart(values) + top + 2 <= size
  <2> HIDE DEF size
  <2> QED BY <1>1, <1>3, <1>4
<1>6. EncodeElias(values) = [last |-> last, bits |-> bits]
  BY DEF EncodeElias, EliasBit, LowSet, HighIs, HighStart, WidthOf
<1>7. Len(bits) = size /\ DOMAIN bits = 1 .. size /\ \A k \in 1 .. size : bits[k] = EliasBit(values, k)
  <2> HIDE DEF size
  <2> QED BY <1>5
<1> HIDE DEF bits
<1>8. EncodeElias(values).last = last /\ EncodeElias(values).bits = bits
  BY <1>6
<1> QED BY <1>2, <1>5, <1>7, <1>8

\* A high part sets a bit of the bitmap, and nothing else does.
LEMMA HighBitIs ==
  ASSUME NEW values, SourceIds(values), NEW p \in Nat,
         HighStart(values) + p + 1 \in 1 .. EliasSize(values[Len(values)], Len(values))
  PROVE  EncodeElias(values).bits[HighStart(values) + p + 1] = 1
           <=> \E i \in 1 .. Len(values) : p = HighAt(values, i)
<1>1. PICK h \in Nat : h = HighStart(values)
  BY EliasParts
<1>2. PICK k \in Nat : k = h + p + 1
  OBVIOUS
<1>3. EncodeElias(values).bits[k] = EliasBit(values, k)
  BY <1>1, <1>2, EliasBits
<1>4. ~(k <= HighStart(values)) /\ k - 1 = h + p
  BY <1>1, <1>2
<1>5. EliasBit(values, k) = 1 <=> HighIs(values, h + p)
  BY <1>4 DEF EliasBit
<1>6. ASSUME NEW i \in 1 .. Len(values)
      PROVE  h + p = HighStart(values) + values[i] \div Pow2[WidthOf(values)] + i - 1
               <=> p = HighAt(values, i)
  <2>1. values[i] \in Nat /\ Pow2[WidthOf(values)] \in Nat \ {0} /\ Len(values) \in Nat
    BY EliasParts
  <2>2. values[i] \div Pow2[WidthOf(values)] \in Nat
    BY <2>1, Division
  <2>3. PICK q \in Nat : q = values[i] \div Pow2[WidthOf(values)]
    BY <2>2
  <2>4. HighAt(values, i) = q + i - 1
    BY <2>3 DEF HighAt
  <2>5. HighStart(values) + values[i] \div Pow2[WidthOf(values)] + i - 1 = h + q + i - 1
    BY <1>1, <2>3
  <2>6. i \in Nat
    BY <2>1
  <2> QED BY ONLY <2>4, <2>5, <2>6, q \in Nat, h \in Nat, p \in Nat
<1>7. HighIs(values, h + p) <=> \E i \in 1 .. Len(values) : p = HighAt(values, i)
  BY <1>6 DEF HighIs
<1> QED BY <1>1, <1>2, <1>3, <1>5, <1>7

\* What the encoder writes is opened: what it leaves of the bytes is zero.
LEMMA EliasOpensBack ==
  ASSUME NEW values, SourceIds(values)
  PROVE  EliasOpens(EncodeElias(values), Len(values))
<1>1. PICK n \in Nat \ {0} : n = Len(values)
  BY EliasParts
<1>2. PICK last \in Nat : last = values[n]
  <2>1. n \in 1 .. n
    OBVIOUS
  <2> QED BY <1>1, <2>1, EliasParts
<1>3. PICK h \in Nat : h = HighStart(values) /\ h = WholeBytes(LowBits(last, n))
  BY <1>1, <1>2, EliasParts DEF HighStart
<1>4. PICK low \in Nat : low = LowBits(last, n) /\ low = n * WidthOf(values) /\ low <= h
  BY <1>1, <1>2, <1>3, EliasParts
<1>5. PICK top \in Nat : top = HighAt(values, n) /\ HighBits(last, n) = top + 2
  <2>1. n \in 1 .. n
    OBVIOUS
  <2> QED BY <1>1, <1>2, <2>1, HighsGrow
<1>6. PICK size \in Nat : size = EliasSize(last, n)
  BY <1>1, <1>2, EliasBits
<1>7. /\ EncodeElias(values).last = last
      /\ Len(EncodeElias(values).bits) = size
      /\ DOMAIN EncodeElias(values).bits = 1 .. size
      /\ \A k \in 1 .. size : EncodeElias(values).bits[k] = EliasBit(values, k)
  BY <1>1, <1>2, <1>6, EliasBits
<1>8. ASSUME NEW k \in 1 .. size, k \in low + 1 .. h
      PROVE  EncodeElias(values).bits[k] = 0
  <2>1. ~(k - 1 < n * WidthOf(values)) /\ k <= HighStart(values)
    BY <1>3, <1>4, <1>8
  <2>2. ~LowSet(values, k - 1)
    BY <1>1, <2>1 DEF LowSet
  <2> QED BY <1>7, <2>1, <2>2 DEF EliasBit
<1>9. ASSUME NEW k \in 1 .. size, k > h + (top + 2)
      PROVE  EncodeElias(values).bits[k] = 0
  <2>1. PICK p \in Nat : k = h + p + 1 /\ p > top
    <3>1. k - h - 1 \in Nat /\ k = h + (k - h - 1) + 1 /\ k - h - 1 > top
      BY <1>9
    <3> QED BY <3>1
  <2>2. ~(k <= HighStart(values)) /\ k - 1 = h + p
    BY <1>3, <2>1
  <2>3. ~(\E i \in 1 .. n : p = HighAt(values, i))
    <3>1. \A i \in 1 .. n : HighAt(values, i) \in Nat /\ HighAt(values, i) <= top
      BY <1>1, <1>5, HighsGrow
    <3> QED BY ONLY <2>1, <3>1, top \in Nat, p \in Nat
  <2>4. EncodeElias(values).bits[k] /= 1
    <3>1. HighStart(values) + p + 1 \in 1 .. EliasSize(values[Len(values)], Len(values))
      BY <1>1, <1>2, <1>3, <1>6, <2>1
    <3>2. EncodeElias(values).bits[HighStart(values) + p + 1] = 1
            <=> \E i \in 1 .. Len(values) : p = HighAt(values, i)
      BY <3>1, HighBitIs
    <3> QED BY <1>1, <1>3, <2>1, <2>3, <3>2
  <2>5. EliasBit(values, k) \in {0, 1}
    BY DEF EliasBit
  <2> QED BY <1>7, <2>4, <2>5
<1>10. PaddingIsZero(EncodeElias(values), n)
  <2>1. HighBits(last, n) = top + 2
    BY <1>5
  <2> QED BY <1>3, <1>4, <1>7, <1>8, <1>9, <2>1 DEF PaddingIsZero
<1>11. ShapeFits(last, n)
  BY <1>1, <1>2, EliasParts
<1> QED BY <1>1, <1>6, <1>7, <1>10, <1>11 DEF EliasOpens

\* Where the decoder of a bitmap is when it has read some of the IDs.
EliasAt(values, k) == IF k = 0 THEN 0 ELSE HighAt(values, k) + 1

LEMMA HighSetIs ==
  ASSUME NEW values, SourceIds(values), NEW from \in Nat
  PROVE  \A p : p \in HighSet(EncodeElias(values), Len(values), from)
           <=> p \in Nat /\ from <= p /\ \E i \in 1 .. Len(values) : p = HighAt(values, i)
<1>1. PICK n \in Nat \ {0} : n = Len(values)
  BY EliasParts
<1>2. PICK last \in Nat : last = values[n]
  <2>1. n \in 1 .. n
    OBVIOUS
  <2> QED BY <1>1, <2>1, EliasParts
<1>3. PICK h \in Nat : h = HighStart(values) /\ h = WholeBytes(LowBits(last, n))
  BY <1>1, <1>2, EliasParts DEF HighStart
<1>4. PICK top \in Nat : top = HighAt(values, n) /\ HighBits(last, n) = top + 2
  <2>1. n \in 1 .. n
    OBVIOUS
  <2> QED BY <1>1, <1>2, <2>1, HighsGrow
<1>5. PICK size \in Nat : size = EliasSize(last, n) /\ h + top + 2 <= size
  BY <1>1, <1>2, <1>3, <1>4, EliasBits
<1>6. ASSUME NEW p \in 0 .. top + 1
      PROVE  EncodeElias(values).bits[h + p + 1] = 1 <=> \E i \in 1 .. n : p = HighAt(values, i)
  <2>1. h + p + 1 \in 1 .. size /\ p \in Nat
    BY <1>5
  <2>2. HighStart(values) + p + 1 \in 1 .. EliasSize(values[Len(values)], Len(values))
    BY ONLY <1>1, <1>2, <1>3, <1>5, <2>1
  <2>3. EncodeElias(values).bits[HighStart(values) + p + 1] = 1
          <=> \E i \in 1 .. Len(values) : p = HighAt(values, i)
    BY ONLY SourceIds(values), <2>1, <2>2, HighBitIs
  <2> QED BY ONLY <1>1, <1>3, <2>3
<1>7. \A i \in 1 .. n : HighAt(values, i) \in Nat /\ HighAt(values, i) <= top
  BY <1>1, <1>4, HighsGrow
<1>8. HighSet(EncodeElias(values), n, from)
        = {p \in from .. top + 1 : EncodeElias(values).bits[h + p + 1] = 1}
  <2>1. EncodeElias(values).last = last
    BY <1>1, <1>2, EliasBits
  <2>2. (top + 2) - 1 = top + 1
    BY <1>4
  <2> QED BY <1>3, <1>4, <2>1, <2>2 DEF HighSet
<1>9. TAKE p
<1>10. ASSUME p \in from .. top + 1, EncodeElias(values).bits[h + p + 1] = 1
       PROVE  p \in Nat /\ from <= p /\ \E i \in 1 .. n : p = HighAt(values, i)
  <2>1. p \in 0 .. top + 1 /\ from <= p /\ p \in Nat
    BY <1>10
  <2> QED BY <1>6, <1>10, <2>1
<1>11. ASSUME p \in Nat, from <= p, NEW i \in 1 .. n, p = HighAt(values, i)
       PROVE  p \in from .. top + 1 /\ EncodeElias(values).bits[h + p + 1] = 1
  <2>1. p \in 0 .. top + 1 /\ p \in from .. top + 1
    BY <1>7, <1>11
  <2> QED BY <1>6, <1>11, <2>1
<1> QED BY <1>1, <1>8, <1>10, <1>11

\* The next set bit is that of the next ID; after the last ID there is none.
LEMMA NextHighIs ==
  ASSUME NEW values, SourceIds(values), NEW k \in 0 .. Len(values)
  PROVE  /\ EliasAt(values, k) \in Nat
         /\ k < Len(values) =>
              /\ HighSet(EncodeElias(values), Len(values), EliasAt(values, k)) /= {}
              /\ Min(HighSet(EncodeElias(values), Len(values), EliasAt(values, k)))
                   = HighAt(values, k + 1)
              /\ HighAt(values, k + 1) \in Nat
              /\ HighAt(values, k + 1) + 1 = EliasAt(values, k + 1)
         /\ k = Len(values) =>
              HighSet(EncodeElias(values), Len(values), EliasAt(values, k)) = {}
<1>1. PICK n \in Nat \ {0} : n = Len(values)
  BY EliasParts
<1>2. /\ \A i \in 1 .. n : HighAt(values, i) \in Nat
      /\ \A i, j \in 1 .. n : i < j => HighAt(values, i) < HighAt(values, j)
  BY <1>1, HighsGrow
<1>3. PICK at \in Nat : at = EliasAt(values, k)
  <2>1. CASE k = 0
    BY <2>1 DEF EliasAt
  <2>2. CASE k /= 0
    <3>1. k \in 1 .. n
      BY <1>1, <2>2
    <3>2. HighAt(values, k) + 1 \in Nat
      BY <1>2, <3>1
    <3> QED BY <2>2, <3>2 DEF EliasAt
  <2> QED BY <2>1, <2>2
<1>4. \A p : p \in HighSet(EncodeElias(values), n, at)
             <=> p \in Nat /\ at <= p /\ \E i \in 1 .. n : p = HighAt(values, i)
  BY <1>1, HighSetIs
<1>5. ASSUME NEW i \in 1 .. n
      PROVE  at <= HighAt(values, i) <=> k < i
  <2>1. HighAt(values, i) \in Nat
    BY <1>2
  <2>2. CASE k = 0
    BY <1>1, <1>3, <2>1, <2>2 DEF EliasAt
  <2>3. CASE k /= 0
    <3>1. k \in 1 .. n /\ at = HighAt(values, k) + 1 /\ HighAt(values, k) \in Nat
      BY <1>1, <1>2, <1>3, <2>3 DEF EliasAt
    <3>2. CASE k < i
      BY <1>2, <2>1, <3>1, <3>2
    <3>3. CASE i < k
      BY <1>2, <2>1, <3>1, <3>3
    <3>4. CASE i = k
      BY <2>1, <3>1, <3>4
    <3>5. k \in Int /\ i \in Int
      BY <1>1
    <3> QED BY <3>2, <3>3, <3>4, <3>5
  <2> QED BY <2>2, <2>3
<1>6. CASE k < n
  <2>1. PICK m \in 1 .. n : m = k + 1
    BY <1>1, <1>6
  <2>2. PICK high \in Nat : high = HighAt(values, m)
    BY <1>2
  <2> DEFINE S == HighSet(EncodeElias(values), n, at)
  <2>3. high \in S
    <3>1. k < m
      BY <1>1, <2>1
    <3> QED BY <1>4, <1>5, <2>2, <3>1
  <2>4. \A p \in S : high <= p /\ p \in Nat
    <3>1. TAKE p \in S
    <3>2. PICK i \in 1 .. n : p = HighAt(values, i) /\ p \in Nat /\ at <= p
      BY <1>4
    <3>3. k < i
      BY <1>5, <3>2
    <3>4. m = i \/ m < i
      BY <1>1, <2>1, <3>3
    <3> QED BY <1>2, <2>2, <3>2, <3>4
  <2> HIDE DEF S
  <2>5. Min(S) = high
    <3>1. Min(S) \in S /\ \A p \in S : Min(S) <= p
      BY ONLY <2>3, <2>4 DEF Min
    <3>2. Min(S) \in Nat /\ Min(S) <= high /\ high <= Min(S)
      BY ONLY <2>3, <2>4, <3>1
    <3> QED BY ONLY <3>2, high \in Nat
  <2>6. EliasAt(values, m) = high + 1
    BY <2>1, <2>2 DEF EliasAt
  <2> QED BY <1>1, <1>3, <1>6, <2>1, <2>2, <2>3, <2>5, <2>6 DEF S
<1>7. CASE k = n
  <2>1. \A i \in 1 .. n : ~(k < i)
    BY <1>7
  <2>2. HighSet(EncodeElias(values), n, at) = {}
    BY <1>4, <1>5, <2>1
  <2> QED BY <1>1, <1>3, <1>7, <2>2
<1>8. k < n \/ k = n
  BY <1>1
<1> QED BY <1>1, <1>6, <1>7, <1>8

\* The low bits and the high bits of an ID make it up.
LEMMA EliasReads ==
  ASSUME NEW values, SourceIds(values), NEW k \in 0 .. Len(values) - 1
  PROVE  EliasValue(EncodeElias(values), Len(values), k, HighAt(values, k + 1)) = values[k + 1]
<1>1. PICK n \in Nat \ {0} : n = Len(values) /\ k \in 0 .. n - 1
  BY EliasParts
<1>2. PICK m \in 1 .. n : m = k + 1
  BY <1>1
<1>3. PICK v \in Nat : v = values[m]
  BY <1>1, EliasParts
<1>4. PICK w \in Nat : w = WidthOf(values) /\ n * w \in Nat /\ n * w <= HighStart(values)
                       /\ HighStart(values) \in Nat /\ w = Width(values[n], n)
  BY <1>1, EliasParts DEF WidthOf
<1>5. PICK c \in Nat \ {0} : c = Pow2[w]
  BY <1>4, PowersGrow
<1>6. PICK q \in Nat, r \in 0 .. c - 1 : q = v \div c /\ r = v % c /\ v = q * c + r
  <2>1. v % c \in 0 .. c - 1 /\ v \div c \in Nat /\ v = (v \div c) * c + (v % c)
    BY ONLY Division, v \in Nat, c \in Nat \ {0}
  <2> QED BY <2>1
<1> DEFINE ones == {d \in 0 .. w - 1 : EncodeElias(values).bits[k * w + d + 1] = 1}
<1>7. ASSUME NEW d \in 0 .. w - 1
      PROVE  EncodeElias(values).bits[k * w + d + 1] = 1 <=> (v \div Pow2[d]) % 2 = 1
  <2>1. w \in Nat \ {0} /\ d \in Nat
    OBVIOUS
  <2>2. PICK start \in Nat : start = k * w
    BY <1>1
  <2>3. start + w <= n * w
    <3>1. PICK l \in Nat : n = k + 1 + l
      <4>1. n - k - 1 \in Nat /\ n = k + 1 + (n - k - 1)
        BY <1>1
      <4> QED BY <4>1
    <3>2. n * w = k * w + w + l * w /\ l * w \in Nat
      BY <1>1, <3>1
    <3>3. PICK a \in Nat, b \in Nat : a = n * w /\ b = l * w
      BY <1>4, <3>2
    <3>4. a = start + w + b
      BY <2>2, <3>2, <3>3
    <3> QED BY ONLY <3>3, <3>4, start \in Nat, w \in Nat, a \in Nat, b \in Nat
  <2>4. PICK p \in Nat : p = start + d
    OBVIOUS
  <2>5. p \div w = k /\ p % w = d
    <3>1. p % w \in 0 .. w - 1 /\ p \div w \in Nat /\ p = (p \div w) * w + (p % w)
      BY ONLY Division, p \in Nat, <2>1
    <3>2. PICK pq \in Nat, pr \in 0 .. w - 1 : pq = p \div w /\ pr = p % w /\ p = pq * w + pr
      BY <3>1
    <3>3. pq * w + pr = k * w + d /\ k \in Nat /\ d \in 0 .. w - 1
      BY <1>1, <2>2, <2>4, <3>2
    <3>4. pq = k /\ pr = d
      BY ONLY <2>1, <3>3, pq \in Nat, pr \in 0 .. w - 1, DivisionIsUnique
    <3> QED BY <3>2, <3>4
  <2>6. p < n * w /\ p + 1 <= HighStart(values) /\ p + 1 \in Nat \ {0} /\ (p + 1) - 1 = p
    <3>1. PICK lows \in Nat, high \in Nat : lows = n * w /\ high = HighStart(values)
      BY <1>4
    <3>2. lows <= high /\ start + w <= lows /\ d < w
      BY ONLY <1>4, <2>1, <2>3, <3>1, d \in 0 .. w - 1
    <3>3. p < lows /\ p + 1 <= high /\ p + 1 \in Nat \ {0} /\ (p + 1) - 1 = p
      BY ONLY <2>4, <3>2, p \in Nat, start \in Nat, lows \in Nat, high \in Nat,
              w \in Nat, d \in 0 .. w - 1
    <3> QED BY ONLY <3>1, <3>3
  <2>7. p + 1 \in 1 .. EliasSize(values[n], n)
    <3>1. PICK top \in Nat : top = HighAt(values, n)
      <4>1. n \in 1 .. n
        OBVIOUS
      <4> QED BY <1>1, <4>1, HighsGrow
    <3>2. EliasSize(values[n], n) \in Nat /\ HighStart(values) + top + 2 <= EliasSize(values[n], n)
      BY <1>1, <3>1, EliasBits
    <3>3. PICK high \in Nat, size \in Nat :
             high = HighStart(values) /\ size = EliasSize(values[n], n)
      BY <1>4, <3>2
    <3>4. p + 1 <= high /\ high + top + 2 <= size
      BY ONLY <2>6, <3>2, <3>3
    <3> QED BY ONLY <3>3, <3>4, p \in Nat, high \in Nat, size \in Nat, top \in Nat
  <2>8. EncodeElias(values).bits[p + 1] = EliasBit(values, p + 1)
    BY <1>1, <2>7, EliasBits
  <2>9. EliasBit(values, p + 1) = 1 <=> LowSet(values, p)
    BY <2>6 DEF EliasBit
  <2>10. LowSet(values, p) <=> (v \div Pow2[d]) % 2 = 1
    BY <1>1, <1>2, <1>3, <1>4, <2>5, <2>6 DEF LowSet
  <2>11. k * w + d + 1 = p + 1
    BY <2>2, <2>4
  <2> QED BY <2>8, <2>9, <2>10, <2>11
<1>8. BitsBelow(ones, v, w)
  <2>1. \A d \in ones : d \in 0 .. w - 1
    OBVIOUS
  <2>2. ones \subseteq Nat
    BY <2>1
  <2>3. ASSUME NEW d \in Nat PROVE d \in ones <=> d < w /\ (v \div Pow2[d]) % 2 = 1
    <3>1. d \in 0 .. w - 1 <=> d < w
      OBVIOUS
    <3> QED BY <1>7, <3>1
  <2> HIDE DEF ones
  <2> QED BY <2>2, <2>3 DEF BitsBelow
<1>9. SumFunction(Weights(ones)) = r
  <2> HIDE DEF ones
  <2> QED BY <1>5, <1>6, <1>8, LowBitsAdd
<1>10. HighAt(values, m) - k = q
  <2>1. PICK i \in Nat, j \in Nat : i = k /\ j = m /\ j = i + 1
    BY <1>1, <1>2
  <2>2. HighAt(values, m) = q + j - 1
    BY <1>3, <1>4, <1>5, <1>6, <2>1, Zenon DEF HighAt
  <2>3. (q + j - 1) - i = q
    BY ONLY <2>1, i \in Nat, j \in Nat, q \in Nat, SMTT(30)
  <2> QED BY ONLY <2>1, <2>2, <2>3
<1>11. EliasValue(EncodeElias(values), n, k, HighAt(values, m))
         = q * c + SumFunction(Weights(ones))
  <2>1. EncodeElias(values).last = values[n]
    BY <1>1, EliasBits
  <2>2. EliasValue(EncodeElias(values), n, k, HighAt(values, m))
          = (HighAt(values, m) - k) * Pow2[Width(values[n], n)]
              + SumFunction([d \in {d \in 0 .. Width(values[n], n) - 1 :
                                      EncodeElias(values).bits[k * Width(values[n], n) + d + 1] = 1}
                               |-> Pow2[d]])
    BY <2>1 DEF EliasValue
  <2> QED BY <1>4, <1>5, <1>10, <2>2 DEF Weights
<1> HIDE DEF ones
<1> QED BY <1>1, <1>2, <1>3, <1>6, <1>9, <1>11

-----------------------------------------------------------------------------
\* What holds while a decoder reads what an encoder wrote.

\* Codes stand one after another, up to the declared number of bits.
Follow(s, values, bits, from, size) ==
  \E at \in [1 .. Len(s) + 1 -> Nat] :
    /\ at[1] = from /\ at[Len(s) + 1] = size
    /\ \A k \in 1 .. Len(s) + 1 : at[k] <= size
    /\ \A k \in 1 .. Len(s) :
         /\ Coded(bits, at[k], CodeOf(values)[s[k]])
         /\ at[k + 1] = at[k] + Len(CodeOf(values)[s[k]])

FromSource ==
  /\ Source(codec, original)
  /\ count = Len(original)
  /\ docBlock = EncodeDocs(codec, IdsOf(original))
  /\ bytes = EncodeBlock(codec, original).bytes

\* What has been read is what was encoded, and the cursor is where the next number stands.
NumbersReadBack ==
  /\ reading /= "refused"
  /\ \A k \in 1 .. Len(decoded) : k \in 1 .. count /\ decoded[k] = original[k]
  /\ reading \in {"open", "docs"} => cursor = 0
  /\ reading = "gap" => cursor = Offset(codec, original, Len(decoded) + 1, 1)
  /\ reading = "frequency" =>
       cursor = Offset(codec, original, Len(decoded) + 1, Lead(codec) + 1)
  /\ reading = "position" =>
       /\ cursor = Offset(codec, original, Len(decoded) + 1, Lead(codec) + 2 + Len(positions))
       /\ frequency = Len(original[Len(decoded) + 1].positions)
       /\ \A k \in 1 .. Len(positions) : positions[k] = original[Len(decoded) + 1].positions[k]

DocsReadBack ==
  /\ \A k \in DOMAIN docs : k \in 1 .. count /\ docs[k] = original[k].doc
  /\ reading = "open" => position = 0
  /\ reading = "docs" /\ codec = "EliasFano" => position = EliasAt(IdsOf(original), Len(docs))
  /\ reading = "docs" /\ codec = "Interpolative" =>
       Follow(segments, IdsOf(original), docBlock.bits, position, docBlock.size)

TripInv == original /= <<>> => FromSource /\ NumbersReadBack /\ DocsReadBack

LEMMA SourceIdsAre ==
  ASSUME NEW c, NEW list, Source(c, list)
  PROVE  /\ SourceIds(IdsOf(list))
         /\ Len(IdsOf(list)) = Len(list)
         /\ Len(list) \in Nat \ {0}
         /\ IdsOf(list) \in Seq(U32) /\ Increasing(IdsOf(list)) /\ Len(IdsOf(list)) /= 0
         /\ \A i \in 1 .. Len(list) : IdsOf(list)[i] = list[i].doc /\ list[i].doc \in U32
<1>1. /\ Len(list) \in Nat \ {0}
      /\ \A i \in 1 .. Len(list) : list[i].doc \in U32
      /\ DOMAIN IdsOf(list) = 1 .. Len(list) /\ Len(IdsOf(list)) = Len(list)
      /\ \A i \in 1 .. Len(list) : IdsOf(list)[i] = list[i].doc
      /\ Increasing(IdsOf(list))
      /\ DOMAIN list = 1 .. Len(list)
  BY SourceIs
<1>2. IdsOf(list) = [i \in 1 .. Len(list) |-> list[i].doc]
  BY <1>1 DEF IdsOf
<1>3. IdsOf(list) \in [1 .. Len(list) -> U32]
  BY <1>1, <1>2
<1>4. IdsOf(list) \in Seq(U32)
  BY <1>1, <1>3, FunctionIsSeq
<1> QED BY <1>1, <1>4 DEF SourceIds

LEMMA StartReadsBack ==
  ASSUME DecoderInit
  PROVE  TripInv
<1>1. SUFFICES ASSUME original /= <<>> PROVE FromSource /\ NumbersReadBack /\ DocsReadBack
  BY DEF TripInv
<1>2. PICK c \in Codecs, list \in StoredLists :
           Encodable(c, list) /\ Holds(EncodeBlock(c, list), list)
  BY <1>1 DEF DecoderInit, Holds
<1>3. Source(c, list)
  BY <1>2 DEF Source
<1>4. FromSource
  BY <1>2, <1>3 DEF FromSource, Holds, EncodeBlock
<1>5. reading = "open" /\ docs = <<>> /\ position = 0 /\ cursor = 0 /\ decoded = <<>>
  BY DEF DecoderInit
<1>6. NumbersReadBack
  BY <1>5 DEF NumbersReadBack
<1>7. DocsReadBack
  BY <1>5 DEF DocsReadBack
<1> QED BY <1>4, <1>6, <1>7

LEMMA SourceStays ==
  ASSUME UNCHANGED stored
  PROVE  /\ original' = original
         /\ FromSource => FromSource'
         /\ codec' = codec /\ count' = count /\ docBlock' = docBlock /\ bytes' = bytes
BY DEF stored, FromSource

\* The number at the cursor.
LEMMA NumberAtCursor ==
  ASSUME FromSource, NEW i \in 1 .. count, NEW j \in 1 .. Len(NumbersOf(codec, original, i)),
         cursor = Offset(codec, original, i, j)
  PROVE  /\ Next32.ok
         /\ Next32.value = NumbersOf(codec, original, i)[j]
         /\ Next32.next = Offset(codec, original, i, j + 1)
         /\ Next32.next \in Nat
         /\ Next32.next + (Len(NumbersOf(codec, original, i)) - j) <= Len(bytes)
<1>1. Source(codec, original) /\ i \in 1 .. Len(original) /\ bytes = EncodeBlock(codec, original).bytes
  BY DEF FromSource
<1>2. Next32 = DecodeNumber(EncodeBlock(codec, original).bytes, Offset(codec, original, i, j))
  BY <1>1 DEF Next32
<1> QED BY <1>1, <1>2, OffsetReads

\* What a posting is encoded by.
NumbersFit(c, list, i) ==
  /\ \A j \in 1 .. Len(NumbersOf(c, list, i)) : NumbersOf(c, list, i)[j] \in 1 .. MaxValue
  /\ Len(NumbersOf(c, list, i)) = Lead(c) + 1 + Len(list[i].positions)
  /\ c = "VarByte" =>
       NumbersOf(c, list, i)[1] = list[i].doc - (IF i = 1 THEN -1 ELSE list[i - 1].doc)
  /\ NumbersOf(c, list, i)[Lead(c) + 1] = Len(list[i].positions)
  /\ \A k \in 1 .. Len(list[i].positions) :
       NumbersOf(c, list, i)[Lead(c) + 1 + k]
         = list[i].positions[k] - (IF k = 1 THEN -1 ELSE list[i].positions[k - 1])
  /\ Len(list[i].positions) \in 1 .. MaxPositions

LEMMA NumbersDoFit ==
  ASSUME NEW c, NEW list, Source(c, list), NEW i \in 1 .. Len(list)
  PROVE  NumbersFit(c, list, i)
<1>1. NumbersOf(c, list, i) \in Seq(1 .. MaxValue)
  BY NumbersAre
<1>2. \A j \in 1 .. Len(NumbersOf(c, list, i)) : NumbersOf(c, list, i)[j] \in 1 .. MaxValue
  BY ONLY <1>1, SeqElements
<1> QED BY <1>2, NumbersAre DEF NumbersFit

LEMMA GapAtCursor ==
  ASSUME BlockInv, original /= <<>>, TripInv, reading = "gap", Len(decoded) < count
  PROVE  /\ GapFits(PreviousDoc)
         /\ Len(decoded) + 1 \in 1 .. count
         /\ Lead(codec) = 1
         /\ Len(docs) = Len(decoded)
         /\ FromGap(PreviousDoc, Next32.value) = original[Len(decoded) + 1].doc
         /\ Next32.next = Offset(codec, original, Len(decoded) + 1, Lead(codec) + 1)
<1>1. FromSource /\ NumbersReadBack /\ DocsReadBack
  BY DEF TripInv
<1>2. codec = "VarByte" /\ Len(docs) = Len(decoded) /\ docs \in Seq(U32) /\ count \in Nat
  BY DEF BlockInv, DocsInv, BlockTypes
<1>3. PICK i \in 1 .. count : i = Len(decoded) + 1
  <2>1. Len(docs) \in Nat
    BY <1>2
  <2>2. Len(decoded) \in Nat
    BY <1>2, <2>1
  <2> QED BY <1>2, <2>2
<1>4. Source(codec, original) /\ count = Len(original) /\ i \in 1 .. Len(original) /\ Lead(codec) = 1
  BY <1>1, <1>2 DEF FromSource, Lead
<1>5. /\ Len(NumbersOf(codec, original, i)) = Lead(codec) + 1 + Len(original[i].positions)
      /\ \A j \in 1 .. Len(NumbersOf(codec, original, i)) :
           NumbersOf(codec, original, i)[j] \in 1 .. MaxValue
      /\ NumbersOf(codec, original, i)[1] = original[i].doc - (IF i = 1 THEN -1 ELSE original[i - 1].doc)
      /\ Len(original[i].positions) \in 1 .. MaxPositions
  <2>1. NumbersFit(codec, original, i)
    BY ONLY <1>4, NumbersDoFit
  <2> QED BY ONLY <1>2, <2>1 DEF NumbersFit
<1>6. 1 \in 1 .. Len(NumbersOf(codec, original, i))
  BY <1>4, <1>5
<1>7. cursor = Offset(codec, original, i, 1)
  BY <1>1, <1>3 DEF NumbersReadBack
<1>8. /\ Next32.ok /\ Next32.value = NumbersOf(codec, original, i)[1]
      /\ Next32.next = Offset(codec, original, i, 1 + 1)
  BY <1>1, <1>6, <1>7, NumberAtCursor
<1>9. PICK g \in 1 .. MaxValue : g = Next32.value
  <2>1. NumbersOf(codec, original, i)[1] \in 1 .. MaxValue
    BY ONLY <1>5, <1>6
  <2>2. Next32.value \in 1 .. MaxValue
    BY ONLY <1>8, <2>1
  <2> QED BY ONLY <2>2
<1>10. PreviousDoc = IF i = 1 THEN -1 ELSE original[i - 1].doc
  <2>1. CASE i = 1
    <3>1. Len(docs) = 0
      BY <1>2, <1>3, <2>1
    <3>2. docs = <<>>
      BY <1>2, <3>1
    <3> QED BY <2>1, <3>2 DEF PreviousDoc
  <2>2. CASE i /= 1
    <3>1. Len(docs) = i - 1 /\ Len(docs) \in DOMAIN docs /\ docs /= <<>>
      BY <1>2, <1>3, <2>2
    <3>2. docs[i - 1] = original[i - 1].doc
      BY <1>1, <3>1 DEF DocsReadBack
    <3> QED BY <2>2, <3>1, <3>2 DEF PreviousDoc
  <2> QED BY <2>1, <2>2
<1>11. original[i].doc \in U32 /\ (i /= 1 => original[i - 1].doc \in U32) /\ MaxValue \in Nat
  <2>1. \A k \in 1 .. Len(original) : original[k].doc \in U32
    BY <1>4, SourceIs
  <2>2. i /= 1 => i - 1 \in 1 .. Len(original)
    BY <1>4
  <2> QED BY <1>4, <2>1, <2>2, MaxValueIs
<1>12. PICK p \in U32 \union {-1} : p = PreviousDoc
  BY <1>10, <1>11
<1>13. PICK d \in U32 : d = original[i].doc
  BY <1>11
<1>14. g = d - p
  BY <1>5, <1>8, <1>9, <1>10, <1>12, <1>13
<1>15. FromGap(p, g) = d
  <2>1. p \in Int /\ d \in Int
    BY DEF U32
  <2> QED BY ONLY <1>14, <2>1 DEF FromGap
<1>16. GapFits(PreviousDoc)
  BY <1>8, <1>9, <1>12, <1>15, <1>11 DEF GapFits, U32
<1> QED BY <1>2, <1>3, <1>4, <1>8, <1>9, <1>12, <1>13, <1>15, <1>16

LEMMA FrequencyAtCursor ==
  ASSUME BlockInv, original /= <<>>, TripInv, reading = "frequency", Len(decoded) < count
  PROVE  /\ FrequencyFits
         /\ Len(decoded) + 1 \in 1 .. count
         /\ Next32.value = Len(original[Len(decoded) + 1].positions)
         /\ Next32.next = Offset(codec, original, Len(decoded) + 1, Lead(codec) + 2)
<1>1. FromSource /\ NumbersReadBack /\ DocsReadBack
  BY DEF TripInv
<1>2. count \in Nat /\ Len(decoded) \in Nat
  BY DEF BlockInv, NumbersInv, BlockTypes
<1>3. PICK i \in 1 .. count : i = Len(decoded) + 1
  BY <1>2
<1>4. Source(codec, original) /\ count = Len(original) /\ i \in 1 .. Len(original)
  BY <1>1 DEF FromSource
<1>5. PICK lead \in {0, 1} : lead = Lead(codec)
  BY DEF Lead
<1>6. NumbersFit(codec, original, i)
  BY ONLY <1>4, NumbersDoFit
<1>7. PICK f \in 1 .. MaxPositions :
        /\ f = Len(original[i].positions)
        /\ Len(NumbersOf(codec, original, i)) = lead + 1 + f
        /\ NumbersOf(codec, original, i)[lead + 1] = f
  BY ONLY <1>5, <1>6 DEF NumbersFit
<1>8. f \in Nat /\ lead + 1 \in 1 .. Len(NumbersOf(codec, original, i)) /\ lead + 1 + 1 = lead + 2
  BY <1>5, <1>7
<1>9. cursor = Offset(codec, original, i, lead + 1)
  BY <1>1, <1>3, <1>5 DEF NumbersReadBack
<1>10. /\ Next32.ok /\ Next32.value = NumbersOf(codec, original, i)[lead + 1]
       /\ Next32.next = Offset(codec, original, i, lead + 1 + 1)
       /\ Next32.next \in Nat
       /\ Next32.next + (Len(NumbersOf(codec, original, i)) - (lead + 1)) <= Len(bytes)
  BY <1>1, <1>8, <1>9, NumberAtCursor
<1>11. Next32.value = f /\ Next32.next + f <= Len(bytes)
  <2>1. Len(NumbersOf(codec, original, i)) - (lead + 1) = f
    BY <1>7, <1>8
  <2> QED BY <1>7, <1>10, <2>1
<1>12. f <= Len(bytes) - Next32.next
  <2>1. Len(bytes) \in Nat
    BY DEF BlockInv, BlockTypes
  <2>2. PICK next \in Nat : next = Next32.next
    BY <1>10
  <2> QED BY ONLY <1>8, <1>11, <2>1, <2>2
<1>13. FrequencyFits
  BY <1>7, <1>10, <1>11, <1>12 DEF FrequencyFits
<1> QED BY <1>3, <1>5, <1>7, <1>8, <1>10, <1>11, <1>13

LEMMA PositionAtCursor ==
  ASSUME BlockInv, original /= <<>>, TripInv, reading = "position", Len(positions) < frequency
  PROVE  /\ GapFits(PreviousPosition)
         /\ Len(decoded) + 1 \in 1 .. count
         /\ FromGap(PreviousPosition, Next32.value)
              = original[Len(decoded) + 1].positions[Len(positions) + 1]
         /\ Next32.next
              = Offset(codec, original, Len(decoded) + 1, Lead(codec) + 2 + (Len(positions) + 1))
<1>1. FromSource /\ NumbersReadBack /\ DocsReadBack
  BY DEF TripInv
<1>2. /\ count \in Nat /\ Len(decoded) \in Nat /\ Len(decoded) < count
      /\ positions \in Seq(U32) /\ frequency \in Nat
  BY DEF BlockInv, NumbersInv, BlockTypes, DocsInv
<1>3. PICK i \in 1 .. count : i = Len(decoded) + 1
  BY <1>2
<1>4. Source(codec, original) /\ count = Len(original) /\ i \in 1 .. Len(original)
  BY <1>1 DEF FromSource
<1>5. PICK lead \in {0, 1} : lead = Lead(codec)
  BY DEF Lead
<1>6. NumbersFit(codec, original, i)
  BY ONLY <1>4, NumbersDoFit
<1>7. /\ frequency = Len(original[i].positions)
      /\ cursor = Offset(codec, original, i, lead + 2 + Len(positions))
      /\ \A k \in 1 .. Len(positions) : positions[k] = original[i].positions[k]
  BY <1>1, <1>3, <1>5 DEF NumbersReadBack
<1>8. PICK p \in 1 .. frequency : p = Len(positions) + 1
  <2>1. Len(positions) \in Nat
    BY <1>2
  <2> QED BY <1>2, <2>1
<1>9. /\ Len(NumbersOf(codec, original, i)) = lead + 1 + frequency
      /\ NumbersOf(codec, original, i)[lead + 1 + p]
           = original[i].positions[p] - (IF p = 1 THEN -1 ELSE original[i].positions[p - 1])
  BY ONLY <1>5, <1>6, <1>7, <1>8 DEF NumbersFit
<1>10. PICK j \in 1 .. Len(NumbersOf(codec, original, i)) :
         j = lead + 1 + p /\ j = lead + 2 + Len(positions) /\ j + 1 = lead + 2 + p
  <2>1. lead + 1 + p \in 1 .. (lead + 1 + frequency) /\ (lead + 1 + p) + 1 = lead + 2 + p
    BY <1>2, <1>5, <1>8
  <2>2. lead + 1 + p = lead + 2 + Len(positions)
    <3>1. Len(positions) \in Nat
      BY <1>2
    <3> QED BY <1>5, <1>8, <3>1
  <2> QED BY <1>9, <2>1, <2>2
<1>11. PICK g \in 1 .. MaxValue : g = NumbersOf(codec, original, i)[j]
  BY ONLY <1>6, <1>10 DEF NumbersFit
<1>12. /\ Next32.ok /\ Next32.value = g
       /\ Next32.next = Offset(codec, original, i, j + 1)
  <2>1. cursor = Offset(codec, original, i, j)
    BY <1>7, <1>10
  <2> QED BY <1>1, <1>11, <2>1, NumberAtCursor
<1>13. /\ \A k \in 1 .. frequency : original[i].positions[k] \in U32
       /\ MaxValue \in Nat
  <2>1. original[i].positions \in Seq(U32)
    BY <1>4, SourceIs
  <2>2. \A k \in 1 .. Len(original[i].positions) : original[i].positions[k] \in U32
    BY ONLY <2>1, SeqElements
  <2> QED BY <1>7, <2>2, MaxValueIs
<1>14. PICK d \in U32 : d = original[i].positions[p]
  BY <1>13
<1>15. PreviousPosition = IF p = 1 THEN -1 ELSE original[i].positions[p - 1]
  <2>1. CASE p = 1
    <3>1. Len(positions) = 0
      <4>1. Len(positions) \in Nat
        BY <1>2
      <4> QED BY <1>8, <2>1, <4>1
    <3>2. positions = <<>>
      BY <1>2, <3>1
    <3> QED BY <2>1, <3>2 DEF PreviousPosition
  <2>2. CASE p /= 1
    <3>1. Len(positions) = p - 1 /\ p - 1 \in 1 .. Len(positions) /\ positions /= <<>>
      BY <1>2, <1>8, <2>2
    <3>2. positions[p - 1] = original[i].positions[p - 1]
      BY <1>7, <3>1
    <3> QED BY <2>2, <3>1, <3>2 DEF PreviousPosition
  <2> QED BY <2>1, <2>2
<1>16. PICK q \in U32 \union {-1} : q = PreviousPosition
  <2>1. CASE p = 1
    BY <1>15, <2>1
  <2>2. CASE p /= 1
    <3>1. p - 1 \in 1 .. frequency
      BY <1>2, <2>2
    <3> QED BY <1>13, <1>15, <2>2, <3>1
  <2> QED BY <2>1, <2>2
<1>17. g = d - q
  BY <1>9, <1>10, <1>11, <1>14, <1>15, <1>16
<1>18. FromGap(q, g) = d
  <2>1. q \in Int /\ d \in Int
    BY DEF U32
  <2> QED BY ONLY <1>17, <2>1 DEF FromGap
<1>19. GapFits(PreviousPosition)
  BY <1>11, <1>12, <1>13, <1>16, <1>18 DEF GapFits, U32
<1> QED BY <1>3, <1>5, <1>8, <1>10, <1>12, <1>14, <1>16, <1>18, <1>19

\* When all its positions are read, a posting is that of the list, and the next one follows.
LEMMA PostingAtCursor ==
  ASSUME BlockInv, original /= <<>>, TripInv, reading = "position", Len(positions) = frequency
  PROVE  /\ Len(decoded) + 1 \in 1 .. count
         /\ [doc |-> docs[Len(decoded) + 1], positions |-> positions] = original[Len(decoded) + 1]
         /\ cursor = Offset(codec, original, Len(decoded) + 2, 1)
<1>1. FromSource /\ NumbersReadBack /\ DocsReadBack
  BY DEF TripInv
<1>2. /\ count \in Nat /\ Len(decoded) \in Nat /\ Len(decoded) < count
      /\ positions \in Seq(U32) /\ frequency \in Nat
  BY DEF BlockInv, NumbersInv, BlockTypes, DocsInv
<1>3. PICK i \in 1 .. count : i = Len(decoded) + 1 /\ i + 1 = Len(decoded) + 2
  BY <1>2
<1>4. Source(codec, original) /\ count = Len(original) /\ i \in 1 .. Len(original)
  BY <1>1 DEF FromSource
<1>5. PICK lead \in {0, 1} : lead = Lead(codec)
  BY DEF Lead
<1>6. NumbersFit(codec, original, i)
  BY ONLY <1>4, NumbersDoFit
<1>7. /\ frequency = Len(original[i].positions)
      /\ cursor = Offset(codec, original, i, lead + 2 + Len(positions))
      /\ \A k \in 1 .. Len(positions) : positions[k] = original[i].positions[k]
  BY <1>1, <1>3, <1>5 DEF NumbersReadBack
<1>8. /\ original[i].positions \in Seq(U32)
      /\ original[i] = [doc |-> original[i].doc, positions |-> original[i].positions]
  BY <1>4, SourceIs
<1>9. positions = original[i].positions
  BY ONLY <1>2, <1>7, <1>8, Len(positions) = frequency
<1>10. i \in DOMAIN docs
  <2>1. CASE codec = "VarByte"
    <3>1. Len(docs) = Len(decoded) + 1 /\ docs \in Seq(U32)
      BY <2>1 DEF BlockInv, DocsInv
    <3> QED BY <1>3, <3>1
  <2>2. CASE codec /= "VarByte"
    <3>1. DOMAIN docs = 1 .. count
      BY <2>2 DEF BlockInv, DocsInv
    <3> QED BY <3>1
  <2> QED BY <2>1, <2>2
<1>11. docs[i] = original[i].doc
  BY <1>1, <1>10 DEF DocsReadBack
<1>12. cursor = Offset(codec, original, i + 1, 1)
  <2>1. Len(NumbersOf(codec, original, i)) + 1 = lead + 2 + Len(positions)
    <3>1. Len(NumbersOf(codec, original, i)) = lead + 1 + frequency
      BY ONLY <1>5, <1>6, <1>7 DEF NumbersFit
    <3> QED BY ONLY <3>1, <1>2, <1>5, Len(positions) = frequency
  <2>2. Offset(codec, original, i, Len(NumbersOf(codec, original, i)) + 1)
          = Offset(codec, original, i + 1, 1)
    BY <1>4, OffsetsMeet
  <2> QED BY <1>7, <2>1, <2>2
<1> QED BY <1>3, <1>8, <1>9, <1>11, <1>12

\* After the last posting the bytes end.
LEMMA EndAtCursor ==
  ASSUME BlockInv, original /= <<>>, TripInv, AllRead
  PROVE  cursor = Len(bytes)
<1>1. FromSource /\ NumbersReadBack
  BY DEF TripInv
<1>2. Source(codec, original) /\ count = Len(original) /\ bytes = EncodeBlock(codec, original).bytes
  BY <1>1 DEF FromSource
<1>3. Offset(codec, original, Len(original) + 1, 1) = Len(bytes)
  BY <1>2, OffsetsMeet
<1>4. CASE reading = "gap"
  BY <1>1, <1>2, <1>3, <1>4 DEF AllRead, NumbersReadBack
<1>5. CASE reading = "frequency"
  <2>1. codec /= "VarByte"
    <3>1. SUFFICES ASSUME codec = "VarByte" PROVE FALSE
      OBVIOUS
    <3>2. Len(docs) = Len(decoded) + 1 /\ Len(docs) <= count /\ Len(decoded) \in Nat
      BY <1>5, <3>1 DEF BlockInv, DocsInv, NumbersInv
    <3> QED BY <3>2 DEF AllRead
  <2>2. Lead(codec) + 1 = 1
    BY <2>1 DEF Lead
  <2> QED BY <1>1, <1>2, <1>3, <1>5, <2>2 DEF AllRead, NumbersReadBack
<1> QED BY <1>4, <1>5 DEF AllRead

\* Steps that read numbers.
LEMMA ReadGapReadsBack ==
  ASSUME BlockInv, original /= <<>>, TripInv, ReadGap
  PROVE  TripInv'
<1>1. /\ reading = "gap" /\ Len(decoded) < count
      /\ docs' = Append(docs, FromGap(PreviousDoc, Next32.value))
      /\ cursor' = Next32.next
      /\ reading' = "frequency"
      /\ UNCHANGED <<stored, segments, position, frequency, positions, decoded>>
  BY DEF ReadGap
<1>2. FromSource /\ NumbersReadBack /\ DocsReadBack
  BY DEF TripInv
<1>3. /\ original' = original /\ FromSource' /\ codec' = codec /\ count' = count
  BY <1>1, <1>2, SourceStays
<1>4. /\ Len(decoded) + 1 \in 1 .. count
      /\ Len(docs) = Len(decoded)
      /\ FromGap(PreviousDoc, Next32.value) = original[Len(decoded) + 1].doc
      /\ Next32.next = Offset(codec, original, Len(decoded) + 1, Lead(codec) + 1)
  BY <1>1, GapAtCursor
<1>5. docs \in Seq(U32) /\ codec = "VarByte"
  BY <1>1 DEF BlockInv, DocsInv
<1>6. NumbersReadBack'
  BY <1>1, <1>2, <1>3, <1>4 DEF NumbersReadBack
<1>7. ASSUME NEW k \in DOMAIN docs' PROVE k \in 1 .. count /\ docs'[k] = original[k].doc
  <2>1. \/ k \in DOMAIN docs /\ docs'[k] = docs[k]
        \/ k = Len(docs) + 1 /\ docs'[k] = original[k].doc
    BY <1>1, <1>4, <1>5
  <2> QED BY <1>2, <1>4, <2>1 DEF DocsReadBack
<1>8. DocsReadBack'
  BY <1>1, <1>3, <1>7 DEF DocsReadBack
<1> QED BY <1>3, <1>6, <1>8 DEF TripInv

LEMMA ReadFrequencyReadsBack ==
  ASSUME BlockInv, original /= <<>>, TripInv, ReadFrequency
  PROVE  TripInv'
<1>1. /\ reading = "frequency" /\ Len(decoded) < count
      /\ frequency' = Next32.value
      /\ cursor' = Next32.next
      /\ reading' = "position"
      /\ UNCHANGED <<stored, docs, segments, position, positions, decoded>>
  BY DEF ReadFrequency
<1>2. FromSource /\ NumbersReadBack /\ DocsReadBack
  BY DEF TripInv
<1>3. /\ original' = original /\ FromSource' /\ codec' = codec /\ count' = count
  BY <1>1, <1>2, SourceStays
<1>4. /\ Next32.value = Len(original[Len(decoded) + 1].positions)
      /\ Next32.next = Offset(codec, original, Len(decoded) + 1, Lead(codec) + 2)
  BY <1>1, FrequencyAtCursor
<1>5. positions = <<>>
  BY <1>1 DEF BlockInv, NumbersInv
<1>6. Lead(codec) + 2 + Len(positions) = Lead(codec) + 2
  BY <1>5 DEF Lead
<1>7. NumbersReadBack'
  BY <1>1, <1>2, <1>3, <1>4, <1>5, <1>6 DEF NumbersReadBack
<1>8. DocsReadBack'
  BY <1>1, <1>2, <1>3 DEF DocsReadBack
<1> QED BY <1>3, <1>7, <1>8 DEF TripInv

LEMMA ReadPositionReadsBack ==
  ASSUME BlockInv, original /= <<>>, TripInv, ReadPosition
  PROVE  TripInv'
<1>1. /\ reading = "position" /\ Len(positions) < frequency
      /\ positions' = Append(positions, FromGap(PreviousPosition, Next32.value))
      /\ cursor' = Next32.next
      /\ UNCHANGED <<stored, reading, docs, segments, position, frequency, decoded>>
  BY DEF ReadPosition
<1>2. FromSource /\ NumbersReadBack /\ DocsReadBack
  BY DEF TripInv
<1>3. /\ original' = original /\ FromSource' /\ codec' = codec /\ count' = count
  BY <1>1, <1>2, SourceStays
<1>4. /\ FromGap(PreviousPosition, Next32.value)
           = original[Len(decoded) + 1].positions[Len(positions) + 1]
      /\ Next32.next
           = Offset(codec, original, Len(decoded) + 1, Lead(codec) + 2 + (Len(positions) + 1))
  BY <1>1, PositionAtCursor
<1>5. positions \in Seq(U32)
  BY DEF BlockInv, NumbersInv
<1>6. Len(positions') = Len(positions) + 1
  BY <1>1, <1>5
<1>7. ASSUME NEW k \in 1 .. Len(positions')
      PROVE  positions'[k] = original[Len(decoded) + 1].positions[k]
  <2>1. \/ k \in 1 .. Len(positions) /\ positions'[k] = positions[k]
        \/ k = Len(positions) + 1 /\ positions'[k] = FromGap(PreviousPosition, Next32.value)
    BY <1>1, <1>5, <1>6
  <2> QED BY <1>1, <1>2, <1>4, <2>1 DEF NumbersReadBack
<1>8. NumbersReadBack'
  BY <1>1, <1>2, <1>3, <1>4, <1>6, <1>7 DEF NumbersReadBack
<1>9. DocsReadBack'
  BY <1>1, <1>2, <1>3 DEF DocsReadBack
<1> QED BY <1>3, <1>8, <1>9 DEF TripInv

LEMMA PushReadsBack ==
  ASSUME BlockInv, original /= <<>>, TripInv, PushPosting
  PROVE  TripInv'
<1> DEFINE posting == [doc |-> docs[Len(decoded) + 1], positions |-> positions]
<1>1. /\ reading = "position" /\ Len(positions) = frequency
      /\ decoded' = Append(decoded, posting)
      /\ reading' = IF codec = "VarByte" THEN "gap" ELSE "frequency"
      /\ UNCHANGED <<stored, docs, segments, position, cursor>>
  BY DEF PushPosting
<1>2. FromSource /\ NumbersReadBack /\ DocsReadBack
  BY DEF TripInv
<1>3. /\ original' = original /\ FromSource' /\ codec' = codec /\ count' = count
  BY <1>1, <1>2, SourceStays
<1>4. /\ Len(decoded) + 1 \in 1 .. count
      /\ posting = original[Len(decoded) + 1]
      /\ cursor = Offset(codec, original, Len(decoded) + 2, 1)
  BY <1>1, PostingAtCursor
<1> HIDE DEF posting
<1>5. decoded \in Seq([doc : U32, positions : ValidPositions])
  BY DEF BlockInv, NumbersInv
<1>6. Len(decoded) \in Nat /\ Len(decoded') = Len(decoded) + 1 /\ Len(decoded') + 1 = Len(decoded) + 2
  BY <1>1, <1>5
<1>7. ASSUME NEW k \in 1 .. Len(decoded')
      PROVE  k \in 1 .. count /\ decoded'[k] = original[k]
  <2>1. \/ k \in 1 .. Len(decoded) /\ decoded'[k] = decoded[k]
        \/ k = Len(decoded) + 1 /\ decoded'[k] = posting
    BY <1>1, <1>5, <1>6
  <2> QED BY <1>2, <1>4, <2>1 DEF NumbersReadBack
<1>8. codec /= "VarByte" => Lead(codec) + 1 = 1
  BY DEF Lead
<1>9. NumbersReadBack'
  BY <1>1, <1>3, <1>4, <1>6, <1>7, <1>8 DEF NumbersReadBack
<1>10. DocsReadBack'
  BY <1>1, <1>2, <1>3 DEF DocsReadBack
<1> QED BY <1>3, <1>9, <1>10 DEF TripInv

LEMMA AcceptReadsBack ==
  ASSUME BlockInv, original /= <<>>, TripInv, Accept
  PROVE  TripInv'
<1>1. /\ reading' = "done"
      /\ UNCHANGED <<stored, docs, segments, position, cursor, frequency, positions, decoded>>
  BY DEF Accept
<1>2. FromSource /\ NumbersReadBack /\ DocsReadBack
  BY DEF TripInv
<1>3. /\ original' = original /\ FromSource' /\ codec' = codec /\ count' = count
  BY <1>1, <1>2, SourceStays
<1>4. NumbersReadBack'
  BY <1>1, <1>2, <1>3 DEF NumbersReadBack
<1>5. DocsReadBack'
  BY <1>1, <1>2, <1>3 DEF DocsReadBack
<1> QED BY <1>3, <1>4, <1>5 DEF TripInv

-----------------------------------------------------------------------------
\* Steps that read document IDs.

LEMMA FinishDocsReadsBack ==
  ASSUME BlockInv, original /= <<>>, TripInv, FinishDocs
  PROVE  TripInv'
<1>1. /\ reading = "docs"
      /\ reading' = "frequency"
      /\ UNCHANGED <<stored, docs, segments, position, cursor, frequency, positions, decoded>>
  BY DEF FinishDocs
<1>2. FromSource /\ NumbersReadBack /\ DocsReadBack
  BY DEF TripInv
<1>3. /\ original' = original /\ FromSource' /\ codec' = codec /\ count' = count
  BY <1>1, <1>2, SourceStays
<1>4. codec /= "VarByte" /\ decoded = <<>>
  BY <1>1 DEF BlockInv, DocsInv
<1>5. Lead(codec) + 1 = 1 /\ Len(decoded) + 1 = 1
  BY <1>4 DEF Lead
<1>6. cursor = Offset(codec, original, 1, 1)
  <2>1. cursor = 0 /\ Source(codec, original)
    BY <1>1, <1>2 DEF NumbersReadBack, FromSource
  <2> QED BY <2>1, OffsetsMeet
<1>7. NumbersReadBack'
  BY <1>1, <1>2, <1>3, <1>5, <1>6 DEF NumbersReadBack
<1>8. DocsReadBack'
  BY <1>1, <1>2, <1>3 DEF DocsReadBack
<1> QED BY <1>3, <1>7, <1>8 DEF TripInv

\* The next ID of Elias-Fano.
LEMMA EliasAtPosition ==
  ASSUME BlockInv, original /= <<>>, TripInv,
         reading = "docs", codec = "EliasFano", Len(docs) < count
  PROVE  /\ EliasFits
         /\ Len(docs) \in Nat /\ Len(docs) + 1 \in 1 .. count
         /\ NextElias = original[Len(docs) + 1].doc
         /\ NextHigh + 1 = EliasAt(IdsOf(original), Len(docs) + 1)
<1> DEFINE values == IdsOf(original)
<1>1. FromSource /\ NumbersReadBack /\ DocsReadBack
  BY DEF TripInv
<1>2. /\ Source(codec, original) /\ count = Len(original)
      /\ docBlock = EncodeElias(values)
  BY <1>1 DEF FromSource, EncodeDocs
<1>3. /\ SourceIds(values) /\ Len(values) = count /\ count \in Nat \ {0}
      /\ \A i \in 1 .. count : values[i] = original[i].doc /\ values[i] \in U32
      /\ Increasing(values) /\ values \in Seq(U32)
  BY <1>2, SourceIdsAre
<1>4. docs \in Seq(U32)
  BY DEF BlockInv, DocsInv
<1>5. PICK k \in 0 .. count - 1 : k = Len(docs) /\ k + 1 \in 1 .. count
  <2>1. Len(docs) \in Nat
    BY <1>4
  <2> QED BY <1>3, <2>1
<1>6. position = EliasAt(values, k)
  BY <1>1, <1>5 DEF DocsReadBack
<1> HIDE DEF values
<1>7. /\ HighSet(docBlock, count, position) /= {}
      /\ NextHigh = HighAt(values, k + 1)
      /\ NextHigh + 1 = EliasAt(values, k + 1)
  <2>1. k \in 0 .. Len(values) /\ k < Len(values)
    BY <1>3, <1>5
  <2> QED BY <1>2, <1>3, <1>6, <2>1, NextHighIs DEF NextHigh
<1>8. NextElias = values[k + 1]
  <2>1. k \in 0 .. Len(values) - 1
    BY <1>3
  <2>2. EliasValue(EncodeElias(values), Len(values), k, HighAt(values, k + 1)) = values[k + 1]
    BY <1>3, <2>1, EliasReads
  <2> QED BY <1>2, <1>3, <1>5, <1>7, <2>2 DEF NextElias
<1>9. docBlock.last = values[count]
  BY <1>2, <1>3, EliasBits
<1>10. \A i, j \in 1 .. count : i < j => values[i] < values[j]
  <2>1. DOMAIN values = 1 .. count
    BY <1>3
  <2> QED BY <1>3, <2>1 DEF Increasing
<1>11. docs /= <<>> => NextElias > docs[Len(docs)]
  <2>1. SUFFICES ASSUME docs /= <<>> PROVE NextElias > docs[k]
    BY <1>5
  <2>2. k \in DOMAIN docs /\ k \in 1 .. count
    <3>1. Len(docs) /= 0 /\ DOMAIN docs = 1 .. Len(docs) /\ Len(docs) \in Nat
      BY <1>4, <2>1
    <3> QED BY ONLY <1>3, <1>5, <3>1, k \in 0 .. count - 1
  <2>3. docs[k] = values[k]
    BY <1>1, <1>3, <2>2 DEF DocsReadBack
  <2>4. values[k] < values[k + 1]
    BY <1>5, <1>10, <2>2
  <2>5. values[k] \in Int /\ values[k + 1] \in Int
    BY <1>3, <1>5, <2>2 DEF U32
  <2> QED BY <1>8, <2>3, <2>4, <2>5
<1>12. NextElias <= docBlock.last
  <2>1. values[k + 1] \in Int
    BY <1>3, <1>5 DEF U32
  <2>2. k + 1 = count \/ k + 1 < count
    BY <1>5, <1>3
  <2>3. count \in 1 .. count /\ values[count] \in Int
    BY <1>3 DEF U32
  <2>4. values[k + 1] <= values[count]
    BY <1>5, <1>10, <2>1, <2>2, <2>3
  <2> QED BY <1>8, <1>9, <2>4
<1>13. Len(docs) + 1 = count =>
         NextElias = docBlock.last /\ HighSet(docBlock, count, NextHigh + 1) = {}
  <2>1. SUFFICES ASSUME k + 1 = count
                 PROVE  NextElias = docBlock.last /\ HighSet(docBlock, count, NextHigh + 1) = {}
    BY <1>5
  <2>2. count \in 0 .. Len(values)
    BY <1>3
  <2>3. HighSet(EncodeElias(values), Len(values), EliasAt(values, count)) = {}
    BY <1>3, <2>2, NextHighIs
  <2> QED BY <1>2, <1>3, <1>7, <1>8, <1>9, <2>1, <2>3
<1>14. EliasFits
  BY <1>7, <1>11, <1>12, <1>13 DEF EliasFits, EliasAccepts
<1> QED BY <1>3, <1>5, <1>7, <1>8, <1>14 DEF values

LEMMA DecodeEliasReadsBack ==
  ASSUME BlockInv, original /= <<>>, TripInv, DecodeElias
  PROVE  TripInv'
<1>1. /\ reading = "docs" /\ codec = "EliasFano" /\ Len(docs) < count
      /\ docs' = Append(docs, NextElias)
      /\ position' = NextHigh + 1
      /\ UNCHANGED <<stored, reading, segments, cursor, frequency, positions, decoded>>
  BY DEF DecodeElias
<1>2. FromSource /\ NumbersReadBack /\ DocsReadBack
  BY DEF TripInv
<1>3. /\ original' = original /\ FromSource' /\ codec' = codec /\ count' = count
  BY <1>1, <1>2, SourceStays
<1>4. /\ Len(docs) \in Nat /\ Len(docs) + 1 \in 1 .. count
      /\ NextElias = original[Len(docs) + 1].doc
      /\ NextHigh + 1 = EliasAt(IdsOf(original), Len(docs) + 1)
  BY <1>1, EliasAtPosition
<1>5. docs \in Seq(U32)
  BY <1>1 DEF BlockInv, DocsInv
<1>6. Len(docs') = Len(docs) + 1
  BY <1>1, <1>5
<1>7. ASSUME NEW k \in DOMAIN docs' PROVE k \in 1 .. count /\ docs'[k] = original[k].doc
  <2>1. \/ k \in DOMAIN docs /\ docs'[k] = docs[k]
        \/ k = Len(docs) + 1 /\ docs'[k] = NextElias
    BY <1>1, <1>5
  <2> QED BY <1>2, <1>4, <2>1 DEF DocsReadBack
<1>8. DocsReadBack'
  BY <1>1, <1>3, <1>4, <1>6, <1>7 DEF DocsReadBack
<1>9. NumbersReadBack'
  BY <1>1, <1>2, <1>3 DEF NumbersReadBack
<1> QED BY <1>3, <1>8, <1>9 DEF TripInv

\* The codes of the ranges left, when one is put before them or taken away.
Ranges(values) == (1 .. Len(values)) \X (0 .. Len(values) - 1)

LEMMA FollowFirst ==
  ASSUME NEW s \in Seq(Nat \X Nat), s /= <<>>, NEW values, NEW bits, NEW from \in Nat,
         NEW size \in Nat, Follow(s, values, bits, from, size),
         Len(CodeOf(values)[s[1]]) \in Nat
  PROVE  /\ Coded(bits, from, CodeOf(values)[s[1]])
         /\ from + Len(CodeOf(values)[s[1]]) <= size
         /\ Follow(Tail(s), values, bits, from + Len(CodeOf(values)[s[1]]), size)
<1>1. PICK n \in Nat : Len(s) = n + 1
  <2>1. Len(s) - 1 \in Nat /\ Len(s) = (Len(s) - 1) + 1
    OBVIOUS
  <2> QED BY <2>1, Zenon
<1>2. PICK at \in [1 .. Len(s) + 1 -> Nat] :
        /\ at[1] = from /\ at[Len(s) + 1] = size
        /\ \A k \in 1 .. Len(s) + 1 : at[k] <= size
        /\ \A k \in 1 .. Len(s) :
             /\ Coded(bits, at[k], CodeOf(values)[s[k]])
             /\ at[k + 1] = at[k] + Len(CodeOf(values)[s[k]])
  BY DEF Follow
<1>3. /\ Len(Tail(s)) = n
      /\ \A k \in 1 .. n : Tail(s)[k] = s[k + 1]
  BY <1>1
<1>4. 1 \in 1 .. Len(s) /\ 2 \in 1 .. Len(s) + 1 /\ 1 + 1 = 2
  BY <1>1
<1>5. /\ Coded(bits, from, CodeOf(values)[s[1]])
      /\ at[2] = from + Len(CodeOf(values)[s[1]]) /\ at[2] <= size
  BY <1>2, <1>4
<1> DEFINE next == [k \in 1 .. n + 1 |-> at[k + 1]]
<1>6. /\ next \in [1 .. n + 1 -> Nat]
      /\ next[1] = at[2] /\ next[n + 1] = size
      /\ \A k \in 1 .. n + 1 : next[k] = at[k + 1] /\ next[k] <= size
  <2>1. \A k \in 1 .. n + 1 : k + 1 \in 1 .. Len(s) + 1
    BY <1>1
  <2>2. at[n + 1 + 1] = size
    BY <1>1, <1>2
  <2>3. \A k \in 1 .. n + 1 : at[k + 1] \in Nat /\ at[k + 1] <= size
    BY <1>2, <2>1
  <2>4. 1 \in 1 .. n + 1 /\ n + 1 \in 1 .. n + 1 /\ 1 + 1 = 2
    OBVIOUS
  <2>5. next \in [1 .. n + 1 -> Nat] /\ \A k \in 1 .. n + 1 : next[k] = at[k + 1]
    BY ONLY <2>3
  <2> HIDE DEF next
  <2> QED BY ONLY <2>2, <2>3, <2>4, <2>5
<1>7. ASSUME NEW k \in 1 .. n
      PROVE  /\ Coded(bits, next[k], CodeOf(values)[Tail(s)[k]])
             /\ next[k + 1] = next[k] + Len(CodeOf(values)[Tail(s)[k]])
  <2>1. k + 1 \in 1 .. Len(s) /\ k \in 1 .. n + 1 /\ k + 1 \in 1 .. n + 1
    BY <1>1
  <2>2. next[k] = at[k + 1] /\ next[k + 1] = at[k + 1 + 1] /\ Tail(s)[k] = s[k + 1]
    BY <1>3, <1>6, <2>1
  <2> HIDE DEF next
  <2> QED BY <1>2, <2>1, <2>2
<1> HIDE DEF next
<1>8. Follow(Tail(s), values, bits, at[2], size)
  BY <1>3, <1>6, <1>7 DEF Follow
<1> QED BY ONLY <1>5, <1>8

LEMMA FollowMore ==
  ASSUME NEW s \in Seq(Nat \X Nat), NEW values, NEW bits, NEW from \in Nat, NEW size \in Nat,
         NEW i \in Nat, NEW j \in Nat, NEW m \in Nat,
         i <= j => m = Len(CodeOf(values)[<<i, j>>]) /\ Coded(bits, from, CodeOf(values)[<<i, j>>]),
         i > j => m = 0,
         Follow(s, values, bits, from + m, size)
  PROVE  Follow(Unread(i, j) \o s, values, bits, from, size)
<1>1. PICK n \in Nat : Len(s) = n
  OBVIOUS
<1>2. CASE i > j
  <2>1. Unread(i, j) \o s = s /\ from + m = from
    BY <1>2 DEF Unread
  <2> QED BY <2>1
<1>3. CASE i <= j
  <2>1. PICK at \in [1 .. n + 1 -> Nat] :
          /\ at[1] = from + m /\ at[n + 1] = size
          /\ \A k \in 1 .. n + 1 : at[k] <= size
          /\ \A k \in 1 .. n :
               /\ Coded(bits, at[k], CodeOf(values)[s[k]])
               /\ at[k + 1] = at[k] + Len(CodeOf(values)[s[k]])
    BY <1>1 DEF Follow
  <2> DEFINE all == << <<i, j>> >> \o s
             next == [k \in 1 .. n + 2 |-> IF k = 1 THEN from ELSE at[k - 1]]
  <2>2. Len(all) = n + 1 /\ all[1] = <<i, j>> /\ \A k \in 1 .. n : all[k + 1] = s[k]
    <3>1. PICK range \in Nat \X Nat : range = <<i, j>>
      OBVIOUS
    <3>2. <<range>> \in Seq(Nat \X Nat) /\ Len(<<range>>) = 1 /\ <<range>>[1] = range
      OBVIOUS
    <3>3. /\ Len(<<range>> \o s) = 1 + n
          /\ (<<range>> \o s)[1] = range
          /\ \A k \in 1 .. n : (<<range>> \o s)[1 + k] = s[k]
      <4>1. 1 \in 1 .. 1
        OBVIOUS
      <4> QED BY ONLY <1>1, <3>2, <4>1, s \in Seq(Nat \X Nat), Concatenated
    <3>4. \A k \in 1 .. n : 1 + k = k + 1
      OBVIOUS
    <3> QED BY <3>1, <3>3, <3>4
  <2>3. /\ next \in [1 .. n + 2 -> Nat]
        /\ next[1] = from
        /\ \A k \in 1 .. n + 1 : next[k + 1] = at[k]
    <3>1. \A k \in 1 .. n + 2 : k /= 1 => k - 1 \in 1 .. n + 1
      OBVIOUS
    <3>2. \A k \in 1 .. n + 1 : k + 1 \in 1 .. n + 2 /\ k + 1 /= 1 /\ (k + 1) - 1 = k
      OBVIOUS
    <3>3. 1 \in 1 .. n + 2
      OBVIOUS
    <3> QED BY <3>1, <3>2, <3>3
  <2> HIDE DEF all, next
  <2>4. ASSUME NEW k \in 1 .. n + 2 PROVE next[k] <= size
    <3>1. CASE k = 1
      <4>1. 1 \in 1 .. n + 1
        OBVIOUS
      <4>2. from + m <= size
        BY <2>1, <4>1
      <4> QED BY <2>3, <3>1, <4>2
    <3>2. CASE k /= 1
      <4>1. PICK l \in 1 .. n + 1 : k = l + 1
        <5>1. k - 1 \in 1 .. n + 1 /\ k = (k - 1) + 1
          BY <3>2
        <5> QED BY <5>1
      <4> QED BY <2>1, <2>3, <4>1
    <3> QED BY <3>1, <3>2
  <2>5. ASSUME NEW k \in 1 .. n + 1
        PROVE  /\ Coded(bits, next[k], CodeOf(values)[all[k]])
               /\ next[k + 1] = next[k] + Len(CodeOf(values)[all[k]])
    <3>1. CASE k = 1
      <4>1. 1 \in 1 .. n + 1 /\ next[1 + 1] = at[1]
        BY <2>3
      <4> QED BY <1>3, <2>1, <2>2, <2>3, <3>1, <4>1
    <3>2. CASE k /= 1
      <4>1. PICK l \in 1 .. n : k = l + 1
        <5>1. k - 1 \in 1 .. n /\ k = (k - 1) + 1
          BY <3>2
        <5> QED BY <5>1
      <4>2. l \in 1 .. n + 1 /\ l + 1 \in 1 .. n + 1
        OBVIOUS
      <4>3. next[k] = at[l] /\ next[k + 1] = at[l + 1] /\ all[k] = s[l]
        BY <2>2, <2>3, <4>1, <4>2
      <4> QED BY <2>1, <4>1, <4>3
    <3> QED BY <3>1, <3>2
  <2>6. next[n + 2] = size
    <3>1. n + 1 \in 1 .. n + 1 /\ (n + 1) + 1 = n + 2
      OBVIOUS
    <3>2. next[(n + 1) + 1] = at[n + 1]
      BY <2>3, <3>1
    <3> QED BY <2>1, <3>1, <3>2
  <2>7. Follow(all, values, bits, from, size)
    <3>1. Len(all) + 1 = n + 2
      BY <2>2
    <3>2. next \in [1 .. Len(all) + 1 -> Nat] /\ next[1] = from /\ next[Len(all) + 1] = size
      BY ONLY <2>2, <2>3, <2>6, <3>1
    <3>3. \A k \in 1 .. Len(all) + 1 : next[k] <= size
      BY ONLY <2>4, <3>1
    <3>4. \A k \in 1 .. Len(all) :
            /\ Coded(bits, next[k], CodeOf(values)[all[k]])
            /\ next[k + 1] = next[k] + Len(CodeOf(values)[all[k]])
      BY ONLY <2>2, <2>5
    <3> QED BY ONLY <3>2, <3>3, <3>4 DEF Follow
  <2>8. Unread(i, j) \o s = all
    BY <1>3 DEF Unread, all
  <2> QED BY <2>7, <2>8
<1> QED BY <1>2, <1>3

LEMMA FollowFrom ==
  ASSUME NEW s, Len(s) \in Nat, NEW values, NEW bits, NEW from, NEW size,
         Follow(s, values, bits, from, size)
  PROVE  from \in Nat /\ (Len(s) = 0 => from = size)
<1>1. PICK at \in [1 .. Len(s) + 1 -> Nat] : at[1] = from /\ at[Len(s) + 1] = size
  BY DEF Follow
<1>2. 1 \in 1 .. Len(s) + 1
  OBVIOUS
<1> QED BY <1>1, <1>2

AreRanges(ranges) == ranges \in Seq(Nat \X Nat)

LEMMA RangesAssociate ==
  ASSUME NEW a, NEW b, NEW c, AreRanges(a), AreRanges(b), AreRanges(c)
  PROVE  a \o (b \o c) = (a \o b) \o c
<1> DEFINE R == Nat \X Nat
<1>1. a \in Seq(R) /\ b \in Seq(R) /\ c \in Seq(R)
  BY DEF AreRanges
<1> HIDE DEF R
<1>2. PICK x \in Seq(R), y \in Seq(R), z \in Seq(R) : x = a /\ y = b /\ z = c
  BY ONLY <1>1
<1>3. (x \o y) \o z = x \o (y \o z)
  BY ONLY ConcatAssociative
<1> QED BY ONLY <1>2, <1>3

\* The next median of Interpolative.
LEMMA MedianAtPosition ==
  ASSUME BlockInv, original /= <<>>, TripInv,
         reading = "docs", codec = "Interpolative", segments /= <<>>
  PROVE  /\ MedianFits
         /\ Middle(Head(segments)[1], Head(segments)[2]) \in 1 .. count
         /\ SegmentLeast + Codeword.offset
              = original[Middle(Head(segments)[1], Head(segments)[2])].doc
         /\ Follow(Unread(Head(segments)[1], Middle(Head(segments)[1], Head(segments)[2]) - 1)
                     \o Unread(Middle(Head(segments)[1], Head(segments)[2]) + 1, Head(segments)[2])
                     \o Tail(segments),
                   IdsOf(original), docBlock.bits, Codeword.next, docBlock.size)
<1> DEFINE values == IdsOf(original)
           i == Head(segments)[1]
           j == Head(segments)[2]
           m == Middle(i, j)
<1>1. FromSource /\ NumbersReadBack /\ DocsReadBack
  BY DEF TripInv
<1>2. /\ Source(codec, original) /\ count = Len(original)
      /\ docBlock = EncodeInterpolative(values)
  BY <1>1 DEF FromSource, EncodeDocs
<1>3. /\ values \in Seq(U32) /\ Increasing(values) /\ Len(values) = count /\ Len(values) /= 0
      /\ count \in Nat \ {0}
      /\ \A k \in 1 .. count : values[k] = original[k].doc /\ values[k] \in U32
  BY <1>2, SourceIdsAre
<1> DEFINE bits == docBlock.bits
           size == docBlock.size
           code == CodeOf(values)[<<i, j>>]
           tail == Tail(segments)
<1>4. size \in Nat /\ Len(bits) \in Nat
  BY <1>2, <1>3, InterpolativeOpensBack
<1>5. Tiled
  BY DEF BlockInv, DocsInv
<1>6. /\ segments \in Seq(Nat \X Nat) /\ Len(segments) \in Nat /\ tail \in Seq(Nat \X Nat)
      /\ segments[1] = <<i, j>> /\ i \in Nat /\ j \in Nat /\ 1 <= i /\ i <= j
      /\ i = 1 \/ i - 1 \in DOMAIN docs
      /\ j + 1 \in DOMAIN docs
  <2>1. segments \in Seq(Nat \X Nat)
    BY <1>5 DEF Tiled
  <2>2. 1 \in DOMAIN segments /\ Head(segments) = segments[1] /\ segments[1] \in Nat \X Nat
        /\ tail \in Seq(Nat \X Nat) /\ Len(segments) \in Nat
    BY <2>1
  <2>3. Head(segments) = <<i, j>> /\ i \in Nat /\ j \in Nat
    BY <2>2
  <2> HIDE DEF tail
  <2> QED BY <1>5, <2>1, <2>2, <2>3 DEF Tiled
<1> HIDE DEF values, bits, size, i, j
<1>7. \A k \in DOMAIN docs : k \in 1 .. count /\ docs[k] = values[k]
  BY <1>1, <1>3 DEF DocsReadBack, values
<1>8. i \in 1 .. Len(values) /\ j \in 0 .. Len(values) - 1 /\ docs[j + 1] = values[j + 1]
  <2>1. j + 1 \in 1 .. count
    BY <1>6, <1>7
  <2> QED BY <1>3, <1>6, <1>7, <2>1
<1>9. /\ m \in i .. j
      /\ Least(i, j, Lower(values, i)) \in Int
      /\ Least(i, j, Lower(values, i)) <= Greatest(i, j, values[j + 1])
      /\ RangeOf(values, i, j) \in Nat \ {0}
      /\ RankOf(values, i, j) \in 0 .. RangeOf(values, i, j) - 1
  BY <1>3, <1>6, <1>8, SegmentIs
<1>10. SegmentLower = Lower(values, i)
  <2>1. i /= 1 => docs[i - 1] = values[i - 1]
    BY <1>6, <1>7
  <2> QED BY <2>1 DEF SegmentLower, Lower, i
<1>11. /\ SegmentLeast = Least(i, j, Lower(values, i))
       /\ SegmentGreatest = Greatest(i, j, values[j + 1])
  BY <1>8, <1>10 DEF SegmentLeast, SegmentGreatest, i, j
<1>12. Codeword = ReadTruncated(bits, size, position, RangeOf(values, i, j))
  BY <1>11 DEF Codeword, RangeOf, bits, size
<1>13. Follow(segments, values, bits, position, size)
  BY <1>1 DEF DocsReadBack, values, bits, size
<1>14. position \in Nat
  BY <1>6, <1>13, FollowFrom
<1>15. Len(code) \in Nat
  <2>1. code \in Seq({0, 1})
    BY <1>3, <1>8, CodeIs
  <2> QED BY <2>1
<1>16. /\ Coded(bits, position, code)
       /\ position + Len(code) <= size
       /\ Follow(tail, values, bits, position + Len(code), size)
  <2> HIDE DEF tail
  <2>1. Len(CodeOf(values)[segments[1]]) \in Nat
    BY <1>6, <1>15
  <2> QED BY <1>4, <1>6, <1>13, <1>14, <2>1, FollowFirst DEF tail
<1>17. /\ Codeword.ok /\ Codeword.offset = RankOf(values, i, j)
       /\ \E next \in Nat, left \in Nat, right \in Nat :
            /\ next = Codeword.next
            /\ left = Len(CodeOf(values)[<<i, m - 1>>])
            /\ right = Len(CodeOf(values)[<<m + 1, j>>])
            /\ Coded(bits, next, CodeOf(values)[<<i, m - 1>>])
            /\ Coded(bits, next + left, CodeOf(values)[<<m + 1, j>>])
            /\ next + left + right = position + Len(code)
  <2>1. values \in Seq(U32) /\ Increasing(values)
    BY <1>3
  <2>2. i <= j /\ i \in 1 .. Len(values) /\ j \in 0 .. Len(values) - 1
    BY <1>6, <1>8
  <2>3. Coded(bits, position, code) /\ position + Len(code) <= size
    BY <1>16
  <2>4. MedianIsRead(values, i, j, bits, position, size)
    BY ONLY <1>4, <1>14, <2>1, <2>2, <2>3, MedianReads
  <2> QED BY ONLY <1>12, <2>4 DEF MedianIsRead
<1>18. MedianFits
  BY <1>9, <1>11, <1>17 DEF MedianFits
<1>19. SegmentLeast + Codeword.offset = values[m] /\ m \in 1 .. count
  <2>1. m \in 1 .. count
    <3>1. m \in i .. j /\ i \in 1 .. count /\ j \in 0 .. count - 1 /\ count \in Nat
      BY <1>3, <1>8, <1>9
    <3> HIDE DEF m
    <3> QED BY ONLY <3>1
  <2>2. values[m] \in Int
    BY <1>3, <2>1 DEF U32
  <2>3. PICK l \in Int : l = Least(i, j, Lower(values, i))
    BY <1>9
  <2>4. RankOf(values, i, j) = values[m] - l
    BY <2>3 DEF RankOf
  <2> QED BY <1>11, <1>17, <2>1, <2>2, <2>3, <2>4
<1>20. PICK next \in Nat, left \in Nat, right \in Nat :
            /\ next = Codeword.next
            /\ left = Len(CodeOf(values)[<<i, m - 1>>])
            /\ right = Len(CodeOf(values)[<<m + 1, j>>])
            /\ Coded(bits, next, CodeOf(values)[<<i, m - 1>>])
            /\ Coded(bits, next + left, CodeOf(values)[<<m + 1, j>>])
            /\ next + left + right = position + Len(code)
  BY <1>17
<1>21. PICK a \in Nat, b \in Nat : a = m - 1 /\ b = m + 1
  <2>1. i \in Nat /\ j \in Nat /\ 1 <= i /\ m \in i .. j
    BY <1>6, <1>9
  <2>2. m - 1 \in Nat /\ m + 1 \in Nat
    <3> HIDE DEF m
    <3> QED BY ONLY <2>1
  <2> QED BY <2>2
<1>22. /\ a \in 0 .. Len(values) - 1 /\ b \in 1 .. Len(values)
  <2>1. m \in i .. j /\ i \in 1 .. count /\ j \in 0 .. count - 1 /\ count \in Nat
        /\ Len(values) = count
    BY <1>3, <1>8, <1>9
  <2> HIDE DEF m
  <2> QED BY ONLY <1>21, <2>1
<1>23. /\ i > a => left = 0
       /\ b > j => right = 0
  <2>1. i > a => CodeOf(values)[<<i, a>>] = <<>>
    BY <1>3, <1>8, <1>22, CodeIs
  <2>2. b > j => CodeOf(values)[<<b, j>>] = <<>>
    BY <1>3, <1>8, <1>22, CodeIs
  <2>3. Len(<<>>) = 0
    OBVIOUS
  <2> QED BY <1>20, <1>21, <2>1, <2>2, <2>3
<1>24. Follow(tail, values, bits, (next + left) + right, size)
  BY <1>16, <1>20
<1>25. Follow(Unread(b, j) \o tail, values, bits, next + left, size)
  <2> HIDE DEF tail
  <2>1. next + left \in Nat
    OBVIOUS
  <2> QED BY <1>4, <1>6, <1>20, <1>21, <1>22, <1>23, <1>24, <2>1, FollowMore
<1>26. Unread(b, j) \o tail \in Seq(Nat \X Nat) /\ Unread(i, a) \in Seq(Nat \X Nat)
       /\ Unread(b, j) \in Seq(Nat \X Nat)
  <2> HIDE DEF tail
  <2>1. Unread(b, j) \in Seq(Nat \X Nat)
    <3>1. b \in Nat /\ j \in Int
      BY <1>6
    <3> QED BY ONLY <3>1, UnreadIs
  <2>2. Unread(i, a) \in Seq(Nat \X Nat)
    <3>1. i \in Nat /\ a \in Int
      BY <1>6
    <3> QED BY ONLY <3>1, UnreadIs
  <2> QED BY <1>6, <2>1, <2>2
<1>27. Follow(Unread(i, a) \o (Unread(b, j) \o tail), values, bits, next, size)
  <2> HIDE DEF tail
  <2> QED BY <1>4, <1>6, <1>20, <1>21, <1>23, <1>25, <1>26, FollowMore
<1>28. Unread(i, a) \o (Unread(b, j) \o tail) = Unread(i, a) \o Unread(b, j) \o tail
  <2> HIDE DEF tail
  <2>1. AreRanges(Unread(i, a)) /\ AreRanges(Unread(b, j)) /\ AreRanges(tail)
    BY <1>6, <1>26 DEF AreRanges
  <2> QED BY ONLY <2>1, RangesAssociate
<1> QED BY <1>3, <1>18, <1>19, <1>20, <1>21, <1>27, <1>28, Zenon DEF values, bits, size, i, j

LEMMA DecodeMedianReadsBack ==
  ASSUME BlockInv, original /= <<>>, TripInv, DecodeMedian
  PROVE  TripInv'
<1> DEFINE i == Head(segments)[1]
           j == Head(segments)[2]
           m == Middle(i, j)
           value == SegmentLeast + Codeword.offset
           ranges == Unread(i, m - 1) \o Unread(m + 1, j) \o Tail(segments)
<1>1. /\ reading = "docs" /\ codec = "Interpolative" /\ segments /= <<>>
      /\ docs' = [k \in DOMAIN docs \union {m} |-> IF k = m THEN value ELSE docs[k]]
      /\ segments' = ranges
      /\ position' = Codeword.next
      /\ UNCHANGED <<stored, reading, cursor, frequency, positions, decoded>>
  BY DEF DecodeMedian
<1>2. FromSource /\ NumbersReadBack /\ DocsReadBack
  BY DEF TripInv
<1>3. /\ original' = original /\ FromSource' /\ codec' = codec /\ count' = count
      /\ docBlock' = docBlock
  BY ONLY <1>1, <1>2, SourceStays
<1>4. /\ m \in 1 .. count
      /\ value = original[m].doc
      /\ Follow(ranges, IdsOf(original), docBlock.bits, Codeword.next, docBlock.size)
  BY <1>1, MedianAtPosition
<1> HIDE DEF m, value, ranges
<1>5. ASSUME NEW k \in DOMAIN docs' PROVE k \in 1 .. count /\ docs'[k] = original[k].doc
  <2>1. k \in DOMAIN docs \union {m} /\ docs'[k] = IF k = m THEN value ELSE docs[k]
    BY <1>1
  <2> QED BY <1>2, <1>4, <2>1 DEF DocsReadBack
<1>6. Follow(segments', IdsOf(original'), docBlock'.bits, position', docBlock'.size)
  BY <1>1, <1>3, <1>4
<1>7. DocsReadBack'
  BY <1>1, <1>3, <1>5, <1>6 DEF DocsReadBack
<1>8. NumbersReadBack'
  BY <1>1, <1>2, <1>3 DEF NumbersReadBack
<1> QED BY <1>3, <1>7, <1>8 DEF TripInv

\* What an encoder wrote is opened.
LEMMA SourceOpens ==
  ASSUME BlockInv, FromSource
  PROVE  CountFits /\ DocBlockOpens
<1>1. /\ Source(codec, original) /\ count = Len(original) /\ codec \in Codecs
      /\ docBlock = EncodeDocs(codec, IdsOf(original))
      /\ bytes = EncodeBlock(codec, original).bytes
  BY DEF FromSource, Source
<1>2. /\ SourceIds(IdsOf(original)) /\ Len(IdsOf(original)) = count /\ count \in Nat \ {0}
      /\ IdsOf(original) \in Seq(U32) /\ Increasing(IdsOf(original)) /\ Len(IdsOf(original)) /= 0
  BY <1>1, SourceIdsAre
<1>3. DocBlockOpens
  <2>1. CASE codec = "VarByte"
    BY <2>1 DEF DocBlockOpens
  <2>2. CASE codec = "EliasFano"
    BY <1>1, <1>2, <2>2, EliasOpensBack DEF DocBlockOpens, EncodeDocs
  <2>3. CASE codec = "Interpolative"
    BY <1>1, <1>2, <2>3, InterpolativeOpensBack DEF DocBlockOpens, EncodeDocs
  <2> QED BY <1>1, <2>1, <2>2, <2>3 DEF Codecs
<1>4. CountFits
  <2> DEFINE least == IF codec = "VarByte" THEN 3 ELSE 2
  <2>1. least = Lead(codec) + 2 /\ least \in Nat \ {0}
    BY DEF Lead
  <2>2. PICK size \in Nat : size = Len(bytes)
    BY DEF BlockInv, BlockTypes
  <2>3. least * count <= size
    BY <1>1, <2>1, <2>2, OffsetsMeet
  <2> HIDE DEF least
  <2>4. PICK l \in Nat \ {0}, n \in Nat : l = least /\ n = count
    BY <1>2, <2>1
  <2>5. l * n <= size /\ n * l = l * n /\ n * l \in Nat
    BY <2>3, <2>4
  <2>6. (n * l) \div l = n
    <3>1. PICK q \in Nat, r \in 0 .. l - 1 : q = (n * l) \div l /\ n * l = q * l + r
      <4>1. (n * l) % l \in 0 .. l - 1 /\ (n * l) \div l \in Nat
            /\ n * l = ((n * l) \div l) * l + ((n * l) % l)
        BY ONLY Division, <2>5, l \in Nat \ {0}
      <4> QED BY <4>1
    <3>2. 0 \in 0 .. l - 1 /\ n * l + 0 = q * l + r
      BY <2>5, <3>1
    <3>3. n = q
      BY ONLY <3>2, DivisionIsUnique, n \in Nat, q \in Nat, r \in 0 .. l - 1, l \in Nat \ {0}
    <3> QED BY <3>1, <3>3
  <2>7. n <= size \div l
    BY <2>5, <2>6, QuotientGrows
  <2> QED BY <2>2, <2>4, <2>7 DEF CountFits, least
<1> QED BY <1>3, <1>4

LEMMA OpenReadsBack ==
  ASSUME BlockInv, original /= <<>>, TripInv, Open
  PROVE  TripInv'
<1>1. /\ reading = "open"
      /\ reading' = IF codec = "VarByte" THEN "gap" ELSE "docs"
      /\ codec = "Interpolative" => /\ docs' = [k \in {count} |-> docBlock.last]
                                    /\ segments' = Unread(1, count - 1)
      /\ codec /= "Interpolative" => UNCHANGED <<docs, segments>>
      /\ UNCHANGED <<stored, position, cursor, frequency, positions, decoded>>
  BY DEF Open
<1>2. FromSource /\ NumbersReadBack /\ DocsReadBack
  BY DEF TripInv
<1>3. /\ original' = original /\ FromSource' /\ codec' = codec /\ count' = count
      /\ docBlock' = docBlock
  BY <1>1, <1>2, SourceStays
<1>4. /\ Source(codec, original) /\ count = Len(original) /\ codec \in Codecs
      /\ docBlock = EncodeDocs(codec, IdsOf(original))
  BY <1>2 DEF FromSource, Source
<1>5. docs = <<>> /\ decoded = <<>> /\ position = 0 /\ cursor = 0
  BY <1>1, <1>2 DEF BlockInv, DocsInv, NumbersReadBack, DocsReadBack
<1> DEFINE values == IdsOf(original)
<1>6. /\ SourceIds(values) /\ Len(values) = count /\ count \in Nat \ {0}
      /\ values \in Seq(U32) /\ Increasing(values) /\ Len(values) /= 0
      /\ \A k \in 1 .. count : values[k] = original[k].doc /\ values[k] \in U32
  BY <1>4, SourceIdsAre
<1>7. NumbersReadBack'
  <2>1. Len(decoded) + 1 = 1
    BY <1>5
  <2>2. Offset(codec, original, 1, 1) = 0
    BY <1>4, OffsetsMeet
  <2> QED BY <1>1, <1>2, <1>3, <1>5, <2>1, <2>2 DEF NumbersReadBack
<1>8. CASE codec = "VarByte"
  BY <1>1, <1>2, <1>3, <1>5, <1>7, <1>8 DEF DocsReadBack, TripInv
<1>9. CASE codec = "EliasFano"
  <2>1. EliasAt(values, Len(docs)) = 0
    BY <1>5 DEF EliasAt
  <2> QED BY <1>1, <1>2, <1>3, <1>5, <1>7, <1>9, <2>1 DEF DocsReadBack, TripInv
<1>10. CASE codec = "Interpolative"
  <2> DEFINE bits == docBlock.bits
             size == docBlock.size
             last == count - 1
  <2> HIDE DEF values
  <2>1. /\ docBlock.last = values[count]
        /\ size = Len(CodeOf(values)[<<1, last>>])
        /\ size \in Nat
        /\ Coded(bits, 0, CodeOf(values)[<<1, last>>])
    <3>1. docBlock = EncodeInterpolative(values)
      BY <1>4, <1>10 DEF EncodeDocs, values
    <3> QED BY <1>6, <3>1, InterpolativeOpensBack
  <2>2. \A k \in DOMAIN docs' : k \in 1 .. count /\ docs'[k] = original[k].doc
    <3>1. count \in 1 .. count
      BY <1>6
    <3> QED BY <1>1, <1>6, <1>10, <2>1, <3>1
  <2>3. Follow(<<>>, values, bits, size, size)
    <3>1. [k \in {1} |-> size] \in [1 .. 1 -> Nat] /\ 1 \in 1 .. 1 /\ Len(<<>>) + 1 = 1
          /\ Len(<<>>) = 0
      BY <2>1
    <3> DEFINE at == [k \in {1} |-> size]
    <3>2. at \in [1 .. 1 -> Nat] /\ at[1] = size /\ \A k \in 1 .. 1 : at[k] <= size
      BY <2>1
    <3> HIDE DEF at, size
    <3> QED BY <3>1, <3>2 DEF Follow
  <2>4. last \in 0 .. Len(values) - 1 /\ 1 \in 1 .. Len(values)
    BY <1>6
  <2>5. 1 > last => size = 0
    <3>1. 1 > last => CodeOf(values)[<<1, last>>] = <<>>
      BY <1>6, <2>4, CodeIs
    <3>2. Len(<<>>) = 0
      OBVIOUS
    <3> QED BY <2>1, <3>1, <3>2
  <2>6. Follow(Unread(1, last) \o <<>>, values, bits, 0, size)
    <3>1. <<>> \in Seq(Nat \X Nat) /\ 0 + size = size /\ last \in Nat
      BY <2>1, <2>4
    <3> HIDE DEF bits, size, last
    <3> QED BY <2>1, <2>3, <2>5, <3>1, FollowMore
  <2>7. Unread(1, last) \o <<>> = Unread(1, last)
    <3>1. Unread(1, last) \in Seq(Nat \X Nat)
      BY <2>4, UnreadIs
    <3> QED BY <3>1
  <2>8. Follow(segments', IdsOf(original'), docBlock'.bits, position', docBlock'.size)
    BY <1>1, <1>3, <1>5, <1>10, <2>6, <2>7 DEF values
  <2>9. DocsReadBack'
    BY <1>1, <1>3, <1>10, <2>2, <2>8 DEF DocsReadBack
  <2> QED BY <1>3, <1>7, <2>9 DEF TripInv
<1> QED BY <1>4, <1>8, <1>9, <1>10 DEF Codecs

\* What an encoder wrote is not refused.
LEMMA NothingFails ==
  ASSUME BlockInv, original /= <<>>, TripInv
  PROVE  ~Fails
<1>1. FromSource /\ NumbersReadBack /\ DocsReadBack
  BY DEF TripInv
<1>2. CountFits /\ DocBlockOpens
  BY <1>1, SourceOpens
<1>3. reading = "docs" /\ DocsComplete => BitsUsedUp
  <2>1. SUFFICES ASSUME reading = "docs", DocsComplete, codec = "Interpolative"
                 PROVE  position = docBlock.size
    BY DEF BitsUsedUp
  <2>2. Follow(segments, IdsOf(original), docBlock.bits, position, docBlock.size)
    BY <1>1, <2>1 DEF DocsReadBack
  <2>3. Len(segments) = 0
    BY <2>1 DEF DocsComplete
  <2> QED BY <2>2, <2>3, FollowFrom
<1>4. AllRead => cursor = Len(bytes)
  BY EndAtCursor
<1>5. reading = "docs" /\ codec = "EliasFano" /\ Len(docs) < count => EliasFits
  BY EliasAtPosition
<1>6. reading = "docs" /\ codec = "Interpolative" /\ segments /= <<>> => MedianFits
  BY MedianAtPosition
<1>7. reading = "gap" /\ Len(decoded) < count => GapFits(PreviousDoc)
  BY GapAtCursor
<1>8. reading = "frequency" /\ Len(decoded) < count => FrequencyFits
  BY FrequencyAtCursor
<1>9. reading = "position" /\ Len(positions) < frequency => GapFits(PreviousPosition)
  BY PositionAtCursor
<1> QED BY <1>2, <1>3, <1>4, <1>5, <1>6, <1>7, <1>8, <1>9 DEF Fails

LEMMA BlockStepReadsBack ==
  ASSUME BlockInv, TripInv, [DecoderNext]_decoderVars
  PROVE  TripInv'
<1>1. original' = original
  <2>1. CASE UNCHANGED decoderVars
    BY <2>1 DEF decoderVars, stored
  <2>2. CASE DecoderNext
    BY <2>2, Zenon DEF DecoderNext, Open, DecodeElias, DecodeMedian, FinishDocs, ReadGap,
                ReadFrequency, ReadPosition, PushPosting, Accept, RefuseBlock, stored
  <2> QED BY <2>1, <2>2
<1>2. SUFFICES ASSUME original /= <<>> PROVE TripInv'
  BY <1>1 DEF TripInv
<1>3. CASE Open
  BY <1>2, <1>3, OpenReadsBack
<1>4. CASE DecodeElias
  BY <1>2, <1>4, DecodeEliasReadsBack
<1>5. CASE DecodeMedian
  BY <1>2, <1>5, DecodeMedianReadsBack
<1>6. CASE FinishDocs
  BY <1>2, <1>6, FinishDocsReadsBack
<1>7. CASE ReadGap
  BY <1>2, <1>7, ReadGapReadsBack
<1>8. CASE ReadFrequency
  BY <1>2, <1>8, ReadFrequencyReadsBack
<1>9. CASE ReadPosition
  BY <1>2, <1>9, ReadPositionReadsBack
<1>10. CASE PushPosting
  BY <1>2, <1>10, PushReadsBack
<1>11. CASE Accept
  BY <1>2, <1>11, AcceptReadsBack
<1>12. CASE RefuseBlock
  BY <1>2, <1>12, NothingFails DEF RefuseBlock
<1>13. CASE UNCHANGED decoderVars
  BY <1>13 DEF decoderVars, stored, TripInv, FromSource, NumbersReadBack, DocsReadBack, Follow
<1> QED BY <1>3, <1>4, <1>5, <1>6, <1>7, <1>8, <1>9, <1>10, <1>11, <1>12, <1>13
        DEF DecoderNext

LEMMA ReadBackIsWhole ==
  ASSUME BlockInv, TripInv
  PROVE  RoundTrip
<1>1. SUFFICES ASSUME original /= <<>>
               PROVE  reading /= "refused" /\ (reading = "done" => decoded = original)
  BY DEF RoundTrip
<1>2. FromSource /\ NumbersReadBack
  BY <1>1 DEF TripInv
<1>3. SUFFICES ASSUME reading = "done" PROVE decoded = original
  BY <1>2 DEF NumbersReadBack
<1>4. /\ Source(codec, original) /\ count = Len(original)
      /\ \A k \in 1 .. Len(decoded) : decoded[k] = original[k]
  BY <1>2 DEF FromSource, NumbersReadBack
<1>5. Len(decoded) = count /\ decoded \in Seq([doc : U32, positions : ValidPositions])
  BY <1>3 DEF BlockInv, DocsInv, NumbersInv
<1>6. original \in Seq([doc : U32, positions : Seq(U32)])
  BY <1>4, BlocksAssumption DEF Source, U32
<1> QED BY ONLY <1>4, <1>5, <1>6

\* Whatever an encoder wrote, of postings that it encodes, is never refused, and is decoded to
\* those postings: encode_postings and decode_postings of codec.rs, with each codec.
THEOREM EncodedReadsBack ==
  DecoderSpec => []RoundTrip
<1>1. DecoderInit => BlockInv /\ TripInv
  BY StartIsValid, StartReadsBack
<1>2. BlockInv /\ TripInv /\ [DecoderNext]_decoderVars => BlockInv' /\ TripInv'
  BY BlockStepKeepsInv, BlockStepReadsBack
<1>3. BlockInv /\ TripInv => RoundTrip
  BY ReadBackIsWhole
<1> QED BY <1>1, <1>2, <1>3, PTL DEF DecoderSpec

\* The digits of a number, when bits above them are added.
LEMMA HigherBits ==
  ASSUME NEW w \in Nat, NEW q \in Nat, NEW r \in Nat, NEW d \in 0 .. w - 1
  PROVE  ((q * Pow2[w] + r) \div Pow2[d]) % 2 = (r \div Pow2[d]) % 2
<1>1. PICK e \in Nat : w = (d + 1) + e /\ d \in Nat /\ d + 1 \in Nat
  <2>1. w - (d + 1) \in Nat /\ w = (d + 1) + (w - (d + 1)) /\ d \in Nat /\ d + 1 \in Nat
    OBVIOUS
  <2> QED BY <2>1
<1>2. PICK b \in Nat \ {0} : b = Pow2[d]
  BY <1>1, PowersGrow
<1>3. PICK c \in Nat : c = Pow2[e]
  BY <1>1, PowersGrow
<1>4. Pow2[w] = (2 * b) * c
  <2>1. Pow2[d + 1] = 2 * b
    <3>1. d + 1 \in Nat \ {0} /\ (d + 1) - 1 = d
      BY <1>1
    <3> QED BY <1>2, <3>1, PowersDouble
  <2> QED BY <1>1, <1>3, <2>1, PowersAdd
<1>5. PICK s \in Nat, u \in 0 .. b - 1 : s = r \div b /\ r = s * b + u
  BY Division
<1>6. PICK x \in Nat : x = q * c
  OBVIOUS
<1>7. PICK t \in Nat : t = 2 * x + s
  OBVIOUS
<1>8. q * Pow2[w] + r = t * b + u
  <2>1. q * ((2 * b) * c) = 2 * ((q * c) * b)
    OBVIOUS
  <2>2. (2 * x + s) * b = 2 * (x * b) + s * b
    OBVIOUS
  <2>3. PICK y \in Nat, z \in Nat : y = x * b /\ z = s * b
    OBVIOUS
  <2>4. q * Pow2[w] = 2 * y /\ t * b = 2 * y + z /\ r = z + u
    BY ONLY <1>4, <1>5, <1>6, <1>7, <2>1, <2>2, <2>3
  <2> QED BY ONLY <2>4, y \in Nat, z \in Nat, u \in 0 .. b - 1
<1>9. (q * Pow2[w] + r) \div b = t
  <2>1. PICK g \in Nat : g = q * Pow2[w] + r
    <3>1. t * b \in Nat /\ u \in Nat
      OBVIOUS
    <3> QED BY <1>8, <3>1
  <2>2. PICK h \in Nat, k \in 0 .. b - 1 : h = g \div b /\ g = h * b + k
    BY Division
  <2>3. h * b + k = t * b + u
    BY <1>8, <2>1, <2>2
  <2>4. h = t
    BY ONLY <2>3, b \in Nat \ {0}, h \in Nat, t \in Nat, k \in 0 .. b - 1, u \in 0 .. b - 1,
            DivisionIsUnique
  <2> QED BY <2>1, <2>2, <2>4
<1>10. t % 2 = s % 2
  BY ONLY <1>7, x \in Nat, s \in Nat, t \in Nat
<1> QED BY ONLY <1>2, <1>5, <1>9, <1>10

\* The digits below a power, and what is above it.
LEMMA BitsAbove ==
  ASSUME NEW w \in Nat, NEW q \in Nat, NEW r \in Nat, r < Pow2[w]
  PROVE  (q * Pow2[w] + r) \div Pow2[w] = q /\ q * Pow2[w] + r \in Nat
<1>1. PICK b \in Nat \ {0} : b = Pow2[w]
  BY PowersGrow
<1>2. PICK g \in Nat : g = q * b + r
  OBVIOUS
<1>3. PICK h \in Nat, k \in 0 .. b - 1 : h = g \div b /\ g = h * b + k
  BY Division
<1>4. h * b + k = q * b + r /\ r \in 0 .. b - 1
  BY <1>1, <1>2, <1>3
<1>5. h = q
  BY ONLY <1>4, b \in Nat \ {0}, h \in Nat, q \in Nat, k \in 0 .. b - 1, r \in 0 .. b - 1,
          DivisionIsUnique
<1> QED BY <1>1, <1>2, <1>3, <1>5

\* Any bits are those of a number.
LEMMA BitsMakeNumber ==
  ASSUME NEW width \in Nat, NEW ones, \A d \in ones : d \in Nat /\ d < width
  PROVE  /\ SumFunction(Weights(ones)) \in Nat
         /\ SumFunction(Weights(ones)) < Pow2[width]
         /\ BitsBelow(ones, SumFunction(Weights(ones)), width)
<1> DEFINE Bad == {k \in 0 .. width : \A r \in Nat : r < Pow2[k] => ~BitsBelow(OnesBelow(ones, k), r, k)}
<1>1. ASSUME NEW k \in Bad PROVE \E l \in Bad : ~(k <= l)
  <2>1. CASE k = 0
    <3>1. OnesBelow(ones, 0) = {}
      BY DEF OnesBelow
    <3>2. BitsBelow({}, 0, 0)
      BY DEF BitsBelow
    <3>3. 0 \in Nat /\ 0 < Pow2[0]
      BY PowersDouble
    <3> QED BY <2>1, <3>1, <3>2, <3>3
  <2>2. CASE k /= 0
    <3>1. PICK l \in Nat : k = l + 1 /\ l \in 0 .. width
      <4>1. k - 1 \in Nat /\ k = (k - 1) + 1 /\ k - 1 \in 0 .. width
        BY <2>2
      <4> QED BY <4>1
    <3>2. SUFFICES ASSUME NEW r \in Nat, r < Pow2[l], BitsBelow(OnesBelow(ones, l), r, l)
                   PROVE  \E s \in Nat : s < Pow2[k] /\ BitsBelow(OnesBelow(ones, k), s, k)
      <4>1. l \in Bad \/ \E r \in Nat : r < Pow2[l] /\ BitsBelow(OnesBelow(ones, l), r, l)
        BY <3>1
      <4>2. ~(k <= l)
        BY <3>1
      <4>3. \A s \in Nat : s < Pow2[k] => ~BitsBelow(OnesBelow(ones, k), s, k)
        OBVIOUS
      <4> HIDE DEF Bad
      <4> QED BY <4>1, <4>2, <4>3
    <3>3. PICK b \in Nat \ {0} : b = Pow2[l] /\ Pow2[k] = 2 * b
      <4>1. l + 1 \in Nat \ {0} /\ (l + 1) - 1 = l
        OBVIOUS
      <4> QED BY <3>1, <4>1, PowersDouble, PowersGrow
    <3>4. PICK t \in {0, 1} : t = IF l \in ones THEN 1 ELSE 0
      OBVIOUS
    <3>5. PICK s \in Nat : s = t * Pow2[l] + r
      <4>1. t * b + r \in Nat
        OBVIOUS
      <4> QED BY <3>3, <4>1
    <3>6. s < Pow2[k]
      <4>1. t * b \in Nat /\ t * b <= b
        OBVIOUS
      <4>2. PICK x \in Nat : x = t * b
        BY <4>1
      <4>3. s = x + r /\ x <= b /\ r < b
        BY <3>2, <3>3, <3>5, <4>1, <4>2
      <4> QED BY ONLY <3>3, <4>3, x \in Nat, r \in Nat, b \in Nat
    <3>7. ASSUME NEW d \in Nat
          PROVE  d \in OnesBelow(ones, k) <=> d < k /\ (s \div Pow2[d]) % 2 = 1
      <4>1. CASE d < l
        <5>1. d \in OnesBelow(ones, k) <=> d \in OnesBelow(ones, l)
          BY ONLY <3>1, <4>1, d \in Nat, l \in Nat DEF OnesBelow
        <5>2. d \in OnesBelow(ones, l) <=> (r \div Pow2[d]) % 2 = 1
          BY ONLY <3>2, <4>1, d \in Nat DEF BitsBelow
        <5>3. d \in 0 .. l - 1 /\ t \in Nat
          BY <4>1
        <5>4. (s \div Pow2[d]) % 2 = (r \div Pow2[d]) % 2
          BY ONLY <3>5, <5>3, l \in Nat, r \in Nat, HigherBits
        <5>5. d < k
          BY ONLY <3>1, <4>1, d \in Nat, l \in Nat
        <5> QED BY ONLY <5>1, <5>2, <5>4, <5>5
      <4>2. CASE d = l
        <5>1. s \div Pow2[l] = t
          BY ONLY <3>2, <3>5, t \in {0, 1}, t \in Nat, l \in Nat, r \in Nat, BitsAbove
        <5>2. d \in OnesBelow(ones, k) <=> l \in ones
          BY <3>1, <4>2 DEF OnesBelow
        <5>3. t % 2 = t /\ d < k
          BY <3>1, <4>2
        <5> QED BY ONLY <3>4, <4>2, <5>1, <5>2, <5>3
      <4>3. CASE d > l
        <5>1. ~(d < k)
          BY <3>1, <4>3
        <5> QED BY <5>1 DEF OnesBelow
      <4> QED BY <4>1, <4>2, <4>3
    <3>8. OnesBelow(ones, k) \subseteq Nat
      BY DEF OnesBelow
    <3> QED BY <3>6, <3>7, <3>8 DEF BitsBelow
  <2> QED BY <2>1, <2>2
<1>2. Bad = {}
  <2>1. Bad \in SUBSET Nat
    OBVIOUS
  <2> HIDE DEF Bad
  <2> QED BY <1>1, <2>1, LeastNatural
<1>3. PICK r \in Nat : r < Pow2[width] /\ BitsBelow(OnesBelow(ones, width), r, width)
  <2>1. width \in 0 .. width
    OBVIOUS
  <2> QED BY <1>2, <2>1
<1>4. OnesBelow(ones, width) = ones
  BY DEF OnesBelow
<1>5. SumFunction(Weights(ones)) = r % Pow2[width]
  BY <1>3, <1>4, LowBitsAdd
<1>6. r % Pow2[width] = r
  <2>1. PICK b \in Nat \ {0} : b = Pow2[width]
    BY PowersGrow
  <2>2. PICK h \in Nat, k \in 0 .. b - 1 : k = r % b /\ r = h * b + k
    BY Division
  <2>3. 0 * b + r = h * b + k /\ r \in 0 .. b - 1
    BY <1>3, <2>1, <2>2
  <2>4. r = k
    BY ONLY <2>3, b \in Nat \ {0}, h \in Nat, 0 \in Nat, k \in 0 .. b - 1, r \in 0 .. b - 1,
            DivisionIsUnique
  <2> QED BY <2>1, <2>2, <2>4
<1> QED BY <1>3, <1>4, <1>5, <1>6

\* Any bits are those the encoder writes for the number they make.
LEMMA NumberIsWritten ==
  ASSUME NEW bits, NEW from \in Nat, NEW width \in Nat, Len(bits) \in Nat,
         from + width <= Len(bits), \A i \in 1 .. width : bits[from + i] \in {0, 1}
  PROVE  /\ Number(bits, from, width) \in Nat
         /\ Number(bits, from, width) < Pow2[width]
         /\ Coded(bits, from, Fixed(Number(bits, from, width), width))
<1>1. PICK v \in Nat : v = Number(bits, from, width)
  BY NumberTakesBit
<1> DEFINE Bad == {j \in 0 .. width : Number(bits, from, width - j) /= v \div Pow2[j]}
<1>2. ASSUME NEW j \in Nat, j + 1 <= width, Number(bits, from, width - j) = v \div Pow2[j]
      PROVE  /\ Number(bits, from, width - (j + 1)) = v \div Pow2[j + 1]
             /\ bits[from + (width - j)] = (v \div Pow2[j]) % 2
  <2>1. PICK k \in Nat : k = width - (j + 1) /\ k + 1 = width - j /\ k + 1 \in 1 .. width
    <3>1. width - (j + 1) \in Nat /\ (width - (j + 1)) + 1 = width - j /\ width - j \in 1 .. width
      BY <1>2
    <3> QED BY <3>1
  <2>2. PICK b \in Nat \ {0} : b = Pow2[j] /\ Pow2[j + 1] = 2 * b
    <3>1. j + 1 \in Nat \ {0} /\ (j + 1) - 1 = j
      OBVIOUS
    <3> QED BY <3>1, PowersDouble, PowersGrow
  <2>3. PICK t \in {0, 1} : t = bits[from + (k + 1)]
    BY <2>1
  <2>4. PICK n \in Nat : n = Number(bits, from, k)
    BY NumberTakesBit
  <2>5. Number(bits, from, k + 1) = 2 * n + t
    <3>1. Number(bits, from, k + 1)
            = 2 * Number(bits, from, k) + (IF bits[from + (k + 1)] = 1 THEN 1 ELSE 0)
      BY NumberTakesBit
    <3> QED BY ONLY <2>3, <2>4, <3>1, n \in Nat, t \in {0, 1}
  <2>6. PICK x \in Nat, y \in Nat, z \in {0, 1} :
          x = v \div b /\ y = v \div (2 * b) /\ z = (v \div b) % 2 /\ x = 2 * y + z
    <3>1. /\ v \div b \in Nat /\ v \div (2 * b) \in Nat
          /\ v \div b = 2 * (v \div (2 * b)) + ((v \div b) % 2)
          /\ (v \div b) % 2 \in {0, 1}
      BY ONLY v \in Nat, b \in Nat \ {0}, HalfOfQuotient
    <3> QED BY ONLY <3>1
  <2>7. 2 * n + t = 2 * y + z
    BY ONLY <1>2, <2>1, <2>2, <2>5, <2>6
  <2>8. n = y /\ t = z
    BY ONLY <2>7, n \in Nat, y \in Nat, t \in {0, 1}, z \in {0, 1}
  <2> QED BY ONLY <2>1, <2>2, <2>3, <2>4, <2>6, <2>8
<1>3. ASSUME NEW j \in Bad PROVE \E l \in Bad : ~(j <= l)
  <2>1. j /= 0
    <3>1. v \div Pow2[0] = v /\ width - 0 = width
      BY PowersDouble
    <3> QED BY <1>1, <3>1
  <2>2. PICK l \in Nat : j = l + 1 /\ l \in 0 .. width /\ l + 1 <= width
    <3>1. j - 1 \in Nat /\ j = (j - 1) + 1 /\ j - 1 \in 0 .. width /\ (j - 1) + 1 <= width
      BY <2>1
    <3> QED BY <3>1
  <2>3. l \in Bad \/ Number(bits, from, width - l) = v \div Pow2[l]
    BY <2>2
  <2>4. ~(j <= l) /\ Number(bits, from, width - j) /= v \div Pow2[j]
    BY <2>2
  <2> HIDE DEF Bad
  <2> QED BY <1>2, <2>2, <2>3, <2>4
<1>4. Bad = {}
  <2>1. Bad \in SUBSET Nat
    OBVIOUS
  <2> HIDE DEF Bad
  <2> QED BY <1>3, <2>1, LeastNatural
<1>5. v < Pow2[width]
  <2>1. PICK b \in Nat \ {0} : b = Pow2[width]
    BY PowersGrow
  <2>2. v \div b = 0
    <3>1. width \in 0 .. width /\ width - width = 0
      OBVIOUS
    <3>2. Number(bits, from, 0) = 0
      BY NumberTakesBit
    <3> QED BY <1>4, <2>1, <3>1, <3>2
  <2>3. PICK h \in Nat, k \in 0 .. b - 1 : h = v \div b /\ v = h * b + k
    BY Division
  <2> QED BY <2>1, <2>2, <2>3
<1>6. Coded(bits, from, Fixed(v, width))
  <2>1. Len(Fixed(v, width)) = width
    BY FixedIs
  <2>2. ASSUME NEW i \in 1 .. width
        PROVE  bits[from + i] = Fixed(v, width)[i]
    <3>1. PICK j \in Nat : j = width - i /\ j + 1 <= width /\ width - j = i /\ j \in 0 .. width
      <4>1. width - i \in Nat /\ (width - i) + 1 <= width /\ width - (width - i) = i
            /\ width - i \in 0 .. width
        OBVIOUS
      <4> QED BY <4>1
    <3>2. Number(bits, from, width - j) = v \div Pow2[j]
      BY <1>4, <3>1
    <3>3. bits[from + (width - j)] = (v \div Pow2[j]) % 2
      BY <1>2, <3>1, <3>2
    <3>4. Fixed(v, width)[i] = (v \div Pow2[width - i]) % 2
      BY DEF Fixed
    <3> QED BY ONLY <3>1, <3>3, <3>4
  <2> QED BY <2>1, <2>2 DEF Coded
<1> QED BY <1>1, <1>5, <1>6

\* A codeword that is read is the one the encoder writes for its offset.
LEMMA RankIsWritten ==
  ASSUME NEW range \in Nat \ {0}, NEW bits, NEW limit \in Nat, NEW from \in Nat,
         Len(bits) \in Nat, limit <= Len(bits), \A i \in 1 .. Len(bits) : bits[i] \in {0, 1},
         ReadTruncated(bits, limit, from, range).ok
  PROVE  /\ ReadTruncated(bits, limit, from, range).offset \in 0 .. range - 1
         /\ Coded(bits, from, Truncated(ReadTruncated(bits, limit, from, range).offset, range))
         /\ ReadTruncated(bits, limit, from, range).next
              = from + Len(Truncated(ReadTruncated(bits, limit, from, range).offset, range))
         /\ ReadTruncated(bits, limit, from, range).next <= limit
<1>1. PICK w \in Nat : w = Log2(range)
  BY Log2Is
<1>2. PICK c \in Nat : c = Cutoff(range)
  <2>1. 0 \in 0 .. range - 1
    OBVIOUS
  <2> QED BY <2>1, TruncatedIs
<1>3. PICK prefix \in Nat, long \in Nat :
        prefix = Number(bits, from, w) /\ long = Number(bits, from, w + 1)
  <2>1. Number(bits, from, w) \in Nat
    BY NumberTakesBit
  <2>2. w + 1 \in Nat
    OBVIOUS
  <2>3. Number(bits, from, w + 1) \in Nat
    BY ONLY <2>2, from \in Nat, NumberTakesBit
  <2> QED BY ONLY <2>1, <2>3
<1> DEFINE size == IF prefix < c THEN w ELSE w + 1
           offset == IF prefix < c THEN prefix ELSE Number(bits, from, size) - c
           read == ReadTruncated(bits, limit, from, range)
<1>4. ~(from + w > limit \/ from + size > limit \/ offset >= range)
      /\ read = [ok |-> TRUE, offset |-> offset, next |-> from + size]
  BY <1>1, <1>2, <1>3 DEF ReadTruncated
<1>5. ASSUME NEW n \in Nat, from + n <= limit
      PROVE  /\ Number(bits, from, n) \in Nat
             /\ Coded(bits, from, Fixed(Number(bits, from, n), n))
             /\ Len(Fixed(Number(bits, from, n), n)) = n
  <2>1. from + n <= Len(bits)
    BY <1>5
  <2>2. \A i \in 1 .. n : bits[from + i] \in {0, 1}
    <3> TAKE i \in 1 .. n
    <3>1. from + i \in 1 .. Len(bits)
      BY <2>1
    <3> QED BY <3>1
  <2>3. Number(bits, from, n) \in Nat /\ Coded(bits, from, Fixed(Number(bits, from, n), n))
    BY <2>1, <2>2, NumberIsWritten
  <2> QED BY <2>3, FixedIs
<1>6. CASE prefix < c
  <2>1. read.ok /\ read.offset = prefix /\ read.next = from + w /\ from + w <= limit
        /\ prefix \in 0 .. range - 1
    BY <1>4, <1>6
  <2>2. Truncated(prefix, range) = Fixed(prefix, w)
    BY <1>1, <1>2, <1>6 DEF Truncated
  <2>3. Coded(bits, from, Fixed(prefix, w)) /\ Len(Fixed(prefix, w)) = w
    BY <1>3, <1>5, <2>1
  <2> QED BY ONLY <2>1, <2>2, <2>3
<1>7. CASE ~(prefix < c)
  <2>1. read.ok /\ read.offset = long - c /\ read.next = from + (w + 1)
        /\ from + (w + 1) <= limit /\ ~(long - c >= range)
    BY <1>3, <1>4, <1>7
  <2>2. long = 2 * prefix + (IF bits[from + (w + 1)] = 1 THEN 1 ELSE 0)
    BY ONLY <1>3, w \in Nat, NumberTakesBit
  <2>3. PICK o \in Nat : o = long - c /\ o \in 0 .. range - 1 /\ ~(o < c) /\ o + c = long
    <3>1. long - c \in Nat /\ ~(long - c < c) /\ (long - c) + c = long
      BY ONLY <1>7, <2>2, prefix \in Nat, long \in Nat, c \in Nat
    <3> QED BY <2>1, <3>1
  <2>4. Truncated(o, range) = Fixed(long, w + 1)
    BY <1>1, <1>2, <2>3 DEF Truncated
  <2>5. Coded(bits, from, Fixed(long, w + 1)) /\ Len(Fixed(long, w + 1)) = w + 1
    BY <1>3, <1>5, <2>1, w + 1 \in Nat
  <2> QED BY ONLY <2>1, <2>3, <2>4, <2>5
<1> QED BY <1>6, <1>7

-----------------------------------------------------------------------------
\* What is accepted of the ranges is what the encoder writes.

LEMMA CodedJoined ==
  ASSUME NEW S, NEW a \in Seq(S), NEW b \in Seq(S), NEW bits, NEW from \in Nat, Len(bits) \in Nat,
         Coded(bits, from, a), Coded(bits, from + Len(a), b)
  PROVE  Coded(bits, from, a \o b)
<1>1. PICK l \in Nat, m \in Nat : l = Len(a) /\ m = Len(b)
  BY SeqElements
<1>2. /\ Len(a \o b) = l + m
      /\ \A i \in 1 .. l : (a \o b)[i] = a[i]
      /\ \A i \in 1 .. m : (a \o b)[l + i] = b[i]
  BY <1>1, Concatenated
<1>3. PICK end \in Nat : end = Len(bits)
  OBVIOUS
<1>4. from + l + m <= end /\ \A i \in 1 .. l : bits[from + i] = a[i]
  BY <1>1, <1>3 DEF Coded
<1>5. \A i \in 1 .. m : bits[from + l + i] = b[i]
  BY <1>1 DEF Coded
<1>6. ASSUME NEW i \in 1 .. l + m PROVE bits[from + i] = (a \o b)[i]
  <2>1. CASE i \in 1 .. l
    BY <1>2, <1>4, <2>1
  <2>2. CASE i \notin 1 .. l
    <3>1. PICK j \in 1 .. m : i = l + j /\ from + l + j = from + i
      <4>1. i - l \in 1 .. m /\ i = l + (i - l) /\ from + l + (i - l) = from + i
        BY <2>2
      <4> QED BY <4>1
    <3> QED BY <1>2, <1>5, <3>1
  <2> QED BY <2>1, <2>2
<1> QED BY <1>2, <1>3, <1>4, <1>6 DEF Coded

\* The first of the ranges that follow each other.
FollowsAt(m, s, values, bits, from, size, i, j) ==
  /\ i <= j => m = Len(CodeOf(values)[<<i, j>>]) /\ Coded(bits, from, CodeOf(values)[<<i, j>>])
  /\ i > j => m = 0
  /\ Follow(s, values, bits, from + m, size)

LEMMA FollowLess ==
  ASSUME NEW s \in Seq(Nat \X Nat), NEW values, NEW bits, NEW from \in Nat, NEW size \in Nat,
         NEW i \in Nat, NEW j \in Nat, i <= j => Len(CodeOf(values)[<<i, j>>]) \in Nat,
         Follow(Unread(i, j) \o s, values, bits, from, size)
  PROVE  \E m \in Nat : FollowsAt(m, s, values, bits, from, size, i, j)
<1>1. CASE i > j
  <2>1. Unread(i, j) \o s = s /\ from + 0 = from /\ 0 \in Nat
    BY <1>1 DEF Unread
  <2>2. FollowsAt(0, s, values, bits, from, size, i, j)
    BY <1>1, <2>1 DEF FollowsAt
  <2> QED BY <2>1, <2>2
<1>2. CASE i <= j
  <2>1. PICK range \in Nat \X Nat : range = <<i, j>>
    OBVIOUS
  <2> DEFINE all == <<range>> \o s
  <2>2. all \in Seq(Nat \X Nat) /\ all /= <<>> /\ all[1] = range /\ Tail(all) = s
    <3> DEFINE R == Nat \X Nat
    <3>1. range \in R /\ s \in Seq(R)
      OBVIOUS
    <3> HIDE DEF R
    <3>2. <<range>> \in Seq(R) /\ all \in Seq(R)
      BY ONLY <3>1
    <3>3. all /= <<>> /\ all[1] = range /\ Tail(all) = s
      BY ONLY <3>1
    <3> QED BY <3>2, <3>3 DEF R
  <2>3. Unread(i, j) \o s = all
    BY <1>2, <2>1 DEF Unread
  <2> HIDE DEF all
  <2>4. PICK m \in Nat : m = Len(CodeOf(values)[<<i, j>>])
    BY <1>2
  <2>5. /\ Coded(bits, from, CodeOf(values)[all[1]])
        /\ Follow(Tail(all), values, bits, from + Len(CodeOf(values)[all[1]]), size)
    BY <2>1, <2>2, <2>3, <2>4, FollowFirst
  <2>6. FollowsAt(m, s, values, bits, from, size, i, j)
    <3>1. all[1] = <<i, j>> /\ ~(i > j)
      BY <1>2, <2>1, <2>2
    <3> QED BY ONLY <2>2, <2>4, <2>5, <3>1 DEF FollowsAt
  <2> QED BY <2>6
<1> QED BY <1>1, <1>2

\* A median of the indices i .. j stands at `from`, the code of those before it at p and of
\* those after it at q.
RangeStands(values, i, j, bits, from, p, q) ==
  /\ values \in Seq(U32) /\ Increasing(values)
  /\ i \in 1 .. Len(values) /\ j \in 0 .. Len(values) - 1 /\ i <= j
  /\ Len(bits) \in Nat /\ from \in Nat
  /\ Coded(bits, from, Truncated(RankOf(values, i, j), RangeOf(values, i, j)))
  /\ p = from + Len(Truncated(RankOf(values, i, j), RangeOf(values, i, j)))
  /\ Coded(bits, p, CodeOf(values)[<<i, Middle(i, j) - 1>>])
  /\ q = p + Len(CodeOf(values)[<<i, Middle(i, j) - 1>>])
  /\ Coded(bits, q, CodeOf(values)[<<Middle(i, j) + 1, j>>])

\* The code of the indices i .. j stands at `from`, and ends where that of the later ones does.
RangeIsThere(values, i, j, bits, from, q) ==
  /\ Coded(bits, from, CodeOf(values)[<<i, j>>])
  /\ from + Len(CodeOf(values)[<<i, j>>]) = q + Len(CodeOf(values)[<<Middle(i, j) + 1, j>>])

\* When a median has been read and the codes beside it follow, the code of its range was there.
LEMMA RangeIsWritten ==
  ASSUME NEW values, NEW i, NEW j, NEW bits, NEW from, NEW p, NEW q,
         RangeStands(values, i, j, bits, from, p, q)
  PROVE  RangeIsThere(values, i, j, bits, from, q)
<1> DEFINE t == Truncated(RankOf(values, i, j), RangeOf(values, i, j))
           l == Len(CodeOf(values)[<<i, Middle(i, j) - 1>>])
<1>0. /\ values \in Seq(U32) /\ Increasing(values)
      /\ i \in 1 .. Len(values) /\ j \in 0 .. Len(values) - 1 /\ i <= j
      /\ Len(bits) \in Nat /\ from \in Nat
      /\ Coded(bits, from, t) /\ p = from + Len(t)
      /\ Coded(bits, p, CodeOf(values)[<<i, Middle(i, j) - 1>>]) /\ q = p + l
      /\ Coded(bits, q, CodeOf(values)[<<Middle(i, j) + 1, j>>])
  BY DEF RangeStands
<1>1. /\ Middle(i, j) \in i .. j
      /\ RangeOf(values, i, j) \in Nat \ {0}
      /\ RankOf(values, i, j) \in 0 .. RangeOf(values, i, j) - 1
      /\ CodeOf(values)[<<i, j>>]
           = t \o CodeOf(values)[<<i, Middle(i, j) - 1>>] \o CodeOf(values)[<<Middle(i, j) + 1, j>>]
  BY <1>0, SegmentIs
<1> HIDE DEF t, l
<1>2. t \in Seq({0, 1})
  BY <1>1, TruncatedIs DEF t
<1>3. PICK a \in Seq({0, 1}), b \in Seq({0, 1}) :
        a = CodeOf(values)[<<i, Middle(i, j) - 1>>] /\ b = CodeOf(values)[<<Middle(i, j) + 1, j>>]
  <2>1. PICK n \in Nat, m \in Nat : n = Len(values) /\ m = Middle(i, j)
    BY <1>0, <1>1, SeqElements
  <2>2. i \in 1 .. n /\ m - 1 \in 0 .. n - 1 /\ m + 1 \in 1 .. n /\ j \in 0 .. n - 1
    <3>1. i \in 1 .. n /\ j \in 0 .. n - 1 /\ m \in i .. j
      BY ONLY <1>0, <1>1, <2>1
    <3> QED BY ONLY <3>1, n \in Nat, m \in Nat
  <2> QED BY <1>0, <2>1, <2>2, CodeIs
<1>4. /\ t \o a \in Seq({0, 1}) /\ Len(t \o a) = Len(t) + Len(a)
      /\ Len((t \o a) \o b) = Len(t) + Len(a) + Len(b)
      /\ Len(t) \in Nat /\ Len(a) \in Nat /\ Len(b) \in Nat
  <2>1. t \o a \in Seq({0, 1}) /\ Len(t \o a) = Len(t) + Len(a) /\ Len(t) \in Nat /\ Len(a) \in Nat
    BY <1>2, Concatenated
  <2>2. Len((t \o a) \o b) = Len(t \o a) + Len(b) /\ Len(b) \in Nat
    BY <2>1, Concatenated
  <2> QED BY <2>1, <2>2
<1>5. Coded(bits, from, t \o a)
  BY <1>0, <1>2, <1>3, CodedJoined
<1>6. Coded(bits, from + Len(t \o a), b)
  <2>1. PICK x \in Nat, y \in Nat : x = Len(t) /\ y = Len(a)
    BY <1>4
  <2>2. l = y /\ Len(t \o a) = x + y
    BY <1>3, <1>4, <2>1 DEF l
  <2>3. q = from + (x + y)
    <3>1. q = (from + x) + y /\ from \in Nat
      BY <1>0, <2>1, <2>2
    <3> QED BY ONLY <3>1, x \in Nat, y \in Nat
  <2>4. q = from + Len(t \o a)
    BY ONLY <2>2, <2>3
  <2> QED BY ONLY <1>0, <1>3, <2>4
<1>7. Coded(bits, from, (t \o a) \o b)
  BY <1>0, <1>4, <1>5, <1>6, CodedJoined
<1>8. from + Len((t \o a) \o b) = q + Len(b)
  <2>1. PICK x \in Nat, y \in Nat, z \in Nat : x = Len(t) /\ y = Len(a) /\ z = Len(b)
    BY <1>4
  <2>2. Len((t \o a) \o b) = (x + y) + z /\ q = (from + x) + y /\ from \in Nat
    BY <1>0, <1>3, <1>4, <2>1 DEF l
  <2>3. from + ((x + y) + z) = ((from + x) + y) + z
    BY ONLY <2>2, x \in Nat, y \in Nat, z \in Nat
  <2> QED BY ONLY <2>1, <2>2, <2>3
<1>9. CodeOf(values)[<<i, j>>] = (t \o a) \o b
  BY <1>1, <1>3 DEF t
<1> QED BY ONLY <1>3, <1>7, <1>8, <1>9 DEF RangeIsThere

LEMMA EmptyIsCoded ==
  ASSUME NEW bits, NEW from \in Nat, from <= Len(bits)
  PROVE  Coded(bits, from, <<>>) /\ Len(<<>>) = 0
BY DEF Coded

LEMMA FollowWithin ==
  ASSUME NEW s, Len(s) \in Nat, NEW values, NEW bits, NEW from, NEW size,
         Follow(s, values, bits, from, size)
  PROVE  from <= size
<1>1. PICK at \in [1 .. Len(s) + 1 -> Nat] :
        at[1] = from /\ \A k \in 1 .. Len(s) + 1 : at[k] <= size
  BY DEF Follow
<1>2. 1 \in 1 .. Len(s) + 1
  OBVIOUS
<1> QED BY <1>1, <1>2

\* The IDs of a block once they are all decoded, when those decoded so far are among them.
Completes(values) ==
  /\ values \in Seq(U32) /\ Increasing(values) /\ Len(values) = count
  /\ \A k \in DOMAIN docs : values[k] = docs[k]

RestFollows(values) ==
  Follow(segments, values, docBlock.bits, position, docBlock.size)
AllFollow(values) ==
  Follow(Unread(1, count - 1), values, docBlock.bits, 0, docBlock.size)

IdsSoFar ==
  /\ count \in DOMAIN docs /\ docs[count] = docBlock.last
  /\ \A values \in Seq(U32) : Completes(values) /\ RestFollows(values) => AllFollow(values)

LEMMA MedianIsWritten ==
  ASSUME BlockInv, docBlock \in DocBlocks("Interpolative"), InterpolativeOpens(docBlock, count),
         position \in Nat, DecodeMedian,
         NEW values \in Seq(U32), Completes(values)', RestFollows(values)'
  PROVE  Completes(values) /\ RestFollows(values)
<1> DEFINE i == Head(segments)[1]
           j == Head(segments)[2]
           m == Middle(i, j)
           value == SegmentLeast + Codeword.offset
           tail == Tail(segments)
           ranges == Unread(i, m - 1) \o Unread(m + 1, j) \o tail
           bits == docBlock.bits
           size == docBlock.size
           code == CodeOf(values)[<<i, j>>]
<1>1. /\ reading = "docs" /\ codec = "Interpolative" /\ segments /= <<>> /\ MedianFits
      /\ docs' = [k \in DOMAIN docs \union {m} |-> IF k = m THEN value ELSE docs[k]]
      /\ segments' = ranges
      /\ position' = Codeword.next
      /\ docBlock' = docBlock /\ count' = count
  BY DEF DecodeMedian, stored
<1>2. /\ size \in Nat /\ Len(bits) \in Nat /\ size <= Len(bits)
      /\ \A k \in 1 .. Len(bits) : bits[k] \in {0, 1}
  <2>1. docBlock \in [last : 0 .. MaxValue, size : Nat, bits : Seq({0, 1})]
    BY DEF DocBlocks
  <2>2. size \in Nat /\ bits \in Seq({0, 1})
    BY <2>1
  <2> HIDE DEF size, bits
  <2>3. Len(bits) = WholeBytes(size)
    BY DEF InterpolativeOpens, size, bits
  <2>4. WholeBytes(size) \in Nat /\ size <= WholeBytes(size)
    BY <2>2, WholeBytesIs
  <2> QED BY <2>2, <2>3, <2>4, SeqElements
<1>3. Tiled /\ count \in Nat
  BY <1>1 DEF BlockInv, BlockTypes, DocsInv
<1>4. /\ segments \in Seq(Nat \X Nat) /\ tail \in Seq(Nat \X Nat) /\ Len(tail) \in Nat
      /\ segments[1] = <<i, j>> /\ i \in Nat /\ j \in Nat /\ 1 <= i /\ i <= j
      /\ i = 1 \/ i - 1 \in DOMAIN docs
      /\ j + 1 \in DOMAIN docs
      /\ \A k \in i .. j : k \notin DOMAIN docs
      /\ DOMAIN docs \subseteq 1 .. count
  <2>1. segments \in Seq(Nat \X Nat)
    BY <1>3 DEF Tiled
  <2>2. 1 \in DOMAIN segments /\ Head(segments) = segments[1] /\ segments[1] \in Nat \X Nat
        /\ tail \in Seq(Nat \X Nat) /\ Len(tail) \in Nat
    BY <1>1, <2>1
  <2>3. Head(segments) = <<i, j>> /\ i \in Nat /\ j \in Nat
    BY <2>2
  <2> HIDE DEF tail
  <2> QED BY <1>3, <2>1, <2>2, <2>3 DEF Tiled, Within
<1>5. /\ values \in Seq(U32) /\ Increasing(values) /\ Len(values) = count
      /\ \A k \in DOMAIN docs' : values[k] = docs'[k]
      /\ Follow(ranges, values, bits, Codeword.next, size)
  BY <1>1 DEF Completes, RestFollows
<1> HIDE DEF i, j, bits, size, tail
<1>6. i \in 1 .. count /\ j \in 0 .. count - 1
  <2>1. j + 1 \in 1 .. count
    BY <1>4
  <2> QED BY <1>3, <1>4, <2>1
<1>7. /\ m \in i .. j
      /\ Least(i, j, Lower(values, i)) \in Int
      /\ RangeOf(values, i, j) \in Nat \ {0}
      /\ RankOf(values, i, j) \in 0 .. RangeOf(values, i, j) - 1
  BY <1>4, <1>5, <1>6, SegmentIs
<1>8. m \in Nat /\ m \notin DOMAIN docs /\ m \in 1 .. count
  <2>1. m \in i .. j
    BY <1>7
  <2> HIDE DEF m
  <2> QED BY <1>3, <1>4, <1>6, <2>1
<1>9. values[m] = value /\ \A k \in DOMAIN docs : values[k] = docs[k]
  <2> HIDE DEF m, value
  <2> QED BY <1>1, <1>5, <1>8
<1>10. Completes(values)
  BY <1>5, <1>9 DEF Completes
<1>11. /\ SegmentLeast = Least(i, j, Lower(values, i))
       /\ SegmentGreatest = Greatest(i, j, values[j + 1])
  <2>1. SegmentLower = Lower(values, i)
    <3>1. i /= 1 => docs[i - 1] = values[i - 1]
      BY <1>4, <1>9
    <3> QED BY <3>1 DEF SegmentLower, Lower, i
  <2>2. docs[j + 1] = values[j + 1]
    BY <1>4, <1>9
  <2> QED BY <2>1, <2>2 DEF SegmentLeast, SegmentGreatest, i, j
<1>12. Codeword = ReadTruncated(bits, size, position, RangeOf(values, i, j)) /\ Codeword.ok
  BY <1>1, <1>11 DEF Codeword, RangeOf, bits, size, MedianFits
<1>13. PICK t : t = Truncated(Codeword.offset, RangeOf(values, i, j))
  OBVIOUS
<1>14. /\ Codeword.offset \in 0 .. RangeOf(values, i, j) - 1
       /\ Coded(bits, position, t)
       /\ Codeword.next = position + Len(t)
       /\ Codeword.next <= size
  BY <1>2, <1>7, <1>12, <1>13, RankIsWritten
<1>15. RankOf(values, i, j) = Codeword.offset
  <2>1. PICK l \in Int, o \in Nat : l = Least(i, j, Lower(values, i)) /\ o = Codeword.offset
    BY <1>7, <1>14
  <2>2. values[m] = l + o
    BY <1>9, <1>11, <2>1
  <2>3. RankOf(values, i, j) = values[m] - l
    BY <2>1 DEF RankOf
  <2> QED BY <2>1, <2>2, <2>3
<1>16. t \in Seq({0, 1}) /\ Len(t) \in Nat
  BY <1>7, <1>13, <1>14, TruncatedIs
<1>17. PICK a \in Nat, b \in Nat : a = m - 1 /\ b = m + 1
                                   /\ a \in 0 .. count - 1 /\ b \in 1 .. count
  <2>1. m \in i .. j
    BY <1>7
  <2>2. m - 1 \in 0 .. count - 1 /\ m + 1 \in 1 .. count /\ m - 1 \in Nat /\ m + 1 \in Nat
    <3> HIDE DEF m
    <3>1. i \in 1 .. count /\ j \in 0 .. count - 1 /\ count \in Nat
      BY <1>3, <1>6
    <3> QED BY ONLY <2>1, <3>1
  <2> QED BY <2>2
<1>18. /\ CodeOf(values)[<<i, a>>] \in Seq({0, 1}) /\ Len(CodeOf(values)[<<i, a>>]) \in Nat
       /\ CodeOf(values)[<<b, j>>] \in Seq({0, 1}) /\ Len(CodeOf(values)[<<b, j>>]) \in Nat
       /\ i > a => CodeOf(values)[<<i, a>>] = <<>>
       /\ b > j => CodeOf(values)[<<b, j>>] = <<>>
  <2>1. /\ CodeOf(values)[<<i, a>>] \in Seq({0, 1}) /\ CodeOf(values)[<<b, j>>] \in Seq({0, 1})
        /\ i > a => CodeOf(values)[<<i, a>>] = <<>>
        /\ b > j => CodeOf(values)[<<b, j>>] = <<>>
    BY <1>5, <1>6, <1>17, CodeIs
  <2> QED BY <2>1, SeqElements
<1>19. AreRanges(Unread(i, a)) /\ AreRanges(Unread(b, j)) /\ AreRanges(tail)
       /\ AreRanges(Unread(b, j) \o tail)
  <2>1. Unread(b, j) \in Seq(Nat \X Nat) /\ Unread(i, a) \in Seq(Nat \X Nat)
    BY <1>4, <1>17, UnreadIs
  <2>2. Unread(b, j) \o tail \in Seq(Nat \X Nat)
    <3> DEFINE R == Nat \X Nat
    <3>1. Unread(b, j) \in Seq(R) /\ tail \in Seq(R)
      BY <1>4, <2>1
    <3> HIDE DEF R
    <3>2. Unread(b, j) \o tail \in Seq(R)
      BY ONLY <3>1, Concatenated
    <3> QED BY <3>2 DEF R
  <2> QED BY <1>4, <2>1, <2>2 DEF AreRanges
<1>20. ranges = Unread(i, a) \o (Unread(b, j) \o tail)
  <2>1. ranges = (Unread(i, a) \o Unread(b, j)) \o tail
    BY <1>17
  <2>2. Unread(i, a) \o (Unread(b, j) \o tail) = (Unread(i, a) \o Unread(b, j)) \o tail
    <3>1. AreRanges(Unread(i, a)) /\ AreRanges(Unread(b, j)) /\ AreRanges(tail)
      BY <1>19
    <3> QED BY ONLY <3>1, RangesAssociate
  <2> QED BY ONLY <2>1, <2>2
<1>21. PICK p \in Nat : p = Codeword.next /\ p = position + Len(t)
  BY <1>14, <1>16
<1>22. PICK l \in Nat : FollowsAt(l, Unread(b, j) \o tail, values, bits, p, size, i, a)
  <2>1. Follow(Unread(i, a) \o (Unread(b, j) \o tail), values, bits, p, size)
    BY <1>5, <1>20, <1>21
  <2>2. i <= a => Len(CodeOf(values)[<<i, a>>]) \in Nat
    BY <1>18
  <2>3. i \in Nat /\ a \in Nat /\ size \in Nat /\ p \in Nat
    BY <1>2, <1>4
  <2>4. Unread(b, j) \o tail \in Seq(Nat \X Nat)
    BY <1>19 DEF AreRanges
  <2> QED BY ONLY <2>1, <2>2, <2>3, <2>4, FollowLess
<1>23. PICK r \in Nat : FollowsAt(r, tail, values, bits, p + l, size, b, j)
  <2>1. Follow(Unread(b, j) \o tail, values, bits, p + l, size)
    BY <1>22 DEF FollowsAt
  <2>2. b <= j => Len(CodeOf(values)[<<b, j>>]) \in Nat
    BY <1>18
  <2>3. b \in Nat /\ j \in Nat /\ size \in Nat /\ p + l \in Nat
    BY <1>2, <1>4
  <2>4. tail \in Seq(Nat \X Nat)
    BY <1>4
  <2> QED BY ONLY <2>1, <2>2, <2>3, <2>4, FollowLess
<1>24. Follow(tail, values, bits, (p + l) + r, size)
  BY <1>23 DEF FollowsAt
<1>25. (p + l) + r <= size
  BY <1>4, <1>24, FollowWithin
<1>26. /\ l = Len(CodeOf(values)[<<i, a>>]) /\ Coded(bits, p, CodeOf(values)[<<i, a>>])
       /\ r = Len(CodeOf(values)[<<b, j>>]) /\ Coded(bits, p + l, CodeOf(values)[<<b, j>>])
  <2>0. p <= Len(bits) /\ p + l <= Len(bits)
    <3>1. PICK end \in Nat : end = Len(bits) /\ size <= end
      BY <1>2
    <3> QED BY ONLY <1>25, <3>1, p \in Nat, l \in Nat, r \in Nat, <1>2
  <2>3. Coded(bits, p, <<>>) /\ Coded(bits, p + l, <<>>) /\ Len(<<>>) = 0
    BY <2>0, EmptyIsCoded
  <2>1. CASE i <= a
    <3>1. l = Len(CodeOf(values)[<<i, a>>]) /\ Coded(bits, p, CodeOf(values)[<<i, a>>])
      BY <1>22, <2>1 DEF FollowsAt
    <3>2. CASE b <= j
      BY <1>23, <3>1, <3>2 DEF FollowsAt
    <3>3. CASE b > j
      <4>1. r = 0
        BY <1>23, <3>3 DEF FollowsAt
      <4> QED BY <1>18, <2>3, <3>1, <3>3, <4>1
    <3> QED BY <1>4, <1>17, <3>2, <3>3
  <2>2. CASE i > a
    <3>1. l = 0
      BY <1>22, <2>2 DEF FollowsAt
    <3>2. CodeOf(values)[<<i, a>>] = <<>> /\ p + 0 = p
      BY <1>18, <2>2
    <3>3. l = Len(CodeOf(values)[<<i, a>>]) /\ Coded(bits, p, CodeOf(values)[<<i, a>>])
      BY <2>3, <3>1, <3>2
    <3>4. CASE b <= j
      BY <1>23, <3>3, <3>4 DEF FollowsAt
    <3>5. CASE b > j
      <4>1. r = 0
        BY <1>23, <3>5 DEF FollowsAt
      <4> QED BY <1>18, <2>3, <3>3, <3>5, <4>1
    <3> QED BY <1>4, <1>17, <3>4, <3>5
  <2> QED BY <1>4, <1>17, <2>1, <2>2
<1> DEFINE q == p + l
<1>27. RangeStands(values, i, j, bits, position, p, q)
  <2>1. t = Truncated(RankOf(values, i, j), RangeOf(values, i, j))
    BY <1>13, <1>15
  <2>2. /\ p + l = p + Len(CodeOf(values)[<<i, Middle(i, j) - 1>>])
        /\ p = position + Len(t) /\ Coded(bits, p, CodeOf(values)[<<i, Middle(i, j) - 1>>])
        /\ Coded(bits, p + l, CodeOf(values)[<<Middle(i, j) + 1, j>>])
    BY <1>17, <1>21, <1>26
  <2>3. /\ values \in Seq(U32) /\ Increasing(values) /\ i \in 1 .. Len(values)
        /\ j \in 0 .. Len(values) - 1 /\ i <= j /\ Len(bits) \in Nat /\ position \in Nat
    BY <1>2, <1>4, <1>5, <1>6
  <2>4. Coded(bits, position, t)
    BY <1>14
  <2> QED BY ONLY <2>1, <2>2, <2>3, <2>4 DEF RangeStands
<1>28. PICK n \in Nat : n = Len(code) /\ position + n = (p + l) + r
                        /\ Coded(bits, position, code)
  <2>1. Len(code) \in Nat
    <3>1. code \in Seq({0, 1})
      BY <1>5, <1>6, CodeIs
    <3> QED BY <3>1, SeqElements
  <2>2. /\ Coded(bits, position, code)
        /\ position + Len(code) = q + Len(CodeOf(values)[<<Middle(i, j) + 1, j>>])
    <3>1. RangeIsThere(values, i, j, bits, position, q)
      <4> HIDE DEF q
      <4> QED BY ONLY <1>27, RangeIsWritten
    <3> QED BY ONLY <3>1 DEF RangeIsThere
  <2>3. r = Len(CodeOf(values)[<<Middle(i, j) + 1, j>>])
    BY <1>17, <1>26
  <2> QED BY ONLY <2>1, <2>2, <2>3
<1>29. Follow(Unread(i, j) \o tail, values, bits, position, size)
  <2>1. Follow(tail, values, bits, position + n, size)
    BY <1>24, <1>28
  <2>2. i <= j => n = Len(CodeOf(values)[<<i, j>>]) /\ Coded(bits, position, CodeOf(values)[<<i, j>>])
    BY <1>28
  <2>3. (i > j => n = 0) /\ i \in Nat /\ j \in Nat /\ n \in Nat /\ size \in Nat /\ position \in Nat
        /\ tail \in Seq(Nat \X Nat)
    BY <1>2, <1>4
  <2> QED BY ONLY <2>1, <2>2, <2>3, FollowMore
<1>30. Unread(i, j) \o tail = segments
  <2>1. Unread(i, j) = << <<i, j>> >>
    BY <1>4 DEF Unread
  <2> DEFINE R == Nat \X Nat
  <2>2. PICK range \in R : range = <<i, j>>
    BY <1>4
  <2>3. segments \in Seq(R) /\ segments /= <<>> /\ segments[1] = range
    BY <1>1, <1>4, <2>2
  <2> HIDE DEF R
  <2>4. <<range>> \o Tail(segments) = segments
    BY ONLY <2>3
  <2> QED BY <2>1, <2>2, <2>4 DEF tail
<1> QED BY <1>10, <1>29, <1>30 DEF RestFollows, bits, size

\* Bits that follow from the last value and the ranges are those that the encoder writes.
LEMMA RangesAreCanonical ==
  ASSUME NEW block \in DocBlocks("Interpolative"), NEW values \in Seq(U32), Increasing(values),
         Len(values) /= 0, InterpolativeOpens(block, Len(values)),
         values[Len(values)] = block.last,
         Follow(Unread(1, Len(values) - 1), values, block.bits, 0, block.size)
  PROVE  block = EncodeInterpolative(values)
<1>1. PICK n \in Nat \ {0} : n = Len(values)
  BY SeqElements
<1>2. PICK x, size \in Nat, bits \in Seq({0, 1}) : block = [last |-> x, size |-> size, bits |-> bits]
  BY DEF DocBlocks
<1>3. block.last = x /\ block.size = size /\ block.bits = bits
  BY <1>2
<1>4. PICK code \in Seq({0, 1}) : code = CodeOf(values)[<<1, n - 1>>] /\ (1 > n - 1 => code = <<>>)
  <2>1. 1 \in 1 .. n /\ n - 1 \in 0 .. n - 1
    OBVIOUS
  <2> QED BY <1>1, <2>1, CodeIs
<1>5. Len(code) = size /\ Coded(bits, 0, code)
  <2>1. PICK j \in Nat : j = n - 1
    OBVIOUS
  <2>2. Follow(Unread(1, j), values, bits, 0, size)
    BY <1>1, <1>3, <2>1
  <2>3. CASE 1 <= j
    <3>1. PICK range \in Nat \X Nat : range = <<1, j>>
      OBVIOUS
    <3>2. Unread(1, j) = <<range>>
      BY <2>3, <3>1 DEF Unread
    <3>3. /\ <<range>> \in Seq(Nat \X Nat) /\ <<range>> /= <<>> /\ <<range>>[1] = range
          /\ Tail(<<range>>) = <<>>
      OBVIOUS
    <3>4. Len(CodeOf(values)[<<range>>[1]]) \in Nat /\ CodeOf(values)[<<range>>[1]] = code
      BY <1>4, <2>1, <3>1, SeqElements
    <3>5. /\ Coded(bits, 0, CodeOf(values)[<<range>>[1]])
          /\ Follow(Tail(<<range>>), values, bits, 0 + Len(CodeOf(values)[<<range>>[1]]), size)
      <4>1. Follow(<<range>>, values, bits, 0, size) /\ 0 \in Nat /\ size \in Nat
        BY <2>2, <3>2
      <4>2. <<range>> \in Seq(Nat \X Nat) /\ <<range>> /= <<>>
        BY <3>3
      <4> QED BY ONLY <3>4, <4>1, <4>2, FollowFirst
    <3>6. Follow(<<>>, values, bits, Len(code), size)
      <4>1. PICK l \in Nat : l = Len(code)
        BY <3>4
      <4>2. 0 + l = l
        OBVIOUS
      <4> QED BY ONLY <3>3, <3>4, <3>5, <4>1, <4>2
    <3>7. Len(code) = size
      <4>1. Len(<<>>) = 0 /\ Len(<<>>) \in Nat
        OBVIOUS
      <4> QED BY ONLY <3>6, <4>1, FollowFrom
    <3> QED BY ONLY <3>4, <3>5, <3>7
  <2>4. CASE 1 > j
    <3>1. Unread(1, j) = <<>> /\ code = <<>> /\ Len(<<>>) = 0
      BY <1>4, <2>1, <2>4 DEF Unread
    <3>2. 0 = size
      <4>1. Follow(<<>>, values, bits, 0, size)
        BY <2>2, <3>1
      <4>2. Len(<<>>) = 0 /\ Len(<<>>) \in Nat
        OBVIOUS
      <4> QED BY ONLY <4>1, <4>2, FollowFrom
    <3>3. 0 <= Len(bits)
      OBVIOUS
    <3> QED BY <3>1, <3>2, <3>3, EmptyIsCoded
  <2> QED BY <2>3, <2>4
<1>6. PICK bytesOf \in Nat : bytesOf = WholeBytes(size) /\ size <= bytesOf
  BY WholeBytesIs
<1>7. Len(bits) = bytesOf /\ \A k \in size + 1 .. bytesOf : bits[k] = 0
  BY <1>3, <1>6 DEF InterpolativeOpens
<1>8. PICK theirs \in Seq({0, 1}) :
        /\ EncodeInterpolative(values) = [last |-> x, size |-> size, bits |-> theirs]
        /\ Coded(theirs, 0, code)
        /\ Len(theirs) = bytesOf /\ \A k \in size + 1 .. bytesOf : theirs[k] = 0
  <2> DEFINE whole == EncodeInterpolative(values)
  <2>1. /\ InterpolativeOpens(whole, n)
        /\ whole.last = x /\ whole.size = Len(code)
        /\ Coded(whole.bits, 0, code)
        /\ whole.bits \in Seq({0, 1})
        /\ whole = [last |-> whole.last, size |-> whole.size, bits |-> whole.bits]
    BY <1>1, <1>3, <1>4, InterpolativeOpensBack
  <2> HIDE DEF whole
  <2>2. Len(whole.bits) = bytesOf /\ \A k \in size + 1 .. bytesOf : whole.bits[k] = 0
    BY <1>5, <1>6, <2>1 DEF InterpolativeOpens
  <2> QED BY <1>5, <2>1, <2>2 DEF whole
<1>9. \A k \in 1 .. bytesOf : bits[k] = theirs[k]
  <2> TAKE k \in 1 .. bytesOf
  <2>1. CASE k <= size
    <3>1. k \in 1 .. Len(code) /\ 0 + k = k
      BY <1>5, <2>1
    <3> QED BY <1>5, <1>8, <3>1 DEF Coded
  <2>2. CASE k > size
    <3>1. k \in size + 1 .. bytesOf
      BY <2>2
    <3> QED BY <1>7, <1>8, <3>1
  <2> QED BY <2>1, <2>2
<1>10. bits = theirs
  BY <1>7, <1>8, <1>9
<1> QED BY <1>2, <1>8, <1>10

-----------------------------------------------------------------------------
\* What is accepted of the bitmap is what the encoder writes.

WidthIn(block, n) == Width(block.last, n)
BitmapIn(block, n) == WholeBytes(LowBits(block.last, n))
HighIn(block, n, value, k) == value \div Pow2[WidthIn(block, n)] + k - 1

\* The values found so far are those of the bits that are read.
LowsAreRead(block, n, values) ==
  \A k \in 1 .. Len(values) : \A d \in 0 .. WidthIn(block, n) - 1 :
    block.bits[(k - 1) * WidthIn(block, n) + d + 1] = 1 <=> (values[k] \div Pow2[d]) % 2 = 1

HighsAreRead(block, n, values, at) ==
  /\ \A k \in 1 .. Len(values) : HighIn(block, n, values[k], k) \in 0 .. at - 1
  /\ \A p \in 0 .. at - 1 :
       block.bits[BitmapIn(block, n) + p + 1] = 1
         <=> \E k \in 1 .. Len(values) : p = HighIn(block, n, values[k], k)

BitsAreRead(block, n, values, at) ==
  /\ at \in Nat /\ at <= HighBits(block.last, n) /\ Len(values) <= at
  /\ LowsAreRead(block, n, values)
  /\ HighsAreRead(block, n, values, at)

LEMMA BlockParts ==
  ASSUME NEW block, NEW n \in Nat, block.last \in Nat, EliasOpens(block, n)
  PROVE  /\ n \in Nat \ {0}
         /\ WidthIn(block, n) \in Nat
         /\ Pow2[WidthIn(block, n)] \in Nat \ {0}
         /\ HighBits(block.last, n) \in Nat
         /\ LowBits(block.last, n) = n * WidthIn(block, n)
         /\ LowBits(block.last, n) \in Nat
         /\ BitmapIn(block, n) \in Nat
         /\ LowBits(block.last, n) <= BitmapIn(block, n)
<1>1. ShapeFits(block.last, n)
  BY DEF EliasOpens
<1>2. n \in Nat \ {0}
  BY <1>1 DEF ShapeFits
<1>3. PICK w \in Nat : w = WidthIn(block, n) /\ w = Width(block.last, n)
  BY <1>1, WidthIs DEF WidthIn
<1>4. PICK c \in Nat \ {0} : c = Pow2[w]
  BY PowersGrow
<1>5. HighBits(block.last, n) \in Nat
  <2>1. PICK q \in Nat : q = block.last \div c
    BY Division
  <2>2. HighBits(block.last, n) = q + n + 1
    BY <1>3, <1>4, <2>1 DEF HighBits
  <2> QED BY <2>2
<1>6. LowBits(block.last, n) = n * w /\ n * w \in Nat
  BY <1>3 DEF LowBits
<1>7. BitmapIn(block, n) \in Nat /\ LowBits(block.last, n) <= BitmapIn(block, n)
  BY <1>6, WholeBytesIs DEF BitmapIn
<1> QED BY <1>2, <1>3, <1>4, <1>5, <1>6, <1>7

\* A value after o others has its high bit at p, and its low bits where they are read.
ValueStands(block, n, v, o, p) ==
  /\ v \in Nat
  /\ HighIn(block, n, v, o + 1) = p
  /\ \A d \in 0 .. WidthIn(block, n) - 1 :
       block.bits[o * WidthIn(block, n) + d + 1] = 1 <=> (v \div Pow2[d]) % 2 = 1

\* The value whose high bit is the next one set.
LEMMA ValueIsWritten ==
  ASSUME NEW block, NEW n \in Nat, block.last \in Nat, EliasOpens(block, n),
         NEW values \in Seq(Nat), NEW at, BitsAreRead(block, n, values, at),
         NEW p \in Nat, at <= p
  PROVE  ValueStands(block, n, EliasValue(block, n, Len(values), p), Len(values), p)
<1>1. PICK w \in Nat : w = WidthIn(block, n)
  BY BlockParts
<1>2. PICK o \in Nat : o = Len(values) /\ o <= at /\ at \in Nat
  BY DEF BitsAreRead
<1>3. PICK q \in Nat : q = p - o
  BY <1>2
<1> DEFINE ones == {d \in 0 .. w - 1 : block.bits[o * w + d + 1] = 1}
<1>4. /\ \A d \in ones : d \in Nat /\ d < w
      /\ \A d \in 0 .. w - 1 : d \in ones <=> block.bits[o * w + d + 1] = 1
  OBVIOUS
<1>5. EliasValue(block, n, o, p) = (p - o) * Pow2[w] + SumFunction(Weights(ones))
  BY <1>1 DEF EliasValue, WidthIn, Weights
<1> HIDE DEF ones
<1>6. PICK r \in Nat : r = SumFunction(Weights(ones)) /\ r < Pow2[w] /\ BitsBelow(ones, r, w)
  BY <1>4, BitsMakeNumber
<1>7. PICK v : v = EliasValue(block, n, o, p) /\ v = q * Pow2[w] + r
  BY <1>3, <1>5, <1>6
<1>8. v \div Pow2[w] = q /\ v \in Nat
  BY ONLY <1>6, <1>7, w \in Nat, q \in Nat, r \in Nat, BitsAbove
<1>9. HighIn(block, n, v, o + 1) = p
  <2>1. HighIn(block, n, v, o + 1) = q + (o + 1) - 1
    BY <1>1, <1>8 DEF HighIn
  <2>2. q + (o + 1) - 1 = p
    BY ONLY <1>3, o \in Nat, p \in Nat, q \in Nat
  <2> QED BY <2>1, <2>2
<1>10. ASSUME NEW d \in 0 .. w - 1
       PROVE  block.bits[o * w + d + 1] = 1 <=> (v \div Pow2[d]) % 2 = 1
  <2>1. d \in Nat /\ d < w
    OBVIOUS
  <2>2. d \in ones <=> (r \div Pow2[d]) % 2 = 1
    BY <1>6, <2>1 DEF BitsBelow
  <2>3. (v \div Pow2[d]) % 2 = (r \div Pow2[d]) % 2
    BY ONLY <1>7, w \in Nat, q \in Nat, r \in Nat, d \in 0 .. w - 1, HigherBits
  <2> QED BY <1>4, <2>2, <2>3
<1>11. ValueStands(block, n, v, o, p)
  BY ONLY <1>1, <1>8, <1>9, <1>10 DEF ValueStands
<1> QED BY ONLY <1>2, <1>7, <1>11

\* The next set bit, and the values that end with the one it gives.
LEMMA NextIsWritten ==
  ASSUME NEW block, NEW n \in Nat, block.last \in Nat, EliasOpens(block, n),
         NEW values \in Seq(Nat), NEW at, BitsAreRead(block, n, values, at),
         HighSet(block, n, at) /= {}, NEW p, p = Min(HighSet(block, n, at)),
         NEW v, v = EliasValue(block, n, Len(values), p)
  PROVE  v \in Nat /\ p \in Nat /\ BitsAreRead(block, n, Append(values, v), p + 1)
<1>1. PICK w \in Nat, top \in Nat, start \in Nat :
        w = WidthIn(block, n) /\ top = HighBits(block.last, n) /\ start = BitmapIn(block, n)
  BY BlockParts
<1>2. PICK o \in Nat : o = Len(values) /\ o <= at /\ at \in Nat /\ at <= top
  BY <1>1 DEF BitsAreRead
<1> DEFINE S == HighSet(block, n, at)
<1>3. \A x : x \in S <=> x \in at .. top - 1 /\ block.bits[start + x + 1] = 1
  BY <1>1 DEF HighSet, BitmapIn
<1>4. p \in S /\ \A x \in S : p <= x
  <2>1. IsFiniteSet(S) /\ S \in SUBSET Int
    <3>1. IsFiniteSet(at .. top - 1)
      BY <1>1, <1>2, FS_Interval
    <3>2. S \in SUBSET (at .. top - 1)
      BY <1>3
    <3> HIDE DEF S
    <3>3. IsFiniteSet(S)
      BY <3>1, <3>2, FS_Subset
    <3> QED BY <1>2, <3>2, <3>3
  <2> HIDE DEF S
  <2>2. S /= {} /\ p = Min(S)
    BY DEF S
  <2> QED BY <2>1, <2>2, MinOfFinite
<1> HIDE DEF S
<1>5. p \in Nat /\ at <= p /\ p < top /\ block.bits[start + p + 1] = 1
  <2>1. p \in at .. top - 1 /\ block.bits[start + p + 1] = 1
    BY <1>3, <1>4
  <2> QED BY ONLY <1>2, <2>1, top \in Nat
<1>6. \A x \in at .. p - 1 : block.bits[start + x + 1] /= 1
  <2> TAKE x \in at .. p - 1
  <2>1. x \in at .. top - 1 /\ ~(p <= x)
    BY ONLY <1>2, <1>5, x \in at .. p - 1, top \in Nat
  <2> QED BY <1>3, <1>4, <2>1
<1>7. /\ v \in Nat
      /\ HighIn(block, n, v, o + 1) = p
      /\ \A d \in 0 .. w - 1 :
           block.bits[o * w + d + 1] = 1 <=> (v \div Pow2[d]) % 2 = 1
  <2>1. ValueStands(block, n, EliasValue(block, n, Len(values), p), Len(values), p)
    BY <1>5, ValueIsWritten
  <2> QED BY ONLY <1>1, <1>2, <2>1, v = EliasValue(block, n, Len(values), p) DEF ValueStands
<1> DEFINE more == Append(values, v)
<1>8. /\ Len(more) = o + 1 /\ more[o + 1] = v
      /\ \A k \in 1 .. o : more[k] = values[k]
  BY <1>2, <1>7
<1> HIDE DEF more
<1>9. LowsAreRead(block, n, more)
  <2>1. ASSUME NEW k \in 1 .. Len(more), NEW d \in 0 .. w - 1
        PROVE  block.bits[(k - 1) * w + d + 1] = 1 <=> (more[k] \div Pow2[d]) % 2 = 1
    <3>1. CASE k <= o
      <4>1. k \in 1 .. o
        BY <1>8, <3>1
      <4>2. block.bits[(k - 1) * w + d + 1] = 1 <=> (values[k] \div Pow2[d]) % 2 = 1
        BY <1>1, <1>2, <4>1 DEF BitsAreRead, LowsAreRead
      <4> QED BY <1>8, <4>1, <4>2
    <3>2. CASE k > o
      <4>1. k = o + 1 /\ k - 1 = o
        BY <1>8, <3>2
      <4> QED BY <1>7, <1>8, <4>1
    <3> QED BY <1>8, <3>1, <3>2
  <2> QED BY <1>1, <2>1 DEF LowsAreRead
<1>10. /\ \A k \in 1 .. o : HighIn(block, n, more[k], k) \in 0 .. at - 1
       /\ HighIn(block, n, more[o + 1], o + 1) = p
       /\ \A x \in 0 .. at - 1 :
            block.bits[start + x + 1] = 1 <=> \E k \in 1 .. o : x = HighIn(block, n, more[k], k)
  <2>1. /\ \A k \in 1 .. o : HighIn(block, n, values[k], k) \in 0 .. at - 1
        /\ \A x \in 0 .. at - 1 :
             block.bits[start + x + 1] = 1 <=> \E k \in 1 .. o : x = HighIn(block, n, values[k], k)
    BY ONLY <1>1, <1>2, BitsAreRead(block, n, values, at) DEF BitsAreRead, HighsAreRead
  <2>2. \A k \in 1 .. o : HighIn(block, n, more[k], k) = HighIn(block, n, values[k], k)
    BY ONLY <1>8
  <2>3. HighIn(block, n, more[o + 1], o + 1) = p
    BY ONLY <1>7, <1>8
  <2> QED BY ONLY <2>1, <2>2, <2>3
<1>11. \A k \in 1 .. Len(more) : HighIn(block, n, more[k], k) \in 0 .. (p + 1) - 1
  <2> TAKE k \in 1 .. Len(more)
  <2>1. CASE k \in 1 .. o
    <3>1. HighIn(block, n, more[k], k) \in 0 .. at - 1
      BY <1>10, <2>1
    <3> QED BY ONLY <1>2, <1>5, <3>1
  <2>2. CASE k = o + 1
    BY <1>5, <1>10, <2>2
  <2> QED BY <1>8, <2>1, <2>2
<1>12. ASSUME NEW x \in 0 .. (p + 1) - 1
       PROVE  block.bits[start + x + 1] = 1
                <=> \E k \in 1 .. Len(more) : x = HighIn(block, n, more[k], k)
  <2>1. CASE x < at
    <3>1. x \in 0 .. at - 1 /\ x /= p
      BY ONLY <1>2, <1>5, <2>1, x \in 0 .. (p + 1) - 1
    <3>2. \A k \in 1 .. Len(more) : k \in 1 .. o \/ k = o + 1
      BY <1>8
    <3>3. \A k \in 1 .. o : k \in 1 .. Len(more)
      BY <1>8
    <3> QED BY ONLY <1>10, <3>1, <3>2, <3>3
  <2>2. CASE x \in at .. p - 1
    <3>1. block.bits[start + x + 1] /= 1
      BY <1>6, <2>2
    <3>2. ASSUME NEW k \in 1 .. Len(more) PROVE x /= HighIn(block, n, more[k], k)
      <4>1. CASE k \in 1 .. o
        <5>1. HighIn(block, n, more[k], k) \in 0 .. at - 1
          BY <1>10, <4>1
        <5> QED BY ONLY <1>2, <2>2, <5>1, <1>5
      <4>2. CASE k = o + 1
        <5>1. x /= p
          BY ONLY <1>2, <1>5, <2>2
        <5> QED BY <1>10, <4>2, <5>1
      <4> QED BY <1>8, <4>1, <4>2
    <3> QED BY <3>1, <3>2
  <2>3. CASE x = p
    <3>1. o + 1 \in 1 .. Len(more)
      BY <1>8
    <3> QED BY <1>5, <1>10, <2>3, <3>1
  <2>4. x < at \/ x \in at .. p - 1 \/ x = p
    BY ONLY <1>2, <1>5, x \in 0 .. (p + 1) - 1
  <2> QED BY <2>1, <2>2, <2>3, <2>4
<1>13. HighsAreRead(block, n, more, p + 1)
  BY <1>1, <1>11, <1>12 DEF HighsAreRead
<1>14. p + 1 \in Nat /\ p + 1 <= top /\ Len(more) <= p + 1
  BY ONLY <1>2, <1>5, <1>8, top \in Nat, o \in Nat
<1> QED BY <1>1, <1>5, <1>7, <1>9, <1>13, <1>14 DEF BitsAreRead, more

LEMMA NothingIsRead ==
  ASSUME NEW block, NEW n \in Nat, block.last \in Nat, EliasOpens(block, n)
  PROVE  BitsAreRead(block, n, <<>>, 0)
<1>1. HighBits(block.last, n) \in Nat
  BY BlockParts
<1>2. Len(<<>>) = 0
  OBVIOUS
<1>3. 1 .. 0 = {} /\ 0 .. 0 - 1 = {}
  OBVIOUS
<1> QED BY <1>1, <1>2, <1>3 DEF BitsAreRead, LowsAreRead, HighsAreRead

\* Low bits of a block that are read make the bits that the encoder writes.
LEMMA LowsAreCanonical ==
  ASSUME NEW block, NEW values, SourceIds(values), EliasOpens(block, Len(values)),
         block.last = values[Len(values)], LowsAreRead(block, Len(values), values),
         NEW p \in Nat, p < Len(values) * WidthOf(values)
  PROVE  block.bits[p + 1] = 1 <=> LowSet(values, p)
<1>1. PICK n \in Nat \ {0} : n = Len(values)
  BY EliasParts
<1>2. PICK w \in Nat : w = WidthOf(values) /\ w = WidthIn(block, n)
  BY <1>1, EliasParts DEF WidthOf, WidthIn
<1>3. PICK most \in Nat : most = n * w /\ p < most
  <2>1. n * w \in Nat
    OBVIOUS
  <2> QED BY <1>1, <1>2, <2>1
<1>4. w /= 0
  <2>1. SUFFICES ASSUME w = 0 PROVE FALSE
    OBVIOUS
  <2>2. n * w = 0
    BY <2>1
  <2> QED BY <1>3, <2>2
<1>5. PICK q \in Nat, d \in 0 .. w - 1 : q = p \div w /\ d = p % w /\ p = q * w + d
  <2>1. w \in Nat \ {0}
    BY <1>4
  <2>2. p % w \in 0 .. w - 1 /\ p \div w \in Nat /\ p = (p \div w) * w + (p % w)
    BY ONLY Division, p \in Nat, <2>1
  <2> QED BY <2>2
<1>6. q < n
  <2>1. q * w + d < n * w + d
    <3>1. q * w + d < most /\ most + d = n * w + d /\ d \in Nat
      BY <1>3, <1>5
    <3> QED BY ONLY <1>5, <3>1, p \in Nat, most \in Nat
  <2>2. w \in Nat \ {0} /\ n \in Nat
    BY <1>4
  <2> QED BY ONLY <2>1, <2>2, q \in Nat, d \in 0 .. w - 1, DivisionIsUnique
<1>7. q + 1 \in 1 .. n /\ (q + 1) - 1 = q
  BY <1>6
<1>8. block.bits[q * w + d + 1] = 1 <=> (values[q + 1] \div Pow2[d]) % 2 = 1
  <2>1. \A k \in 1 .. n : \A e \in 0 .. w - 1 :
          block.bits[(k - 1) * w + e + 1] = 1 <=> (values[k] \div Pow2[e]) % 2 = 1
    BY <1>1, <1>2 DEF LowsAreRead
  <2> QED BY ONLY <1>7, <2>1, d \in 0 .. w - 1
<1>9. LowSet(values, p) <=> (values[q + 1] \div Pow2[d]) % 2 = 1
  <2>1. p < Len(values) * WidthOf(values)
    OBVIOUS
  <2> QED BY ONLY <1>2, <1>5, <2>1 DEF LowSet
<1> QED BY <1>5, <1>8, <1>9

\* Bits that are all read are those that the encoder writes.
LEMMA BitmapIsCanonical ==
  ASSUME NEW block \in DocBlocks("EliasFano"), NEW values, SourceIds(values),
         EliasOpens(block, Len(values)), block.last = values[Len(values)],
         NEW at, BitsAreRead(block, Len(values), values, at),
         HighSet(block, Len(values), at) = {}
  PROVE  block = EncodeElias(values)
<1>1. PICK n \in Nat \ {0} : n = Len(values)
  BY EliasParts
<1>2. PICK last \in Nat : last = values[n] /\ last = block.last
  <2>1. n \in 1 .. n
    OBVIOUS
  <2> QED BY <1>1, <2>1, EliasParts
<1>3. PICK bits \in Seq({0, 1}) : block = [last |-> last, bits |-> bits]
  BY <1>2 DEF DocBlocks
<1>4. block.bits = bits
  BY <1>3
<1>5. PICK top \in Nat, start \in Nat, low \in Nat :
        /\ top = HighBits(last, n)
        /\ start = BitmapIn(block, n) /\ start = HighStart(values)
        /\ low = LowBits(last, n) /\ low = n * WidthOf(values) /\ low <= start
  <2>1. HighStart(values) = BitmapIn(block, n)
    BY <1>1, <1>2 DEF HighStart, BitmapIn
  <2>2. HighBits(last, n) \in Nat
    BY <1>1, <1>2, BlockParts
  <2> QED BY <1>1, <1>2, <2>1, <2>2, EliasParts
<1>6. PICK size \in Nat : size = EliasSize(last, n) /\ Len(bits) = size
  BY <1>1, <1>2, <1>4, EliasBits DEF EliasOpens
<1>7. \A k \in 1 .. n : HighIn(block, n, values[k], k) = HighAt(values, k)
  BY <1>1, <1>2 DEF HighIn, HighAt, WidthIn, WidthOf
<1>8. /\ LowsAreRead(block, n, values)
      /\ at \in Nat /\ at <= top
      /\ \A k \in 1 .. n : HighAt(values, k) \in 0 .. at - 1
      /\ \A x \in 0 .. at - 1 : bits[start + x + 1] = 1 <=> \E k \in 1 .. n : x = HighAt(values, k)
  BY <1>1, <1>2, <1>4, <1>5, <1>7 DEF BitsAreRead, HighsAreRead
<1>9. \A k \in 1 .. size :
        k \in low + 1 .. start \/ k > start + top => bits[k] = 0
  <2>1. DOMAIN bits = 1 .. size
    BY <1>6, SeqElements
  <2>2. PaddingIsZero(block, n)
    BY <1>1 DEF EliasOpens
  <2>3. WholeBytes(LowBits(block.last, n)) = start
    BY <1>5 DEF BitmapIn
  <2> QED BY ONLY <1>2, <1>4, <1>5, <2>1, <2>2, <2>3 DEF PaddingIsZero
<1> DEFINE theirs == [i \in 1 .. size |-> EliasBit(values, i)]
<1>10. EncodeElias(values) = [last |-> last, bits |-> theirs]
  BY <1>1, <1>2, <1>6 DEF EncodeElias, EliasBit, LowSet, HighIs, HighStart, WidthOf
<1>11. ASSUME NEW i \in 1 .. size PROVE bits[i] = EliasBit(values, i)
  <2>1. bits[i] \in {0, 1} /\ EliasBit(values, i) \in {0, 1}
    <3>1. i \in DOMAIN bits
      BY <1>6, SeqElements
    <3>2. EliasBit(values, i) \in {0, 1}
      BY DEF EliasBit
    <3> QED BY <3>1, <3>2, SeqElements
  <2>2. CASE i <= start
    <3>1. PICK p \in Nat : i = p + 1 /\ i - 1 = p
      <4>1. i - 1 \in Nat /\ i = (i - 1) + 1
        OBVIOUS
      <4> QED BY <4>1
    <3>2. EliasBit(values, i) = 1 <=> LowSet(values, p)
      BY <1>5, <2>2, <3>1 DEF EliasBit
    <3>3. CASE p < low
      <4>1. bits[p + 1] = 1 <=> LowSet(values, p)
        BY <1>1, <1>2, <1>4, <1>5, <1>8, <3>3, LowsAreCanonical
      <4> QED BY <2>1, <3>1, <3>2, <4>1
    <3>4. CASE ~(p < low)
      <4>1. ~LowSet(values, p)
        BY <1>1, <1>5, <3>4 DEF LowSet
      <4>2. i \in low + 1 .. start
        BY <2>2, <3>1, <3>4
      <4> QED BY <1>9, <2>1, <3>2, <4>1, <4>2
    <3> QED BY <3>3, <3>4
  <2>3. CASE i > start
    <3>1. PICK x \in Nat : i = start + x + 1
      <4>1. i - start - 1 \in Nat /\ i = start + (i - start - 1) + 1
        BY <2>3
      <4> QED BY <4>1
    <3>2. EliasBit(values, i) = 1 <=> \E k \in 1 .. n : x = HighAt(values, k)
      <4>1. HighStart(values) + x + 1 \in 1 .. EliasSize(values[Len(values)], Len(values))
        BY <1>1, <1>2, <1>5, <1>6, <3>1
      <4>2. EncodeElias(values).bits[HighStart(values) + x + 1] = 1
              <=> \E k \in 1 .. Len(values) : x = HighAt(values, k)
        BY <4>1, HighBitIs
      <4>3. EncodeElias(values).bits[i] = EliasBit(values, i)
        BY <1>1, <1>2, <1>6, EliasBits
      <4> QED BY <1>1, <1>5, <3>1, <4>2, <4>3
    <3>3. CASE x < at
      <4>1. x \in 0 .. at - 1
        BY ONLY <1>8, <3>3, x \in Nat
      <4> QED BY <1>8, <2>1, <3>1, <3>2, <4>1
    <3>4. CASE ~(x < at)
      <4>1. EliasBit(values, i) /= 1
        <5>1. \A k \in 1 .. n : x /= HighAt(values, k)
          <6> TAKE k \in 1 .. n
          <6>1. HighAt(values, k) \in 0 .. at - 1
            BY <1>8
          <6> QED BY ONLY <1>8, <3>4, <6>1, x \in Nat
        <5> QED BY <3>2, <5>1
      <4>2. bits[i] /= 1
        <5>1. CASE x < top
          <6>1. x \in at .. top - 1
            BY ONLY <1>8, <3>4, <5>1, x \in Nat, top \in Nat
          <6>2. x \notin HighSet(block, n, at)
            BY <1>1
          <6> QED BY <1>2, <1>4, <1>5, <3>1, <6>1, <6>2 DEF HighSet, BitmapIn
        <5>2. CASE ~(x < top)
          <6>1. i > start + top
            BY <3>1, <5>2
          <6> QED BY <1>9, <6>1
        <5> QED BY <5>1, <5>2
      <4> QED BY <2>1, <4>1, <4>2
    <3> QED BY <3>3, <3>4
  <2> QED BY <2>2, <2>3
<1>12. bits = theirs
  BY <1>6, <1>11
<1> QED BY <1>3, <1>10, <1>12

-----------------------------------------------------------------------------
\* What holds while a decoder reads the document IDs of a block, whoever wrote it.

CanonInv ==
  original = <<>> =>
    /\ docBlock \in DocBlocks(codec)
    /\ reading = "open" => position = 0
    /\ reading = "docs" /\ codec = "EliasFano" =>
         /\ EliasOpens(docBlock, count)
         /\ BitsAreRead(docBlock, count, docs, position)
         /\ Len(docs) = count =>
              docs[count] = docBlock.last /\ HighSet(docBlock, count, position) = {}
    /\ reading = "docs" /\ codec = "Interpolative" =>
         /\ InterpolativeOpens(docBlock, count)
         /\ position \in Nat
         /\ IdsSoFar
    /\ reading \in {"frequency", "position", "done"} /\ codec /= "VarByte" =>
         docBlock = EncodeDocs(codec, docs)

LEMMA StartIsCanonical ==
  ASSUME DecoderInit
  PROVE  CanonInv
<1>1. SUFFICES ASSUME original = <<>> PROVE docBlock \in DocBlocks(codec)
  BY DEF DecoderInit, CanonInv
<1>2. CASE \E c \in Codecs, list \in StoredLists :
             Encodable(c, list) /\ Holds(EncodeBlock(c, list), list)
  <2>1. PICK c \in Codecs, list \in StoredLists : Holds(EncodeBlock(c, list), list)
    BY <1>2
  <2>2. list = <<>> /\ list /= <<>>
    BY <1>1, <2>1, BlocksAssumption DEF Holds
  <2> QED BY <2>2
<1>3. CASE \E c \in Codecs : \E b \in ForeignBlocks(c) : Holds(b, <<>>)
  <2>0. PICK c \in Codecs : \E b \in ForeignBlocks(c) : Holds(b, <<>>)
    BY <1>3
  <2>1. PICK b \in ForeignBlocks(c) : Holds(b, <<>>)
    BY <2>0
  <2>2. b.codec = c /\ b.docs \in DocBlocks(c)
    BY BlocksAssumption
  <2> QED BY <2>1, <2>2 DEF Holds
<1> QED BY <1>2, <1>3 DEF DecoderInit

LEMMA OpenIsCanonical ==
  ASSUME BlockInv, CanonInv, original = <<>>, Open
  PROVE  CanonInv'
<1>1. /\ reading = "open" /\ DocBlockOpens
      /\ reading' = IF codec = "VarByte" THEN "gap" ELSE "docs"
      /\ UNCHANGED <<stored, position, cursor, frequency, positions, decoded>>
      /\ codec = "Interpolative" => /\ docs' = [i \in {count} |-> docBlock.last]
                                    /\ segments' = Unread(1, count - 1)
      /\ codec /= "Interpolative" => docs' = docs
  BY DEF Open
<1>2. /\ docBlock' = docBlock /\ codec' = codec /\ count' = count /\ original' = original
      /\ position' = 0
      /\ docBlock \in DocBlocks(codec)
      /\ count \in Nat /\ docBlock.last \in Nat /\ codec \in Codecs
      /\ docs = <<>>
  BY <1>1, MaxValueIs DEF stored, CanonInv, BlockInv, BlockTypes, DocsInv
<1>3. CASE codec = "VarByte"
  BY <1>1, <1>2, <1>3 DEF CanonInv
<1>4. CASE codec = "EliasFano"
  <2>1. EliasOpens(docBlock, count)
    BY <1>1, <1>4 DEF DocBlockOpens
  <2>2. BitsAreRead(docBlock, count, <<>>, 0)
    BY <1>2, <2>1, NothingIsRead
  <2>3. docs' = <<>> /\ Len(<<>>) /= count
    <3>1. count /= 0
      BY <2>1 DEF EliasOpens, ShapeFits
    <3> QED BY <1>1, <1>2, <1>4, <3>1
  <2> QED BY <1>1, <1>2, <1>4, <2>1, <2>2, <2>3 DEF CanonInv
<1>5. CASE codec = "Interpolative"
  <2>1. InterpolativeOpens(docBlock, count)
    BY <1>1, <1>5 DEF DocBlockOpens
  <2>2. IdsSoFar'
    <3>1. count' \in DOMAIN docs' /\ docs'[count'] = docBlock'.last
      BY <1>1, <1>2, <1>5
    <3>2. ASSUME NEW values \in Seq(U32), RestFollows(values)' PROVE AllFollow(values)'
      BY <1>1, <1>2, <1>5, <3>2 DEF RestFollows, AllFollow
    <3> QED BY <3>1, <3>2 DEF IdsSoFar
  <2> QED BY <1>1, <1>2, <1>5, <2>1, <2>2 DEF CanonInv
<1> QED BY <1>2, <1>3, <1>4, <1>5 DEF Codecs

LEMMA DecodeEliasIsCanonical ==
  ASSUME BlockInv, CanonInv, original = <<>>, DecodeElias
  PROVE  CanonInv'
<1>1. /\ reading = "docs" /\ codec = "EliasFano" /\ Len(docs) < count /\ EliasFits
      /\ docs' = Append(docs, NextElias)
      /\ position' = NextHigh + 1
      /\ docBlock' = docBlock /\ codec' = codec /\ count' = count /\ original' = original
      /\ reading' = reading
  BY DEF DecodeElias, stored
<1>2. /\ docBlock \in DocBlocks(codec) /\ EliasOpens(docBlock, count)
      /\ BitsAreRead(docBlock, count, docs, position)
  BY <1>1 DEF CanonInv
<1>3. /\ count \in Nat /\ docBlock.last \in Nat /\ docs \in Seq(U32)
  BY <1>1, MaxValueIs DEF BlockInv, BlockTypes, DocsInv
<1>4. docs \in Seq(Nat)
  <2>1. docs \in [1 .. Len(docs) -> U32]
    BY <1>3
  <2>2. \A k \in 1 .. Len(docs) : docs[k] \in Nat
    BY <2>1, MaxValueIs DEF U32
  <2>3. docs \in [1 .. Len(docs) -> Nat]
    BY <2>1, <2>2
  <2> QED BY <1>3, <2>3
<1>5. HighSet(docBlock, count, position) /= {}
  BY <1>1 DEF EliasFits
<1>6. PICK p, v : p = NextHigh /\ v = NextElias
  OBVIOUS
<1>7. p = Min(HighSet(docBlock, count, position)) /\ v = EliasValue(docBlock, count, Len(docs), p)
  BY <1>6 DEF NextHigh, NextElias
<1>8. v \in Nat /\ BitsAreRead(docBlock, count, Append(docs, v), p + 1)
  BY ONLY <1>2, <1>3, <1>4, <1>5, <1>7, NextIsWritten
<1>9. BitsAreRead(docBlock', count', docs', position')
  BY <1>1, <1>6, <1>8
<1>10. Len(docs') = count => docs'[count] = docBlock.last /\ HighSet(docBlock, count, position') = {}
  <2>1. SUFFICES ASSUME Len(docs') = count
                 PROVE  docs'[count] = docBlock.last /\ HighSet(docBlock, count, position') = {}
    OBVIOUS
  <2>2. docs' = Append(docs, v) /\ position' = p + 1
    BY <1>1, <1>6
  <2>3. Len(docs') = Len(docs) + 1 /\ docs'[Len(docs) + 1] = v
    BY <1>4, <1>8, <2>2
  <2>4. v = docBlock.last /\ HighSet(docBlock, count, p + 1) = {}
    BY <1>1, <1>6, <2>1, <2>3 DEF EliasFits, EliasAccepts
  <2> QED BY <2>1, <2>2, <2>3, <2>4
<1> QED BY <1>1, <1>2, <1>9, <1>10 DEF CanonInv

\* A median is new, and its codeword ends at a position.
LEMMA MedianIsNew ==
  ASSUME BlockInv, docBlock \in DocBlocks("Interpolative"), InterpolativeOpens(docBlock, count),
         position \in Nat, DecodeMedian
  PROVE  /\ Middle(Head(segments)[1], Head(segments)[2]) \notin DOMAIN docs
         /\ Codeword.next \in Nat
<1> DEFINE i == Head(segments)[1]
           j == Head(segments)[2]
<1>1. /\ reading = "docs" /\ codec = "Interpolative" /\ segments /= <<>> /\ MedianFits
  BY DEF DecodeMedian
<1>2. Tiled /\ DocsAre
  BY <1>1 DEF BlockInv, DocsInv
<1>3. /\ i \in Nat /\ j \in Nat /\ i <= j
      /\ i = 1 \/ i - 1 \in DOMAIN docs
      /\ j + 1 \in DOMAIN docs
      /\ \A k \in i .. j : k \notin DOMAIN docs
  <2>1. segments \in Seq(Nat \X Nat)
    BY <1>2 DEF Tiled
  <2>2. 1 \in DOMAIN segments /\ Head(segments) = segments[1] /\ segments[1] \in Nat \X Nat
    BY <1>1, <2>1
  <2> QED BY <1>2, <2>2 DEF Tiled, Within
<1>4. /\ docs[j + 1] \in Int
      /\ SegmentLower \in Int
  <2>1. \A k \in DOMAIN docs : docs[k] \in Int
    BY <1>2, MaxValueIs DEF DocsAre, U32
  <2> QED BY <1>3, <2>1 DEF SegmentLower
<1>5. SegmentLeast \in Int /\ SegmentGreatest \in Int /\ Middle(i, j) \in i .. j
  <2>1. Middle(i, j) \in i .. j
    BY <1>3, MiddleIs
  <2>2. PICK m \in Nat : m = Middle(i, j)
    BY <1>3, <2>1
  <2>3. SegmentLeast = (SegmentLower + (m - i)) + 1 /\ SegmentGreatest = (docs[j + 1] - (j - m)) - 1
    BY <2>2 DEF SegmentLeast, SegmentGreatest, Least, Greatest
  <2> HIDE DEF i, j
  <2> QED BY <1>3, <1>4, <2>1, <2>2, <2>3
<1>6. PICK range \in Nat \ {0} : range = SegmentGreatest - SegmentLeast + 1
  <2>1. SegmentLeast <= SegmentGreatest
    BY <1>1 DEF MedianFits
  <2>2. PICK a \in Int, b \in Int : a = SegmentLeast /\ b = SegmentGreatest /\ a <= b
    BY <1>5, <2>1
  <2>3. b - a + 1 \in Nat \ {0}
    BY ONLY <2>2
  <2> QED BY <2>2, <2>3
<1>7. PICK bits \in Seq({0, 1}), size \in Nat :
        bits = docBlock.bits /\ size = docBlock.size /\ size <= Len(bits) /\ Len(bits) \in Nat
  <2>1. docBlock \in [last : 0 .. MaxValue, size : Nat, bits : Seq({0, 1})]
    BY DEF DocBlocks
  <2>2. PICK bits \in Seq({0, 1}), size \in Nat : bits = docBlock.bits /\ size = docBlock.size
    BY <2>1
  <2>3. Len(bits) = WholeBytes(size)
    BY <2>2 DEF InterpolativeOpens
  <2> QED BY <2>2, <2>3, WholeBytesIs
<1>8. Codeword = ReadTruncated(bits, size, position, range) /\ Codeword.ok
  BY <1>1, <1>6, <1>7 DEF Codeword, MedianFits
<1>9. /\ Codeword.offset \in 0 .. range - 1
      /\ Codeword.next = position + Len(Truncated(Codeword.offset, range))
  <2>1. \A k \in 1 .. Len(bits) : bits[k] \in {0, 1}
    BY <1>7, SeqElements
  <2>2. /\ position \in Nat /\ Len(bits) \in Nat /\ size <= Len(bits)
        /\ ReadTruncated(bits, size, position, range).ok
    BY <1>7, <1>8
  <2>3. /\ ReadTruncated(bits, size, position, range).offset \in 0 .. range - 1
        /\ ReadTruncated(bits, size, position, range).next
             = position + Len(Truncated(ReadTruncated(bits, size, position, range).offset, range))
    BY ONLY <2>1, <2>2, size \in Nat, range \in Nat \ {0}, RankIsWritten
  <2> QED BY <1>8, <2>3
<1>10. Len(Truncated(Codeword.offset, range)) \in Nat
  <2>1. Truncated(Codeword.offset, range) \in Seq({0, 1})
    BY <1>9, TruncatedIs
  <2> QED BY <2>1, SeqElements
<1> QED BY <1>3, <1>5, <1>9, <1>10

LEMMA DecodeMedianIsCanonical ==
  ASSUME BlockInv, CanonInv, original = <<>>, DecodeMedian
  PROVE  CanonInv'
<1> DEFINE m == Middle(Head(segments)[1], Head(segments)[2])
<1>1. /\ reading = "docs" /\ codec = "Interpolative"
      /\ docs' = [k \in DOMAIN docs \union {m} |->
                    IF k = m THEN SegmentLeast + Codeword.offset ELSE docs[k]]
      /\ position' = Codeword.next
      /\ docBlock' = docBlock /\ codec' = codec /\ count' = count /\ original' = original
      /\ reading' = reading
  BY DEF DecodeMedian, stored
<1>2. /\ docBlock \in DocBlocks("Interpolative") /\ InterpolativeOpens(docBlock, count)
      /\ position \in Nat /\ IdsSoFar
  BY <1>1 DEF CanonInv
<1>3. m \notin DOMAIN docs /\ Codeword.next \in Nat
  BY <1>2, MedianIsNew
<1> HIDE DEF m
<1>4. count' \in DOMAIN docs' /\ docs'[count'] = docBlock'.last
  BY <1>1, <1>2, <1>3 DEF IdsSoFar
<1>5. ASSUME NEW values \in Seq(U32), Completes(values)', RestFollows(values)'
      PROVE  AllFollow(values)'
  <2>1. Completes(values) /\ RestFollows(values)
    BY <1>2, <1>5, MedianIsWritten
  <2>2. AllFollow(values)
    BY <1>2, <2>1 DEF IdsSoFar
  <2> QED BY <1>1, <2>2 DEF AllFollow
<1>6. IdsSoFar'
  BY <1>4, <1>5 DEF IdsSoFar
<1> QED BY <1>1, <1>2, <1>3, <1>6 DEF CanonInv

LEMMA FinishDocsIsCanonical ==
  ASSUME BlockInv, CanonInv, original = <<>>, FinishDocs
  PROVE  CanonInv'
<1>1. /\ reading = "docs" /\ DocsComplete /\ BitsUsedUp /\ reading' = "frequency"
      /\ docs' = docs /\ docBlock' = docBlock /\ codec' = codec /\ count' = count
      /\ original' = original
  BY DEF FinishDocs, stored
<1>2. /\ codec /= "VarByte" /\ codec \in Codecs /\ DocsAre /\ count \in Nat
      /\ ShapeFits(docBlock.last, count) /\ docBlock \in DocBlocks(codec)
  BY <1>1 DEF BlockInv, BlockTypes, DocsInv, CanonInv
<1>3. DOMAIN docs = 1 .. count
  <2>1. BlockInv'
    BY FinishDocsKeepsInv
  <2> QED BY <1>1, <1>2, <2>1 DEF BlockInv, DocsInv
<1>4. docs \in Seq(U32) /\ Len(docs) = count /\ Increasing(docs) /\ count /= 0
  <2>1. docs \in [1 .. count -> U32]
    BY <1>2, <1>3 DEF DocsAre
  <2> QED BY <1>2, <2>1, FunctionIsSeq DEF DocsAre, ShapeFits
<1>5. CASE codec = "EliasFano"
  <2>1. /\ EliasOpens(docBlock, count) /\ BitsAreRead(docBlock, count, docs, position)
        /\ docs[count] = docBlock.last /\ HighSet(docBlock, count, position) = {}
    BY <1>1, <1>4, <1>5 DEF CanonInv
  <2>2. SourceIds(docs)
    BY <1>4 DEF SourceIds
  <2>3. docBlock = EncodeElias(docs)
    <3>1. docBlock \in DocBlocks("EliasFano")
      BY <1>2, <1>5
    <3> QED BY <1>4, <2>1, <2>2, <3>1, BitmapIsCanonical
  <2> QED BY <1>1, <1>2, <1>5, <2>3 DEF CanonInv, EncodeDocs
<1>6. CASE codec = "Interpolative"
  <2>1. /\ InterpolativeOpens(docBlock, count) /\ position \in Nat /\ IdsSoFar
        /\ segments = <<>> /\ position = docBlock.size
    BY <1>1, <1>6 DEF CanonInv, DocsComplete, BitsUsedUp
  <2>2. Completes(docs)
    BY <1>4 DEF Completes
  <2>3. RestFollows(docs)
    <3>1. PICK at : at = [k \in 1 .. Len(<<>>) + 1 |-> position]
      OBVIOUS
    <3>2. Len(<<>>) = 0 /\ 1 .. Len(<<>>) = {} /\ 1 \in 1 .. Len(<<>>) + 1
      OBVIOUS
    <3>3. at \in [1 .. Len(<<>>) + 1 -> Nat] /\ \A k \in 1 .. Len(<<>>) + 1 : at[k] = position
      BY <2>1, <3>1
    <3>4. \A k \in 1 .. Len(<<>>) + 1 : at[k] <= docBlock.size
      BY <2>1, <3>3
    <3>5. at[1] = position /\ at[Len(<<>>) + 1] = docBlock.size
      BY <2>1, <3>2, <3>3
    <3>6. Follow(<<>>, docs, docBlock.bits, position, docBlock.size)
      BY <3>2, <3>3, <3>4, <3>5 DEF Follow
    <3> QED BY <2>1, <3>6 DEF RestFollows
  <2>4. AllFollow(docs)
    BY <1>4, <2>1, <2>2, <2>3 DEF IdsSoFar
  <2>5. docBlock = EncodeInterpolative(docs)
    <3>1. docBlock \in DocBlocks("Interpolative") /\ docs[Len(docs)] = docBlock.last
      BY <1>2, <1>4, <1>6, <2>1 DEF IdsSoFar
    <3>2. Follow(Unread(1, Len(docs) - 1), docs, docBlock.bits, 0, docBlock.size)
      BY <1>4, <2>4 DEF AllFollow
    <3> QED BY <1>4, <2>1, <3>1, <3>2, RangesAreCanonical
  <2> QED BY <1>1, <1>2, <1>6, <2>5 DEF CanonInv, EncodeDocs
<1> QED BY <1>2, <1>5, <1>6 DEF Codecs

LEMMA BlockStepIsCanonical ==
  ASSUME BlockInv, CanonInv, [DecoderNext]_decoderVars
  PROVE  CanonInv'
<1>1. original' = original /\ codec' = codec /\ docBlock' = docBlock /\ count' = count
  <2>1. CASE UNCHANGED decoderVars
    BY <2>1 DEF decoderVars, stored
  <2>2. CASE DecoderNext
    BY <2>2, Zenon DEF DecoderNext, Open, DecodeElias, DecodeMedian, FinishDocs, ReadGap,
                ReadFrequency, ReadPosition, PushPosting, Accept, RefuseBlock, stored
  <2> QED BY <2>1, <2>2
<1>2. SUFFICES ASSUME original = <<>> PROVE CanonInv'
  BY <1>1 DEF CanonInv
<1>3. CASE Open
  BY <1>2, <1>3, OpenIsCanonical
<1>4. CASE DecodeElias
  BY <1>2, <1>4, DecodeEliasIsCanonical
<1>5. CASE DecodeMedian
  BY <1>2, <1>5, DecodeMedianIsCanonical
<1>6. CASE FinishDocs
  BY <1>2, <1>6, FinishDocsIsCanonical
<1>7. docBlock \in DocBlocks(codec)
  BY <1>2 DEF CanonInv
<1>8. CASE ReadGap
  <2>1. codec = "VarByte" /\ reading' = "frequency"
    BY <1>8 DEF ReadGap, BlockInv, DocsInv
  <2> QED BY <1>1, <1>7, <2>1 DEF CanonInv
<1>9. CASE ReadFrequency \/ ReadPosition
  <2>1. reading \in {"frequency", "position"} /\ reading' = "position" /\ docs' = docs
    BY <1>9 DEF ReadFrequency, ReadPosition
  <2> QED BY <1>1, <1>2, <1>7, <2>1 DEF CanonInv
<1>10. CASE PushPosting
  <2>1. /\ reading = "position" /\ docs' = docs
        /\ reading' = IF codec = "VarByte" THEN "gap" ELSE "frequency"
    BY <1>10 DEF PushPosting
  <2> QED BY <1>1, <1>2, <1>7, <2>1 DEF CanonInv
<1>11. CASE Accept
  <2>1. reading \in {"gap", "frequency"} /\ reading' = "done" /\ docs' = docs
    BY <1>11 DEF Accept, AllRead
  <2>2. reading = "gap" => codec = "VarByte"
    BY DEF BlockInv, DocsInv
  <2> QED BY <1>1, <1>2, <1>7, <2>1, <2>2 DEF CanonInv
<1>12. CASE RefuseBlock
  BY <1>1, <1>7, <1>12 DEF RefuseBlock, CanonInv
<1>13. CASE UNCHANGED decoderVars
  BY <1>13 DEF decoderVars, stored, CanonInv, IdsSoFar, Completes, RestFollows, AllFollow
<1> QED BY <1>3, <1>4, <1>5, <1>6, <1>8, <1>9, <1>10, <1>11, <1>12, <1>13 DEF DecoderNext

LEMMA AcceptedIsCanonical ==
  ASSUME BlockInv, TripInv, CanonInv
  PROVE  Canonical
<1>1. SUFFICES ASSUME reading = "done", codec /= "VarByte"
               PROVE  docBlock = EncodeDocs(codec, docs)
  BY DEF Canonical
<1>2. CASE original = <<>>
  BY <1>1, <1>2 DEF CanonInv
<1>3. CASE original /= <<>>
  <2>1. FromSource /\ DocsReadBack
    BY <1>3 DEF TripInv
  <2>2. /\ Source(codec, original) /\ count = Len(original)
        /\ docBlock = EncodeDocs(codec, IdsOf(original))
    BY <2>1 DEF FromSource
  <2>3. /\ IdsOf(original) \in Seq(U32) /\ Len(IdsOf(original)) = count /\ count \in Nat
        /\ \A k \in 1 .. count : IdsOf(original)[k] = original[k].doc
    BY <2>2, SourceIdsAre
  <2>4. DOMAIN docs = 1 .. count /\ docs \in [DOMAIN docs -> U32]
    BY <1>1 DEF BlockInv, DocsInv, DocsAre
  <2>5. \A k \in 1 .. count : docs[k] = IdsOf(original)[k]
    BY <2>1, <2>3, <2>4 DEF DocsReadBack
  <2>6. docs = IdsOf(original)
    <3>1. docs \in Seq(U32) /\ Len(docs) = count
      BY <2>3, <2>4, FunctionIsSeq
    <3> QED BY ONLY <2>3, <2>5, <3>1
  <2> QED BY <2>2, <2>6
<1> QED BY <1>2, <1>3

\* Whoever wrote a block, the document IDs that a decoder of the two later formats accepts are
\* encoded by that block and by no other: the padding, the interval of each median and its
\* short or long codeword, and the order of the values are all checked (interpolative.rs and
\* elias_fano.rs).
THEOREM AcceptedBlocksAreCanonical ==
  DecoderSpec => []Canonical
<1>1. DecoderInit => BlockInv /\ TripInv /\ CanonInv
  BY StartIsValid, StartReadsBack, StartIsCanonical
<1>2. BlockInv /\ TripInv /\ CanonInv /\ [DecoderNext]_decoderVars
        => BlockInv' /\ TripInv' /\ CanonInv'
  BY BlockStepKeepsInv, BlockStepReadsBack, BlockStepIsCanonical
<1>3. BlockInv /\ TripInv /\ CanonInv => Canonical
  BY AcceptedIsCanonical
<1> QED BY <1>1, <1>2, <1>3, PTL DEF DecoderSpec
=============================================================================
