---------------------------- MODULE PostingBlock ----------------------------
(***************************************************************************)
(* codec.rs: a block of postings is encoded by one of three codecs and     *)
(* decoded number by number.  VarByte interleaves document gaps with the   *)
(* frequencies and positions; the other two store the document IDs in a    *)
(* block of their own before them.  What is decoded may be what an encoder *)
(* wrote, or any bytes: the checksum of a file is not authentication.      *)
(***************************************************************************)
EXTENDS Interpolative, SequencesExt

CONSTANTS
  GroupBits,      \* payload bits of a variable byte
  Groups,         \* the most bytes a number takes
  TopBits,        \* payload bits of the last of them
  StoredLists,    \* lists of postings [doc, positions] that are encoded
  ForeignBlocks(_),  \* per codec, blocks [codec, count, docs, bytes] whoever wrote them
  MaxPositions    \* MAX_POSITIONS_PER_POSTING

ASSUME VarByteAssumption ==
  /\ GroupBits \in Nat \ {0}
  /\ Groups \in Nat \ {0}
  /\ TopBits \in 1 .. GroupBits

VARIABLES
  codec,      \* "VarByte", "EliasFano" or "Interpolative"
  original,   \* the postings encoded, or <<>> for a foreign block
  count,      \* the number of postings the dictionary declares
  docBlock,   \* the encoded document IDs, NoDocs for VarByte
  bytes,      \* the variable bytes
  reading,    \* what is read next, or "done", or "refused"
  docs,       \* document IDs decoded: a function on their indices
  segments,   \* Interpolative: index ranges left to decode, the next one first
  position,   \* EliasFano: next_high; Interpolative: BitReader.position
  cursor,     \* bytes read
  frequency,  \* the frequency of the posting being read
  positions,  \* its positions read so far
  decoded     \* complete postings

stored == <<codec, original, count, docBlock, bytes>>
decoderVars == <<stored, reading, docs, segments, position, cursor, frequency, positions, decoded>>

NoDocs == [last |-> 0, bits |-> <<>>]

-----------------------------------------------------------------------------
\* Numbers in base 2^GroupBits, least significant group first, each byte but the last
\* with a continuation bit.  A byte is a number below 2 * Group.  In the code GroupBits is
\* 7, Groups 5 and TopBits 4, which makes MaxValue u32::MAX.
Group == Pow2[GroupBits]
MaxValue == Pow2[GroupBits * (Groups - 1) + TopBits] - 1

\* encode_u32.
EncodeNumber(value) ==
  LET size == Min({n \in 1 .. Groups : value < Pow2[GroupBits * n]})
  IN  [i \in 1 .. size |->
         ((value \div Pow2[GroupBits * (i - 1)]) % Group) + (IF i < size THEN Group ELSE 0)]

\* decode_u32 from the byte after `start`: the number ends with the first byte that has
\* no continuation bit; the last byte it may have holds TopBits bits only.
DecodeNumber(block, start) ==
  LET ends == {n \in 1 .. Groups : start + n <= Len(block) /\ block[start + n] < Group}
      size == Min(ends)
  IN  IF ends = {} \/ (size = Groups /\ block[start + size] >= Pow2[TopBits])
      THEN [ok |-> FALSE]
      ELSE [ok |-> TRUE,
            value |-> SumFunction([i \in 1 .. size |->
                                     (block[start + i] % Group) * Pow2[GroupBits * (i - 1)]]),
            next |-> start + size]

-----------------------------------------------------------------------------
\* Encoders.

IdsOf(list) == [i \in DOMAIN list |-> list[i].doc]

Increasing(values) == \A i, j \in DOMAIN values : i < j => values[i] < values[j]

\* Gaps of an increasing sequence, the first one from -1.
Gaps(values) == [i \in DOMAIN values |-> values[i] - (IF i = 1 THEN -1 ELSE values[i - 1])]

EncodeNumbers(numbers) == FlattenSeq([i \in DOMAIN numbers |-> EncodeNumber(numbers[i])])

\* The numbers of a posting: a gap for VarByte, the frequency, the gaps of positions.
NumbersOf(c, list, i) ==
  (IF c = "VarByte" THEN <<Gaps(IdsOf(list))[i]>> ELSE <<>>)
    \o <<Len(list[i].positions)>> \o Gaps(list[i].positions)

\* IDs increase; a frequency and a gap are positive and fit in a u32.
Encodable(c, list) ==
  /\ Increasing(IdsOf(list))
  /\ \A i \in DOMAIN list :
       /\ Len(list[i].positions) <= MaxPositions
       /\ \A j \in DOMAIN NumbersOf(c, list, i) : NumbersOf(c, list, i)[j] \in 1 .. MaxValue

EncodeDocs(c, values) ==
  CASE c = "VarByte" -> NoDocs
    [] c = "EliasFano" -> EncodeElias(values)
    [] c = "Interpolative" -> EncodeInterpolative(values)

\* encode_postings and encode_monotone_postings.
EncodeBlock(c, list) ==
  [codec |-> c, count |-> Len(list), docs |-> EncodeDocs(c, IdsOf(list)),
   bytes |-> FlattenSeq([i \in DOMAIN list |-> EncodeNumbers(NumbersOf(c, list, i))])]

-----------------------------------------------------------------------------
\* Decoders.

Codecs == {"VarByte", "EliasFano", "Interpolative"}

\* MAX_BITS_PER_VALUE is the width of a u32 at least.
ASSUME BitsAssumption == MaxBitsPerValue \in Nat /\ MaxValue < Pow2[MaxBitsPerValue]

\* What any program may store as the document IDs of a block.
DocBlocks(c) ==
  CASE c = "VarByte" -> {NoDocs}
    [] c = "EliasFano" -> [last : 0 .. MaxValue, bits : Seq({0, 1})]
    [] c = "Interpolative" -> [last : 0 .. MaxValue, size : Nat, bits : Seq({0, 1})]

\* A list of an index has a posting, and its numbers are u32; so are those of a block.
ASSUME BlocksAssumption ==
  /\ \A list \in StoredLists :
       list \in Seq([doc : 0 .. MaxValue, positions : Seq(0 .. MaxValue)]) /\ list /= <<>>
  /\ \A c \in Codecs : \A b \in ForeignBlocks(c) :
       /\ b.codec = c /\ b.count \in Nat /\ b.docs.last \in 0 .. MaxValue /\ b.bytes \in Seq(Nat)
       /\ b.docs \in DocBlocks(c)

Holds(b, list) ==
  /\ original = list
  /\ codec = b.codec
  /\ count = b.count
  /\ docBlock = b.docs
  /\ bytes = b.bytes

DecoderInit ==
  /\ \/ \E c \in Codecs, list \in StoredLists : Encodable(c, list) /\ Holds(EncodeBlock(c, list), list)
     \/ \E c \in Codecs : \E b \in ForeignBlocks(c) : Holds(b, <<>>)
  /\ reading = "open"
  /\ docs = <<>>
  /\ segments = <<>>
  /\ position = 0
  /\ cursor = 0
  /\ frequency = 0
  /\ positions = <<>>
  /\ decoded = <<>>

\* The declared number of postings fits in the bytes that are there.
CountFits == count <= Len(bytes) \div (IF codec = "VarByte" THEN 3 ELSE 2)

DocBlockOpens ==
  CASE codec = "VarByte" -> TRUE
    [] codec = "EliasFano" -> EliasOpens(docBlock, count)
    [] codec = "Interpolative" -> InterpolativeOpens(docBlock, count)

\* The index range i .. j is left to decode, unless it is empty.
Unread(i, j) == IF i <= j THEN << <<i, j>> >> ELSE <<>>

Open ==
  /\ reading = "open"
  /\ CountFits /\ DocBlockOpens
  /\ reading' = IF codec = "VarByte" THEN "gap" ELSE "docs"
  /\ IF codec = "Interpolative"
     THEN /\ docs' = [i \in {count} |-> docBlock.last]
          /\ segments' = Unread(1, count - 1)
     ELSE UNCHANGED <<docs, segments>>
  /\ UNCHANGED <<stored, position, cursor, frequency, positions, decoded>>

\* Iter::next.
NextHigh == Min(HighSet(docBlock, count, position))
NextElias == EliasValue(docBlock, count, Len(docs), NextHigh)

EliasFits ==
  /\ HighSet(docBlock, count, position) /= {}
  /\ EliasAccepts(docBlock, count, NextElias, docs, NextHigh + 1)

DecodeElias ==
  /\ reading = "docs" /\ codec = "EliasFano" /\ Len(docs) < count
  /\ EliasFits
  /\ docs' = Append(docs, NextElias)
  /\ position' = NextHigh + 1
  /\ UNCHANGED <<stored, reading, segments, cursor, frequency, positions, decoded>>

\* decode_segment: one codeword.
SegmentLower == LET i == Head(segments)[1] IN IF i = 1 THEN -1 ELSE docs[i - 1]
SegmentLeast == Least(Head(segments)[1], Head(segments)[2], SegmentLower)
SegmentGreatest ==
  Greatest(Head(segments)[1], Head(segments)[2], docs[Head(segments)[2] + 1])
Codeword ==
  ReadTruncated(docBlock.bits, docBlock.size, position, SegmentGreatest - SegmentLeast + 1)

MedianFits == SegmentLeast <= SegmentGreatest /\ Codeword.ok

DecodeMedian ==
  /\ reading = "docs" /\ codec = "Interpolative" /\ segments /= <<>>
  /\ MedianFits
  /\ LET i == Head(segments)[1]
         j == Head(segments)[2]
         middle == Middle(i, j)
     IN  /\ docs' = [k \in DOMAIN docs \union {middle} |->
                       IF k = middle THEN SegmentLeast + Codeword.offset ELSE docs[k]]
         /\ segments' = Unread(i, middle - 1) \o Unread(middle + 1, j) \o Tail(segments)
  /\ position' = Codeword.next
  /\ UNCHANGED <<stored, reading, cursor, frequency, positions, decoded>>

DocsComplete ==
  IF codec = "EliasFano" THEN Len(docs) = count ELSE segments = <<>>

\* The end of decode: Interpolative has used up its bits.
BitsUsedUp == codec = "Interpolative" => position = docBlock.size

FinishDocs ==
  /\ reading = "docs" /\ DocsComplete /\ BitsUsedUp
  /\ reading' = "frequency"
  /\ UNCHANGED <<stored, docs, segments, position, cursor, frequency, positions, decoded>>

\* decode_u32 at the cursor.
Next32 == DecodeNumber(bytes, cursor)

\* A value from a positive gap that does not overflow.
FromGap(previous, gap) == previous + gap
GapFits(previous) == Next32.ok /\ Next32.value > 0 /\ FromGap(previous, Next32.value) <= MaxValue

PreviousDoc == IF docs = <<>> THEN -1 ELSE docs[Len(docs)]
PreviousPosition == IF positions = <<>> THEN -1 ELSE positions[Len(positions)]

ReadGap ==
  /\ reading = "gap" /\ Len(decoded) < count
  /\ GapFits(PreviousDoc)
  /\ docs' = Append(docs, FromGap(PreviousDoc, Next32.value))
  /\ cursor' = Next32.next
  /\ reading' = "frequency"
  /\ UNCHANGED <<stored, segments, position, frequency, positions, decoded>>

\* A frequency is positive and its positions may be there.
FrequencyFits ==
  /\ Next32.ok
  /\ Next32.value \in 1 .. MaxPositions
  /\ Next32.value <= Len(bytes) - Next32.next

ReadFrequency ==
  /\ reading = "frequency" /\ Len(decoded) < count
  /\ FrequencyFits
  /\ frequency' = Next32.value
  /\ cursor' = Next32.next
  /\ reading' = "position"
  /\ UNCHANGED <<stored, docs, segments, position, positions, decoded>>

ReadPosition ==
  /\ reading = "position" /\ Len(positions) < frequency
  /\ GapFits(PreviousPosition)
  /\ positions' = Append(positions, FromGap(PreviousPosition, Next32.value))
  /\ cursor' = Next32.next
  /\ UNCHANGED <<stored, reading, docs, segments, position, frequency, decoded>>

PushPosting ==
  /\ reading = "position" /\ Len(positions) = frequency
  /\ decoded' = Append(decoded, [doc |-> docs[Len(decoded) + 1], positions |-> positions])
  /\ positions' = <<>>
  /\ frequency' = 0
  /\ reading' = IF codec = "VarByte" THEN "gap" ELSE "frequency"
  /\ UNCHANGED <<stored, docs, segments, position, cursor>>

AllRead == reading \in {"gap", "frequency"} /\ Len(decoded) = count

Accept ==
  /\ AllRead
  /\ cursor = Len(bytes)
  /\ reading' = "done"
  /\ UNCHANGED <<stored, docs, segments, position, cursor, frequency, positions, decoded>>

\* Every check that fails ends the reading.
Fails ==
  \/ reading = "open" /\ ~(CountFits /\ DocBlockOpens)
  \/ reading = "docs" /\ codec = "EliasFano" /\ Len(docs) < count /\ ~EliasFits
  \/ reading = "docs" /\ codec = "Interpolative" /\ segments /= <<>> /\ ~MedianFits
  \/ reading = "docs" /\ DocsComplete /\ ~BitsUsedUp
  \/ reading = "gap" /\ Len(decoded) < count /\ ~GapFits(PreviousDoc)
  \/ reading = "frequency" /\ Len(decoded) < count /\ ~FrequencyFits
  \/ reading = "position" /\ Len(positions) < frequency /\ ~GapFits(PreviousPosition)
  \/ AllRead /\ cursor /= Len(bytes)

RefuseBlock ==
  /\ Fails
  /\ reading' = "refused"
  /\ UNCHANGED <<stored, docs, segments, position, cursor, frequency, positions, decoded>>

DecoderNext ==
  \/ Open \/ DecodeElias \/ DecodeMedian \/ FinishDocs
  \/ ReadGap \/ ReadFrequency \/ ReadPosition \/ PushPosting
  \/ Accept \/ RefuseBlock

DecoderSpec == DecoderInit /\ [][DecoderNext]_decoderVars
-----------------------------------------------------------------------------
\* Whatever the bytes: document IDs decoded so far are increasing u32 values, in
\* whatever order the codec finds them; so are positions, and their number is the
\* frequency; a block is accepted only with as many postings as declared and at its end.
DecodedIsValid ==
  /\ \A i \in DOMAIN docs : docs[i] \in 0 .. MaxValue
  /\ Increasing(docs) /\ Increasing(positions)
  /\ \A i \in DOMAIN decoded :
       /\ decoded[i].positions /= <<>>
       /\ Len(decoded[i].positions) <= MaxPositions
       /\ Increasing(decoded[i].positions)
       /\ \A p \in DOMAIN decoded[i].positions : decoded[i].positions[p] \in 0 .. MaxValue
  /\ reading = "done" => DOMAIN docs = 1 .. count /\ Len(decoded) = count

\* What an encoder wrote is decoded to what it was given, and never refused.
RoundTrip ==
  original /= <<>> => reading /= "refused" /\ (reading = "done" => decoded = original)

\* The sequence of document IDs of the two later formats is canonical: bytes that are
\* accepted are those the encoder writes for the IDs.
Canonical ==
  reading = "done" /\ codec /= "VarByte" => docBlock = EncodeDocs(codec, docs)
=============================================================================
