---------------------------- MODULE Interpolative ----------------------------
(***************************************************************************)
(* interpolative.rs: the last value is stored, the others are split at     *)
(* their median, each median coded as its rank in the interval its known   *)
(* neighbours leave, in truncated binary.  A block is the last value, the  *)
(* number of bits, and the bits padded with zeros to whole bytes.          *)
(***************************************************************************)
EXTENDS EliasFano

CONSTANT MaxBitsPerValue  \* 32 in the code

\* BitWriter::fixed: most significant bit first.
Fixed(value, width) == [i \in 1 .. width |-> (value \div Pow2[width - i]) % 2]

\* The codewords of a range: short ones below the cutoff.
Cutoff(range) == Pow2[Log2(range) + 1] - range

\* BitWriter::truncated.
Truncated(offset, range) ==
  IF offset < Cutoff(range) THEN Fixed(offset, Log2(range))
                            ELSE Fixed(offset + Cutoff(range), Log2(range) + 1)

\* BitReader::fixed, from the bit after `position`.
Number(bits, position, width) ==
  SumFunction([i \in {i \in 1 .. width : bits[position + i] = 1} |-> Pow2[width - i]])

\* BitReader::truncated: `limit` is the declared number of bits.
ReadTruncated(bits, limit, position, range) ==
  LET width == Log2(range)
      prefix == Number(bits, position, width)
      short == prefix < Cutoff(range)
      size == IF short THEN width ELSE width + 1
      offset == IF short THEN prefix ELSE Number(bits, position, size) - Cutoff(range)
  IN  IF position + width > limit \/ position + size > limit \/ offset >= range
      THEN [ok |-> FALSE]
      ELSE [ok |-> TRUE, offset |-> offset, next |-> position + size]

\* median_interval: the median of the indices i .. j, and the least and the greatest
\* value it can have between the exclusive bounds.
Middle(i, j) == i + (j - i + 1) \div 2

Least(i, j, lower) == lower + (Middle(i, j) - i) + 1
Greatest(i, j, upper) == upper - (j - Middle(i, j)) - 1

\* validate_shape is ShapeFits; the bit budget it returns.
BitBudget(count) == (count - 1) * MaxBitsPerValue

\* encode_segment of the indices i .. j, when `code` is the code of those around the median.
SegmentCode(values, code, i, j) ==
  LET middle == Middle(i, j)
      least == Least(i, j, IF i = 1 THEN -1 ELSE values[i - 1])
  IN  IF i > j
      THEN <<>>
      ELSE Truncated(values[middle] - least, Greatest(i, j, values[j + 1]) - least + 1)
             \o code[<<i, middle - 1>>] \o code[<<middle + 1, j>>]

\* encode: code[<<i, j>>] is that of the indices i .. j.
EncodeInterpolative(values) ==
  LET count == Len(values)
      code[part \in (1 .. count) \X (0 .. count - 1)] ==
        SegmentCode(values, code, part[1], part[2])
      bits == code[<<1, count - 1>>]
  IN  [last |-> values[count],
       size |-> Len(bits),
       bits |-> bits \o [i \in 1 .. WholeBytes(Len(bits)) - Len(bits) |-> 0]]

\* decode: the checks before the first codeword.
InterpolativeOpens(block, count) ==
  /\ ShapeFits(block.last, count)
  /\ block.size <= BitBudget(count)
  /\ Len(block.bits) = WholeBytes(block.size)
  /\ \A i \in block.size + 1 .. Len(block.bits) : block.bits[i] = 0
=============================================================================
