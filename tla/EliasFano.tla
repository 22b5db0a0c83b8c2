------------------------------ MODULE EliasFano ------------------------------
(***************************************************************************)
(* elias_fano.rs: the shape, the encoder and the checks of one step of the *)
(* sequential decoder.  A block is the last value and a sequence of bits:  *)
(* the low bits of every value, then a unary bitmap of the high parts,     *)
(* each padded with zeros to whole bytes.                                  *)
(***************************************************************************)
EXTENDS Integers, Sequences, FiniteSetsExt, Functions

CONSTANT ByteBits  \* bits of a byte: 8 in the code

ASSUME ByteAssumption == ByteBits \in Nat \ {0}

\* 1 << n, and floor(log2(n)), for n > 0 (ilog2).
Pow2[n \in Nat] == IF n = 0 THEN 1 ELSE 2 * Pow2[n - 1]
Log2(n) == CHOOSE w \in 0 .. n : Pow2[w] <= n /\ n < Pow2[w + 1]

\* Bits rounded up to whole bytes (div_ceil).
WholeBytes(bits) == ByteBits * ((bits + ByteBits - 1) \div ByteBits)

\* shape: the values fit below the last one, the width of a low part, the bits of
\* both sections.
ShapeFits(last, count) == count > 0 /\ count <= last + 1
Width(last, count) == Log2((last + 1) \div count)
LowBits(last, count) == count * Width(last, count)

\* Mutant of HighBits: no place for the terminating zero.
HighBitsTight(last, count) == last \div Pow2[Width(last, count)] + count - 1

HighBits(last, count) == last \div Pow2[Width(last, count)] + count + 1
EliasSize(last, count) == WholeBytes(LowBits(last, count)) + WholeBytes(HighBits(last, count))

\* encode: bits are numbered from 0.
EncodeElias(values) ==
  LET count == Len(values)
      last == values[count]
      width == Width(last, count)
      highStart == WholeBytes(LowBits(last, count))
      SetLow(p) == p < count * width /\ (values[p \div width + 1] \div Pow2[p % width]) % 2 = 1
      SetHigh(p) == \E i \in 1 .. count : p = highStart + values[i] \div Pow2[width] + i - 1
  IN  [last |-> last,
       bits |-> [i \in 1 .. EliasSize(last, count) |->
                   IF IF i <= highStart THEN SetLow(i - 1) ELSE SetHigh(i - 1) THEN 1 ELSE 0]]

\* Mutant of PaddingIsZero: only the high bitmap is checked.
PaddingIsZeroHigh(block, count) ==
  \A i \in DOMAIN block.bits :
    i > WholeBytes(LowBits(block.last, count)) + HighBits(block.last, count) => block.bits[i] = 0

\* canonical_padding of both sections.
PaddingIsZero(block, count) ==
  LET low == LowBits(block.last, count)
      highStart == WholeBytes(low)
  IN  \A i \in DOMAIN block.bits :
        i \in low + 1 .. highStart \/ i > highStart + HighBits(block.last, count)
          => block.bits[i] = 0

\* Iter::new.
EliasOpens(block, count) ==
  /\ ShapeFits(block.last, count)
  /\ Len(block.bits) = EliasSize(block.last, count)
  /\ PaddingIsZero(block, count)

\* The set bits of the bitmap from position `from` on.
HighSet(block, count, from) ==
  {p \in from .. HighBits(block.last, count) - 1 :
     block.bits[WholeBytes(LowBits(block.last, count)) + p + 1] = 1}

\* read_low and Iter::next: the value of rank `ordinal` whose high bit is at p.
EliasValue(block, count, ordinal, p) ==
  LET width == Width(block.last, count)
      ones == {d \in 0 .. width - 1 : block.bits[ordinal * width + d + 1] = 1}
  IN  (p - ordinal) * Pow2[width] + SumFunction([d \in ones |-> Pow2[d]])

\* Mutant of EliasAccepts: the order of the values is not checked.
EliasAcceptsAnyOrder(block, count, value, before, next) ==
  /\ value <= block.last
  /\ Len(before) + 1 = count => value = block.last /\ HighSet(block, count, next) = {}

\* Iter::next: the checks of a value that follows `before`.
EliasAccepts(block, count, value, before, next) ==
  /\ before /= <<>> => value > before[Len(before)]
  /\ value <= block.last
  /\ Len(before) + 1 = count => value = block.last /\ HighSet(block, count, next) = {}
=============================================================================
