------------------------------ MODULE MCCodecs ------------------------------
(***************************************************************************)
(* Numbers of five bits in bytes of two, of which a number takes at most   *)
(* three: u32 in its five bytes, made small.  Document IDs are sparse,     *)
(* dense, and at the end of the range.  Foreign blocks are all documents   *)
(* blocks of up to two or three bytes of four bits, and all sequences of   *)
(* variable bytes from a few.                                              *)
(***************************************************************************)
EXTENDS PostingBlock

CONSTANTS
  DocIds,          \* document IDs of the sources
  MaxDocs,         \* bounds the postings of a source
  ForeignLasts,    \* last values of foreign document blocks
  ForeignBytes,    \* variable bytes of foreign blocks
  ForeignLength    \* bounds their number

MCPositions == {<<0>>, <<1, 6>>, <<0, 30>>}
MCOnePosition == <<2>>

Ascending(set) ==
  [i \in 1 .. Cardinality(set) |-> CHOOSE d \in set : Cardinality({e \in set : e < d}) = i - 1]

\* Any documents; only the first and the last may have interesting positions.
MCStoredLists ==
  UNION {LET values == Ascending(set)
         IN  {[i \in DOMAIN values |->
                 [doc |-> values[i],
                  positions |-> IF i = 1 THEN first ELSE IF i = Len(values) THEN final
                                ELSE MCOnePosition]] :
                first \in MCPositions, final \in MCPositions} :
         set \in {s \in SUBSET DocIds : Cardinality(s) \in 1 .. MaxDocs}}

Bits(lengths) == UNION {[1 .. n -> {0, 1}] : n \in lengths}

\* Frequency 1 and position 0 for every posting.
PlainBytes(n) == [i \in 1 .. 2 * n |-> 1]

\* Document blocks of any bits, and numbers of any bytes.
ForeignElias ==
  [codec : {"EliasFano"}, count : 1 .. 3,
   docs : [last : ForeignLasts, bits : Bits({4, 8, 12})], bytes : {PlainBytes(2), PlainBytes(3)}]

ForeignInterpolative ==
  [codec : {"Interpolative"}, count : 1 .. 4,
   docs : [last : ForeignLasts, size : 0 .. 8, bits : Bits({0, 4, 8})],
   bytes : {PlainBytes(3), PlainBytes(4)}]

ForeignNumbers(c, n, documents, length) ==
  [codec : {c}, count : {n}, docs : {documents},
   bytes : UNION {[1 .. k -> ForeignBytes] : k \in 0 .. length}]

MCForeignBlocks(c) ==
  CASE c = "VarByte" -> UNION {ForeignNumbers(c, n, NoDocs, ForeignLength) : n \in 0 .. 2}
    [] c = "EliasFano" -> ForeignElias
    [] c = "Interpolative" ->
         ForeignInterpolative \union ForeignNumbers(c, 1, EncodeInterpolative(<<2>>), 3)
=============================================================================
