SPECIFICATION DecoderSpec
CONSTANTS
  GroupBits = 2
  Groups = 3
  TopBits = 1
  ByteBits = 4
  MaxBitsPerValue = 5
  MaxPositions = 3
  DocIds = {0, 1, 2, 3, 5, 8, 13, 30, 31}
  MaxDocs = 5
  ForeignLasts = {1, 4, 6}
  ForeignBytes = {0, 1, 2, 3, 5, 7}
  ForeignLength = 6
  StoredLists <- MCStoredLists
  ForeignBlocks <- MCForeignBlocks
INVARIANT DecodedIsValid
INVARIANT RoundTrip
INVARIANT Canonical
CHECK_DEADLOCK FALSE
