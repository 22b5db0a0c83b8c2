CONSTANTS
  Characters <- DottedCharacters
  Alphanumeric <- DottedAlphanumeric
  Lowercase <- DottedLowercase
  Documents <- DottedDocuments
  FieldNames <- DottedFieldNames
  MaxTokens = 3
  MaxOffered = 2
  EditedLists = {}
  MaxEdits = 0
  Sources = {}
  KeyBefore <- DottedKeyBefore
  MaxForwardEdits = 0

SPECIFICATION ForwardSpec

INVARIANT SavedLoadsBack

CHECK_DEADLOCK FALSE
