CONSTANTS
  Characters <- MCCharacters
  Alphanumeric <- MCAlphanumeric
  Lowercase <- MCLowercase
  Documents <- MCDocuments
  FieldNames <- MCFieldNames
  MaxTokens = 3
  MaxOffered = 2
  EditedLists <- MCEditedLists
  MaxEdits = 3
  Sources <- MCSources
  KeyBefore <- MCKeyBefore
  MaxForwardEdits = 2

SPECIFICATION ForwardSpec

INVARIANT BuilderIsExact
INVARIANT LoadedIsExact
INVARIANT SavedLoadsBack
INVARIANT QueriesFindBounds
INVARIANT InversionIsFaithful

CHECK_DEADLOCK FALSE
