CONSTANTS
  EXTENDED_STRING_IDENTIFIER = 2
  MaxKeyLength = 1
  MaxAdded = 2
  Keys <- MCKeys
  Props <- MCPropsWithStrings
  Orders <- MCOrders
  Sorted <- MCSorted
  Unpacked <- MCUnpacked
  TextFlags <- NoFlags
  Comments <- NoComments
SPECIFICATION Spec
INVARIANT SkipEndsWithValue
