CONSTANTS
  EXTENDED_STRING_IDENTIFIER = 2
  MaxKeyLength = 1
  MaxAdded = 2
  Keys <- MCKeys
  Props <- MCBackslash
  Orders <- MCOrders
  Sorted <- MCSorted
  Unpacked <- MCUnpacked
  TextFlags <- MCTextFlags
  Comments <- NoComments
SPECIFICATION Spec
INVARIANT WrittenTextLoads
