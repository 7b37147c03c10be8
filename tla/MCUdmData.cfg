CONSTANTS
  EXTENDED_STRING_IDENTIFIER = 2
  MaxKeyLength = 1
  MaxAdded = 2
  Keys <- MCKeys
  Props <- MCProps
  Orders <- MCOrders
  Sorted <- MCSorted
  Unpacked <- MCUnpacked
  TextFlags <- MCTextFlags
  Comments <- MCComments
SPECIFICATION Spec
INVARIANTS LoadRestoresSaved LoadPropertyAgreesWithLoad SkipEndsWithValue TextRestoresSaved  NumberOnlyMakesRoom AnglesRead PackedItemsUnpack CompressKeepsBytes ReferencesResolve
