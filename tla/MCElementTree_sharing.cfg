CONSTANTS
  Null = Null
  Gone = Gone
  Default = Default
  Nowhere = Nowhere
  Docs = {d1, d2}
  Wrappers = {w1}
  MaxProps = 4
  MaxSize = 1
  Paths <- Shallow
  Names <- OneName
  Leaves <- MCLeaves
  Orders <- MCOrders
  ClientRules <- Sharing
SPECIFICATION Spec
INVARIANTS NothingUndefined MergeOverlays DeepMergeSharesNothing
