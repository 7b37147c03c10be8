CONSTANTS
  Null = Null
  Gone = Gone
  Default = Default
  Nowhere = Nowhere
  Docs = {d1, d2}
  Wrappers = {w1}
  MaxProps = 6
  MaxSize = 0
  Paths <- OneBranch
  Names <- OneName
  Leaves <- NoArrays
  Orders <- OneOrder
  ClientRules <- Careful
SPECIFICATION Spec
INVARIANTS TypeOK NothingUndefined BackPointersSound Consistent
PROPERTY KeepsPromise
