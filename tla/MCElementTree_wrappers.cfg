CONSTANTS
  Null = Null
  Gone = Gone
  Default = Default
  Nowhere = Nowhere
  Docs = {d1}
  Wrappers = {w1, w2}
  MaxProps = 4
  MaxSize = 1
  Paths <- MCPaths
  Names <- MCNames
  Leaves <- MCLeaves
  Orders <- OneOrder
  ClientRules <- Careful
SPECIFICATION Spec
SYMMETRY WrappersAlike
INVARIANTS HeldLeadsToPath AddedIsAtItsPath WrappersOnPath
PROPERTY KeepsPromise
