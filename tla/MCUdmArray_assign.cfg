CONSTANTS
  packed1 = packed1
  packed2 = packed2
  plain1 = plain1
  Null = Null
  Default = Default
  Garbage = Garbage
  Unconvertible = Unconvertible
  EmptyDesc = EmptyDesc
  Arrays = {packed1, packed2}
  Values = {v1}
  Descs = {d1}
  Types = {"Trivial", "String"}
  MaxSize = 2
  ClientRules <- AssignsCompressed
  Kind <- MCKind
SPECIFICATION Spec
INVARIANTS DecompressNeverMeetsValues
CHECK_DEADLOCK FALSE
