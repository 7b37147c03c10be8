CONSTANTS
  packed1 = packed1
  packed2 = packed2
  plain1 = plain1
  Null = Null
  Default = Default
  Garbage = Garbage
  Unconvertible = Unconvertible
  EmptyDesc = EmptyDesc
  Arrays = {plain1}
  Values = {v1}
  Descs = {d1}
  Types = {"Struct"}
  MaxSize = 2
  ClientRules <- StoresStructs
  Kind <- MCKind
SPECIFICATION Spec
INVARIANTS NothingUndefined
CHECK_DEADLOCK FALSE
