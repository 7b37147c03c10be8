CONSTANTS
  packed1 = packed1
  packed2 = packed2
  plain1 = plain1
  Null = Null
  Default = Default
  Garbage = Garbage
  Unconvertible = Unconvertible
  EmptyDesc = EmptyDesc
  Arrays = {packed1}
  Values = {v1, v2}
  Descs = {d1, d2}
  Types = {"Trivial", "String", "Element", "Struct", "Reference"}
  MaxSize = 3
  ClientRules <- AllRules
  Kind <- MCKind
SPECIFICATION Spec
INVARIANTS TypeOK ItemsInOnePlace DescriptionFits NothingGoesWrong
PROPERTY KeepsPromise
