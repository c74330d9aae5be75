SPECIFICATION Spec
CONSTANTS
  Values = {v1, v2}
  Types = {float, enum}
  Converters = {c1, c2}
  NULL = NULL
  Free = Free
  NoValue = NoValue
  Garbage = Garbage
  Operations = {"connect", "slot", "get", "size", "values", "put", "putVector", "delete"}
INVARIANTS
  TypeOK
  ConnectionStateCoherent
  NoConverterLeak
  ReadingNotTorn
  ReadingDecoded
  OnlyUnlockedAccessCrashes
PROPERTIES
  PromiseKept
SYMMETRY Symmetry
CHECK_DEADLOCK FALSE
