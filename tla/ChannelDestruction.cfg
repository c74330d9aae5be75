SPECIFICATION Spec
CONSTANTS
  Values = {v1, v2}
  Types = {float, enum}
  Converters = {c1, c2}
  NULL = NULL
  Free = Free
  NoValue = NoValue
  Garbage = Garbage
  Operations = {"connect", "slot", "delete"}
INVARIANT DestructionIsQuiet
CHECK_DEADLOCK FALSE
