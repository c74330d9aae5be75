SPECIFICATION Spec
CONSTANTS
  Names = {n}
  Vars = {x}
  Values = {a, b}
  Commands = {c1, c2}
  Clients = {p}
  MaxQueue = 1
  MaxNesting = 0
  NULL = NULL
  NoValue = NoValue
INVARIANT DestroyedCommandsStayQuiet
CHECK_DEADLOCK FALSE
