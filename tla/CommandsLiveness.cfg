SPECIFICATION FairSpec
CONSTANTS
  Names = {n}
  Vars = {x, y}
  Values = {a, b}
  Commands = {c1}
  Clients = {p}
  MaxQueue = 2
  MaxNesting = 1
  NULL = NULL
  NoValue = NoValue
PROPERTY ChangesAreShown
CHECK_DEADLOCK FALSE
