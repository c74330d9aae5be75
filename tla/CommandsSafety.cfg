SPECIFICATION Spec
CONSTANTS
  Names = {n1, n2}
  Vars = {x, y}
  Values = {a, b}
  Commands = {c1, c2}
  Clients = {p, q}
  MaxQueue = 1
  MaxNesting = 0
  NULL = NULL
  NoValue = NoValue
INVARIANTS
  TypeOK
  RegistryExact
  LinksExact
  OneChannelPerVariable
  SlotIffLinked
  LinkedVariablesFollow
PROPERTIES
  PutsAreWrites
  PromiseKept
SYMMETRY Symmetry
CHECK_DEADLOCK FALSE
