SPECIFICATION Spec
CONSTANTS
  Sockets = {s1, s2}
  Descriptors = {0, 3}
  MaxBytes = 2
  MaxWaiting = 1
  Timeouts = {0, 1}
  UnsignedRange = 65536
  NULL = NULL
INVARIANTS
  DescriptorsOwned
  StateTrue
  WriteTellsTheTruth
PROPERTIES
  CallsReturn
CHECK_DEADLOCK FALSE
