SPECIFICATION Spec
CONSTANTS
  v = v
  w = w
  Clients = {c1, c2}
  Channels <- MCChannels
  Requests <- MCRequests
  Timeout = 1
  NULL = NULL
INVARIANTS
  PatientClientsServed
  NoSocketLost
  EarlyAnswersHaveData
  NoRequestOverdue
PROPERTIES
  RequestsAnswered
CHECK_DEADLOCK FALSE
