SPECIFICATION Spec
CONSTANTS
  w1 = w1
  Widgets = {w1, w2}
  KindsOf <- MCKindsOf
  Values = {"0", "1", "2", "{"}
  On = {"1", "2"}
  Off = {"0"}
  Booleans = {"0", "1"}
  Typed = {"0", "{"}
  Malformed = {"{"}
  Settings = {"1"}
  NoValue = NoValue
  NotConnected = NotConnected
INVARIANTS
  ReferencesExact
  
  
PROPERTIES
  SettingsLoad
CHECK_DEADLOCK FALSE
