SPECIFICATION Spec
CONSTANTS
  on = on
  off = off
  Blank = Blank
  Types = {"string", "int", "float", "enum"}
  Texts <- MCTexts
  Labelings <- MCLabelings
  StrayLabels <- MCStrays
  YReadings <- MCYReadings
  SampledPVs <- MCSampledPVs
  Kinds = {"none", "strip", "pair"}
  MaxCount = 2
  Base = 2
  LongWords = 2
  Radix = 4
  Digits = 1
  Doubles = {0, 5, 6, 7}
  MaxNumber = 2
  MaxPoints = 3
  MaxData = 2
INVARIANTS
  ReadingsTrue
  ValuesOfThisConnection
  PointsTrue
  KeepsNoMore
  KeepsSampling
CHECK_DEADLOCK FALSE
