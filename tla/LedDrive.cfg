SPECIFICATION FairSpec
CONSTANTS
  LedMax = 4
  WordMod = 10
  Low = 2
  High = 3
  Taps = 3
  Blocks = 2
  Idle = 2
INVARIANTS
  TypeOK
  SumOfBuffer
  DrivenAsShown
PROPERTIES
  CalibrationEnds
