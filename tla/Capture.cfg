SPECIFICATION FairSpec
CONSTANTS
  Size = 3
  AdSize = 1
  Modes = {0, 1}
INVARIANTS
  TypeOK
  SentIsOneWave
PROPERTIES
  SentIsStable
  CaptureEnds
  TrigRecovers
