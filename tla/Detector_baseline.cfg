\* One channel, every level of the beam, one dim, both tasks, cycles of one and three units.
CONSTANTS
  c1 = c1
  c2 = c2
  debug_task = debug_task
  io_task = io_task
  Channel <- OneChannel
  Calibrator <- Tasks
  BootTask = debug_task
  PROCESS_RDY = 6
  START_DATA = 2
  AD_MAX_V = 16
  AdValue <- Levels
  STD_V_OFFSET = 4
  WAVE_DOWN = 1
  BootWaveUp = {0}
  ADJ_PERIOD = 4
  ADJ_WINDOW = 2
  Cycle = {1, 3}
  CYCLE_LIMIT = 3
  Saturation = {TRUE, FALSE}
  MaxTotal = 1
VIEW LiveState
SPECIFICATION Spec
INVARIANTS
  TypeOK
  BaselineComplete
  FaultKept
PROPERTIES
  NoDoubleCount
  ThresholdsReachable
