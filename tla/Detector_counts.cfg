\* Two channels and a coarse beam: pieces of both in the same interrupt.
CONSTANTS
  c1 = c1
  c2 = c2
  debug_task = debug_task
  io_task = io_task
  Channel <- TwoChannels
  Calibrator <- Tasks
  BootTask = debug_task
  PROCESS_RDY = 3
  START_DATA = 1
  AD_MAX_V = 16
  AdValue <- Coarse
  STD_V_OFFSET = 4
  WAVE_DOWN = 0
  BootWaveUp = {2}
  ADJ_PERIOD = 2
  ADJ_WINDOW = 1
  Cycle = {1}
  CYCLE_LIMIT = 2
  Saturation = {FALSE}
  MaxTotal = 2
VIEW LiveState
SPECIFICATION Spec
INVARIANTS
  CountsCovered
PROPERTIES
  CountsPieces
