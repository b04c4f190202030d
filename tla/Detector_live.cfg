\* One channel, fair: calibrations end and cut-off or shallow waves release the output.
CONSTANTS
  c1 = c1
  c2 = c2
  debug_task = debug_task
  io_task = io_task
  Channel <- OneChannel
  Calibrator <- Tasks
  BootTask = debug_task
  PROCESS_RDY = 4
  START_DATA = 1
  AD_MAX_V = 16
  AdValue <- Levels
  STD_V_OFFSET = 4
  WAVE_DOWN = 0
  BootWaveUp = {2}
  ADJ_PERIOD = 2
  ADJ_WINDOW = 1
  Cycle = {1}
  CYCLE_LIMIT = 2
  Saturation = {FALSE}
  MaxTotal = 2
SPECIFICATION FairSpec
PROPERTIES
  CalibrationCompletes
  OutputReleased
