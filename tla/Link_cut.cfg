\* One master, on uart3, and a terminal on uart1 whose arrow keys are used.
CONSTANTS
  Masters = {3}
  Bus = FALSE
  Console = {"text", "other"}
  TypeAhead = FALSE
  Streams = FALSE
  Frames = {"query"}
  QueueLen = 3
SPECIFICATION Spec
INVARIANTS
  ReplyWhole
