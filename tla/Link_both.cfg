\* Masters on both ports, a console used in any way on uart1, other stations on uart3.
CONSTANTS
  Masters = {1, 3}
  Bus = TRUE
  Console = {"text", "control", "line"}
  TypeAhead = TRUE
  Streams = FALSE
  Frames = {"query"}
  QueueLen = 3
SPECIFICATION FairSpec
INVARIANTS
  TypeOK
  HeldOnlyWhileServed
PROPERTIES
  NeverDeaf
  BusReleased
