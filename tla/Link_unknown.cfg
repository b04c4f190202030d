\* One master on uart3 that asks for an unknown function.
CONSTANTS
  Masters = {3}
  Bus = FALSE
  Console = {}
  TypeAhead = FALSE
  Streams = FALSE
  Frames = {"query", "unknown"}
  QueueLen = 3
SPECIFICATION Spec
PROPERTIES
  ServedIsAnswered
