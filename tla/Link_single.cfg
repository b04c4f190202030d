\* One master, on uart3; a console used with patience and captures on uart1.
CONSTANTS
  Masters = {3}
  Bus = FALSE
  Console = {"text", "line"}
  TypeAhead = FALSE
  Streams = TRUE
  Frames = {"query", "unknown"}
  QueueLen = 3
SPECIFICATION FairSpec
PROPERTIES
  AnswersRequests
  Answered
