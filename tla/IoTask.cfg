\* The three requests and an input that asks for nothing; a short queue that fills.
CONSTANTS
  IO_MSG_SIZE = 2
  Virtual = {1, 3, 5, 6}
SPECIFICATION FairSpec
INVARIANTS
  TypeOK
  NoLostWakeup
PROPERTIES
  ServedWhenTaken
  RequestsServed
