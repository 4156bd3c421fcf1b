\* One worker, one Loop(), one Stop().
CONSTANTS
  NumMessages = 1
  Last = {}
  MaxStarts = 1
  MaxCalls = 2
  MaxLoops = 1
  MayThrow = FALSE
  LongURI = FALSE
SPECIFICATION FairSpec
PROPERTIES
  LoopReturnsOnStop
CHECK_DEADLOCK FALSE
