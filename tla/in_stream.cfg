\* Two messages, two workers, two calls of the owner of any kind and the
\* destructor, two loops, exceptions, a long URI; receives time out.
\* The program may end, and Loop() may wait for messages for ever.
CONSTANTS
  NumMessages = 2
  Last = {2}
  MaxStarts = 2
  MaxCalls = 2
  MaxLoops = 2
  MayThrow = TRUE
  LongURI = TRUE
SPECIFICATION FairSpec
INVARIANTS
  OneReceiver
  NoWorkerOutlivesStream
  HandedInOrder
PROPERTIES
  StopUnlocksLoop
  StopEndsWorkers
CHECK_DEADLOCK FALSE
