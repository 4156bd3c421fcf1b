\* Three messages, three workers; Stop() may give up and ZMQ may fail.
\* The program may end, or wait in Pop for messages nobody sends.
CONSTANTS
  NumMessages = 3
  MaxStarts = 3
  MaxStops = 3
  StopMayTimeOut = TRUE
  ZmqMayFail = TRUE
SPECIFICATION FairSpec
INVARIANTS
  NoWorkerOutlivesStream
  OneWorker
  FifoOrder
PROPERTIES
  SentIsPublished
CHECK_DEADLOCK FALSE
