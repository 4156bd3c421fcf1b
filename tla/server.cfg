\* Two workers, two calls of Start(), a service that throws for one request.
\* The program may end with every thread done, or blocked in Pop.
CONSTANTS
  m1 = m1
  m2 = m2
  m3 = m3
  m4 = m4
  Nothing = Nothing
  Requests = {m1, m2, m3, m4}
  NoReply = {m3}
  Throwing = {m2}
  VoidService = FALSE
  NumThreads = 2
  MaxStarts = 2
  MaxStops = 1
  ZmqMayFail = TRUE
SPECIFICATION FairSpec
INVARIANTS
  AnsweredAtMostOnce
  QuietAfterStop
  NothingIsLost
PROPERTIES
  RequestsAreAnswered
  StartReturns
  StopUnlocksWorker
CHECK_DEADLOCK FALSE
