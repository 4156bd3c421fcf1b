\* A void service and a request for a reply, under fairness.
\* The program may end with every thread done, or blocked in Pop.
CONSTANTS
  m1 = m1
  m2 = m2
  m3 = m3
  m4 = m4
  Nothing = Nothing
  Requests = {m1}
  NoReply = {}
  Throwing = {}
  VoidService = TRUE
  NumThreads = 1
  MaxStarts = 1
  MaxStops = 0
  ZmqMayFail = FALSE
SPECIFICATION FairSpec
PROPERTIES
  RequestsAreAnswered
CHECK_DEADLOCK FALSE
