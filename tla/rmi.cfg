\* Two proxies of one service, one of a service that does not exist; the manager
\* is started twice, and binding a socket may fail.
\* The program may end, and the manager may block for ever.
CONSTANTS
  s1 = s1
  nowhere = nowhere
  p1 = p1
  p2 = p2
  p3 = p3
  Nobody = Nobody
  Services = {s1}
  Proxies = {p1, p2, p3}
  Wanted <- MCWanted
  MaxCalls = 2
  MaxInstances = 2
  MaxStarts = 2
  BindMayFail = TRUE
SPECIFICATION FairSpec
INVARIANTS
  NoServiceAfterStop
PROPERTIES
  RemoteCalls
  CallsAreAnswered
  StopServicesReturns
CHECK_DEADLOCK FALSE
