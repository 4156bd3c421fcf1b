\* Two threads draw ids at the same time and may get the same; one worker,
\* fairness.
\* The program may end with every thread done.
CONSTANTS
  c1 = c1
  c2 = c2
  c3 = c3
  t1 = t1
  t2 = t2
  Absent = Absent
  Orphan = Orphan
  Calls = {c1, c2}
  NoReply = {}
  ThreadOf <- OwnThreads
  GivenId <- Drawn
  Modulus = 3
  MaxStarts = 1
  MaxStops = 1
  ZmqMayFail = FALSE
SPECIFICATION FairSpec
INVARIANTS
  RepliesAreNotShared
PROPERTIES
  FuturesBecomeReady
  StopEndsWorkers
CHECK_DEADLOCK FALSE
