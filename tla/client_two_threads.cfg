\* Two threads draw ids at the same time.
CONSTANTS
  c1 = c1
  c2 = c2
  c3 = c3
  t1 = t1
  t2 = t2
  Absent = Absent
  Orphan = Orphan
  Calls = {c1, c2}
  NoReply = {}
  ThreadOf <- TwoThreads
  GivenId <- Drawn
  Modulus = 4
  MaxStarts = 1
  MaxStops = 0
  ZmqMayFail = FALSE
SPECIFICATION Spec
INVARIANTS
  ReplyMatches
CHECK_DEADLOCK FALSE
