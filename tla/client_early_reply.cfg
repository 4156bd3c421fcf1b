\* A reply that comes before its promise is registered.
CONSTANTS
  c1 = c1
  c2 = c2
  c3 = c3
  t1 = t1
  t2 = t2
  Absent = Absent
  Orphan = Orphan
  Calls = {c1}
  NoReply = {}
  ThreadOf <- OwnThreads
  GivenId <- Distinct
  Modulus = 3
  MaxStarts = 1
  MaxStops = 0
  ZmqMayFail = FALSE
SPECIFICATION Spec
INVARIANTS
  ReceivedReplyIsSet
CHECK_DEADLOCK FALSE
