\* One thread sends with ids it draws, another sends a request without a reply;
\* the client is stopped and started again, and ZMQ may fail.  The program may
\* end with every thread done.
CONSTANTS
  c1 = c1
  c2 = c2
  c3 = c3
  t1 = t1
  t2 = t2
  Absent = Absent
  Orphan = Orphan
  Calls = {c1, c2, c3}
  NoReply <- Silent
  ThreadOf <- Sender
  GivenId <- Drawn
  Modulus = 4
  MaxStarts = 2
  MaxStops = 1
  ZmqMayFail = TRUE
SPECIFICATION Spec
INVARIANTS
  ReplyMatches
  EntriesAreKept
  EntriesMatchCalls
  PendingIsUnderWay
  StopReleases
PROPERTIES
  RemoteCalls
  DeliverNeverThrows
CHECK_DEADLOCK FALSE
