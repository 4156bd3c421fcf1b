SPECIFICATION FairSpec
CONSTANTS
  p1 = p1
  p2 = p2
  i1 = i1
  i2 = i2
  i3 = i3
  r1 = r1
  r2 = r2
  a1 = a1
  a2 = a2
  a3 = a3
  Pullers = {p1, p2}
  NumMessages = 3
  SizeOf <- MCSizeOf
  BufferSize = 2
  PipeLimit = 1
  MaxRequests = 6
  MaxTimeOuts = 5
  ChannelLimit = 2
  Initiators = {i1, i2, i3}
  Responders = {r1, r2}
  TooLong = {i2}
  None = None
  Garbage = Garbage
  Hosts = {a1, a2, a3}
  Receivers = {r1, r2}
  Unknown = Unknown
  Items <- MCItems
  MaxItems = 3
  Ids = {1, 2, 3, 4, 5}
  TakesArgs = {1, 3, 5}
  NotPod = {5}
  IsVoid = {3}
  Throws = {4}
  Long = {2}
  MaxUses = 2
INVARIANTS
  PulledAsPushed
  OwnReplyUnlessLate
  PartnersAgree
  TrueMeansKnown
  UnpackedIsPacked
  ResultIsOwn
PROPERTIES
  EveryPullerEnds
  CallReturns
  ShakeEnds
CHECK_DEADLOCK FALSE
