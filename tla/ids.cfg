\* Three threads draw ids concurrently; the counter wraps around once.
\* Behaviours stop at the bound on increments, or when an assertion fails.
CONSTANTS
  t1 = t1
  t2 = t2
  t3 = t3
  Callers = {t1, t2, t3}
  Modulus = 5
  MaxIncrements = 7
SPECIFICATION HistSpec
SYMMETRY Interchangeable
INVARIANTS
  ZeroIsTransient
  OnlyOverlappingCallsShareIds
CHECK_DEADLOCK FALSE
