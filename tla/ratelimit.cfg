SPECIFICATION Spec
CONSTANTS
  a = a  b = b
  Procs = {a, b}
  Rate = 2
  Cost = 3
  Burst = 2
  Stale = 3
  MaxLag = 2
  MaxFaults = 1
INVARIANTS RetryAfterKept
PROPERTIES OneBucket
