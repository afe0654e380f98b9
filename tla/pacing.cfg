SPECIFICATION FairSpec
CONSTANTS
  c1 = c1  c2 = c2  c3 = c3
  Caller = {c1, c2, c3}
  MinInterval = 3
  Jitter = 1
  FailureThreshold = 2
  Reset = 6
  MaxWait = 4
  LockWait = 1
  MaxFaults = 1
INVARIANTS TypeOK QuietSoonAfterOpening
PROPERTIES RequestsPaced HostTriedAgain
