SPECIFICATION FairSpec
CONSTANTS
  p1 = p1  p2 = p2
  j1 = j1  j2 = j2  s1 = s1
  w1 = w1  w2 = w2  w3 = w3
  NoWorker = NoWorker
  NoProduct = NoProduct
  Product = {p1, p2}
  Task = {j1, j2, s1}
  Sweep = {s1}
  Worker = {w1, w2, w3}
  WorkerOf <- ThreeProcesses
  Lease = 1
  MaxHold = 3
  MaxFaults = 1
INVARIANTS TypeOK NoOverlapWithinLease
PROPERTIES ReleaseOnlyOwn KeepsBeingChecked SweepEnds
