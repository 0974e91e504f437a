SPECIFICATION MCSpec
CONSTANTS
  Keys = {k1, k2, k3}
  Third = k3
  Procs = {p1, p2}
  Hourly = hourly
  Bursts = {b1}
  Lives = {1}
  MemBudget = 1
  Budget = 2
  Grace = 2
  MaxPuts = 5
  MaxNow = 2
  MaxCrashes = 1
SYMMETRY Symmetry
INVARIANTS TypeOK DiskBounded
PROPERTY PromiseKept
CHECK_DEADLOCK FALSE
