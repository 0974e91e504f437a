SPECIFICATION CheckSpec
CONSTANTS
  Callers = {c1}
  Accounts = {a1}
  Hashes = {1, 2}
  CacheBatch = 1
  MaxBatchers = 1
  MaxDemands = 1
  Nil = Nil
PROPERTY EveryDemandAnswered
