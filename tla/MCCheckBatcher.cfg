SPECIFICATION CheckSpec
CONSTANTS
  Callers = {c1}
  Accounts = {a1, a2}
  Hashes = {1, 2}
  CacheBatch = 1
  MaxBatchers = 1
  MaxDemands = 2
  Nil = Nil
INVARIANTS CheckTypeOK DemandsAreRead
PROPERTIES ToldWhatTorBoxSays EveryDemandAnswered
