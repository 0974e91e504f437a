CONSTANTS
  Polls = {p1, p2, p3}
  Allowance = 2
  AttemptTTL = 2
  RefusalTTL = 1
  GiveUp = 3
  UnknownTTL = 5
  PendingGiveUp = 3
  QueuedTTL = 5
  MaxTold = 8
SYMMETRY Symmetry
SPECIFICATION Spec
INVARIANTS TypeOK ComingIsADeadline ChargesAreTransfers
PROPERTY HolderStaysNamed
