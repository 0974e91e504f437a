SPECIFICATION Spec
CONSTANTS
  Upstreams = {u1, u2, u3}
  Requests = {r1, r2}
  RefusalPause = 2
  MaxRefusalPause = 4
  MaxRetryAfter = 2
  MaxDoublings = 2
  MaxPaused = 2
  None = None
  MaxTime = 3
SYMMETRY Symmetry
INVARIANTS TypeOK PausesBounded
PROPERTY PauseStands
