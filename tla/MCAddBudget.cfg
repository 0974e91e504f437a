CONSTANTS
  Accounts = {a1, a2}
  Callers = {c1, c2}
  Window = 2
  Limit = 2
  Reserve = 1
  MaxTime = 3
SPECIFICATION Spec
SYMMETRY Symmetry
INVARIANTS TypeOK WithinLimit ReserveKept RetryAfterIsExact OvershootBounded
