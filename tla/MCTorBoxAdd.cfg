CONSTANTS
  Polls = {p1, p2}
  Hashes = {h1}
  AttemptTTL = 2
  RefusalTTL = 1
  GiveUp = 3
  UnknownTTL = 7
  SilentCauses = {"reset"}
SPECIFICATION Spec
SYMMETRY Symmetry
INVARIANTS TypeOK
PROPERTIES AdmitWaitsForTheAnswer SilenceEndsAdds ReadOnlyPollsOnlyRead
