CONSTANTS
  Polls = {p1, p2}
  Files = {1, 2}
  Keys = {"one", "both"}
  Asks <- MCAsks
  MaxIds = 1
  Allowance = 1
  AttemptTTL = 2
  RefusalTTL = 1
  GiveUp = 3
  UnknownTTL = 5
SYMMETRY Symmetry
SPECIFICATION MCSpec
INVARIANTS TypeOK LinkIsTheFile ChargesAreAdds
PROPERTY DeniedIsNotBoughtAgain
