SPECIFICATION Spec
CONSTANTS
  Order <- MCOrder
  Lists = {"torbox"}
  Truth = {"torbox"}
  Links = {l1, l2, l3}
  NoLink = NoLink
  MaxChanges = 1
SYMMETRY Symmetry
INVARIANTS TypeOK CheckedLinkPassed
PROPERTIES NotFoundIsAClaim BoughtOnlyWhenNeeded RoutesAgree
