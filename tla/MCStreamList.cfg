SPECIFICATION Spec
CONSTANTS
  Keys = {k1, k2}
  Requests = {r1}
  ListTTL = 1
  TicketTTL = 5
  PartialListTTL = 1
  MaxStaleServeWindow = 1
  MaxStaleIfError = 10
  OutageViewingRoom = 1
  RebuildBudget = 1
  RebuildCooloff = 2
  MaxConcurrentRebuilds = 2
  None = None
  MaxTime = 3
  MaxGen = 3
SYMMETRY Symmetry
INVARIANTS TypeOK SlotsAreRebuilds OneRebuildInTime TicketsOutliveTheCopy
PROPERTY OutageStands
