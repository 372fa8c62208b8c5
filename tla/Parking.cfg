SPECIFICATION Spec
CONSTANTS
  v1 = v1
  v2 = v2
  north = north
  south = south
  n1 = n1
  s1 = s1
  gateN = gateN
  gateS = gateS
  None = None
  Vehicles <- MCVehicles
  Lots <- MCLots
  Areas <- MCAreas
  Edges <- MCEdges
  LotOf <- MCLotOf
  AccessTo <- MCAccessTo
  InsideOf <- MCInsideOf
  AisleOf <- MCAisleOf
  Capacity <- MCCapacity
  Candidates <- MCCandidates
  Waiting = Waiting
  Gone = Gone
  InitialLot <- MCInitialLot
  MaxFailures = 1
  MaxVanished = 1
  MaxRecoveries = 1
SYMMETRY MCSymmetry
INVARIANTS
  TypeOK
  ReservationsAgree
  NeverOverbooked
  SearchMakesProgress
  BooksAgree
CHECK_DEADLOCK FALSE
