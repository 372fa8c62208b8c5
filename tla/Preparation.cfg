CONSTANTS
  Paths = {1, 2, 3, 4}
  Buildings = {"home", "work"}
  Stops = {"stop"}
  Areas = {"a", "b", "c"}
  Lots = {1, 2}
  LotOf <- MCLotOf
  Entries = {1, 2}
  Worlds <- MCWorlds
  Requests <- MCRequests
SPECIFICATION Spec
CHECK_DEADLOCK FALSE
INVARIANTS
  ChecksAgree
  TripsRealizable
  DemandExact
  OccupantsArrive
  SoundMapPrepares
