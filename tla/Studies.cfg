SPECIFICATION MCSpec
CONSTANTS
  d1 = d1 d2 = d2 north = north south = south n1 = n1 s1 = s1
  library = library gym = gym walker = walker None = None
  Drivers <- MCDrivers Lots <- MCLots Areas <- MCAreas LotOf <- MCLotOf
  Spaces <- MCSpaces FirstChoice <- MCFirstChoice Candidates <- MCCandidates
  Buildings <- MCBuildings BuildingOf <- MCBuildingOf Walkers <- MCWalkers
  LeavesAt <- MCLeavesAt Eligible <- MCEligible Accessible <- MCLots
  Weight <- MCWeight
  BinSpan = 3 FewestBins = 2 MostBins = 3 SeriesSpan = 3 MostPoints = 4
  OccupancyEvery = 1 CheckpointEvery = 3 MaxTime = 7 MaxReplays = 1

  p1 = p1 People = {p1} Roads = {"a", "b"} Positions = {0, 1, 3}
  Physical <- MCPhysical Period = 2 Interval = 4 Duration = 4 SaveEvery = 2
  MaxClock = 5 MaxCrashes = 1 Nowhere = Nowhere

  gate = gate aisle = aisle inner = inner Unset = Unset
  Ways <- MCWays NodesOf <- MCNodesOf Boundary = {1, 9} WayKinds <- MCWayKinds
  Lanes = {1, 2, 3} EdgeOf <- MCEdgeOf WayOf <- MCWayOf LaneKinds <- MCLaneKinds
  Capacities <- MCCapacities MapCapacities <- MCMapCapacities
  SpaceLength = 3 MinLength = 3 Nearest = 5
  Reaching <- MCReaching EnoughReaching = 2 MostTried = 2

  fast = fast slow = slow foot = foot back = back gone = gone NoLane = NoLane
  NetLanes <- MCNetLanes LaneEdge <- MCLaneEdge LaneIndex <- MCLaneIndex
  Classes <- MCClasses Against <- MCAgainst LaneOrder <- MCLaneOrder Length = 8
  Points <- MCPoints SavedIds <- MCSavedIds MostSaved = 2

  Pending = Pending Origins <- MCOrigins Configs <- MCConfigs Tries <- MCTries
  Comparisons <- MCComparisons Seed = 1 Replicates = 2
  Low = 0 High = 72 Grid = 24 MeanPeak = 24
  CountLow = 4 CountHigh = 8 CountStep = 4 Tallest = 6
INVARIANTS
  OutcomesAreTrue ReportBalances SearchTimesElapsed OccupancyMatchesEvents
  CountsAreEntries LotsAreBuilt DetectorsSound
  PlansSound CandidatesCanonical PeaksApproach
CHECK_DEADLOCK FALSE
