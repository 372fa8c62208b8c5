SPECIFICATION FairSpec
CONSTANTS
  a1 = a1
  a2 = a2
  Workers <- MCWorkers
  Api = Api
  None = None
  NoSession = NoSession
  Iterations = 2
  MaxRuns = 4
  MaxKills = 1
  MaxLosses = 1
  MaxErrors = 1
  MaxBuried = 1

  
PROPERTIES
  
  SessionEnds
CHECK_DEADLOCK FALSE
