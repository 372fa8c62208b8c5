SPECIFICATION Spec
CONSTANTS
  w1 = w1
  w2 = w2
  r1 = r1
  Api = Api
  None = None
  NoRec = NoRec
  Workers <- MCWorkers
  Runs <- MCRuns
  MaxLosses = 0
  MaxKills = 1
  MaxErrors = 0
  MaxRestarts = 0
INVARIANTS
  OutputsArchived
CHECK_DEADLOCK FALSE
