SPECIFICATION FairSpec
CONSTANTS
  Points = 2
  Budget <- MCBudget
  Design <- MCDesign
  Finalists = 1
  Seeds = 1
  Width = 2
  RetryLimit = 1
  MaxTries = 2
  MaxBad = 2
  MaxStops = 0
  MaxRetries = 0
PROPERTIES
  CalibrationEnds
CHECK_DEADLOCK FALSE
