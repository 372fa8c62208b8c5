SPECIFICATION FairSpec
CONSTANTS
  Points = 3
  Budget <- MCBudget
  Design <- MCDesign
  Finalists = 1
  Seeds = 1
  Width = 2
  RetryLimit = 1
  MaxTries = 2
  MaxBad = 2
  MaxStops = 1
  MaxRetries = 1
INVARIANTS
  RunsAreKnown
  NeverTooMany
  AttemptsBounded
  FinalistsStayValid
PROPERTIES
  BatchesWait
  CampaignEnds
CHECK_DEADLOCK FALSE
