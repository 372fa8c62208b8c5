SPECIFICATION Spec
CONSTANTS
  w1 = w1
  w2 = w2
  r1 = r1
  Api = Api
  None = None
  NoRec = NoRec
  Workers <- MCWorkers
  Runs <- MCRuns
  MaxLosses = 1
  MaxKills = 1
  MaxErrors = 1
  MaxRestarts = 1
SYMMETRY MCSymmetry
CONSTRAINT MCLossesAlone
INVARIANTS
  TypeOK
  NoAbandonedRun
  AnnouncedStaysFinished
  CancelledNeverStarts
  OutputsArchivedUnlessKilled
CHECK_DEADLOCK FALSE
