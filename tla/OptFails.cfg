SPECIFICATION FairSpec
CONSTANTS
  SpuriousWakeUps = FALSE
  Branches <- TwoTwoNone
  MaxBranches = 2
  MaxSamples = 4
  HasInit = TRUE
  HasFinalize = TRUE
  ResultUsed = TRUE
  MayFail <- Everything
INVARIANTS FailedIsFinished DecidesOnResult
PROPERTIES Verdict
CHECK_DEADLOCK FALSE
