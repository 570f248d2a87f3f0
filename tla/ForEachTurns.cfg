SPECIFICATION SceneSpec
CONSTANTS
  Sizes <- WhileSizes
  NbBranches <- WhileBranches
  MaxBranches = 3
  HasInit = TRUE
  HasFinalize = TRUE
  HasOutput = TRUE
  Passed = {}
  KeepGoing = TRUE
  Again = {"FINISH"}
  MayFail <- AllFaults
CHECK_DEADLOCK FALSE
INVARIANTS ResultsComplete DoneMeansAllDone BodyBetweenInitAndFinalize
PROPERTIES TurnGivesVerdict
