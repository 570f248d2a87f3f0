CONSTANTS
  j1 = j1
  j2 = j2
  Jobs = {j1, j2}
  Calls = {"delete", "hold", "close"}
  MaxCommands = 2
  MaxWallTime = 0
  ForkFails = TRUE
  Vanishes = FALSE
  SpuriousWakeUps = FALSE
SPECIFICATION SceneSpec
INVARIANTS DeletedIsOver NothingUsesDestroyed
PROPERTIES LateJobEnds
CHECK_DEADLOCK FALSE
