CONSTANTS
  w1 = w1
  w2 = w2
  Writers = {w1, w2}
  LastDate = 2
  InTime = TRUE
  DeltaT = 0
  StorageLevel = 0
  Directives = {"CONTINUE", "STOP"}
  Reads = {"get", "next", "erase"}
  Turns = 2
  TimeOut = TRUE
  SpuriousWakeUps = TRUE
SPECIFICATION SceneSpec
INVARIANTS NoLostWakeUp
PROPERTIES ClosedByTheLastEnd ReadEndsOrTurns
