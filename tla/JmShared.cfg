CONSTANTS
  MaxJobs = 2
  OwnNames <- JustA
  OtherNames <- JustA
  Others = {"add", "remove"}
  Failures = {"lost"}
  Impatient = FALSE
  MaxThreads = 2
  MaxPosted = 1
SPECIFICATION SceneSpec
CHECK_DEADLOCK FALSE
INVARIANTS OneEntryPerJob GoneIsTold
PROPERTIES OwnEndIsShown
