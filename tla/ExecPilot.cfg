SPECIFICATION FairStop
CONSTANTS
  t1 = t1
  t2 = t2
  t3 = t3
  t4 = t4
  root = root
  sub = sub
  p1 = p1
  Elem = {t1, t2, t3}
  Blocs = {root}
  Root = root
  Father <- TrioFather
  CtrlLinks <- TrioLinks
  StreamLinks = {}
  Disabled = {}
  Invalid = {}
  MaxThreads = 2
  MaxProblems = 0
  BreakPoints = {t2}
  FirstMode = "STOPBEFORENODES"
  StopOnError = TRUE
  Pilots = {p1}
  Calls = {"CONTINUE", "STEPBYSTEP", "STOPBEFORENODES", "resume", "steps", "stop", "wait"}
  SpuriousWakeUps = FALSE
CHECK_DEADLOCK FALSE
INVARIANTS NoLostWakeUp PlacesAccounted
PROPERTIES StopEnds WaitReturnsUnlessStopped
