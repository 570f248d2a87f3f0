SPECIFICATION FairExec
CONSTANTS
  t1 = t1
  t2 = t2
  t3 = t3
  t4 = t4
  root = root
  sub = sub
  p1 = p1
  Elem = {t1, t2, t3, t4}
  Blocs = {root}
  Root = root
  Father <- FlatFather
  CtrlLinks <- CoupledLinks
  StreamLinks <- CoupledStream
  Disabled = {}
  Invalid = {t1, t2}
  MaxThreads = 2
  MaxProblems = 2
  BreakPoints = {}
  FirstMode = "CONTINUE"
  StopOnError = FALSE
  Pilots = {}
  Calls = {}
  SpuriousWakeUps = TRUE
CHECK_DEADLOCK FALSE
INVARIANTS RunningAreActivated
PROPERTIES ImplementsScheduler Ends
