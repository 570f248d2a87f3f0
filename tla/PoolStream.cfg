SPECIFICATION FairPool
CONSTANTS
  t1 = t1
  t2 = t2
  t3 = t3
  t4 = t4
  root = root
  p1 = p1
  hp = hp
  Elem = {t1, t2, t3, t4}
  Blocs = {root}
  Root = root
  Father <- FlatFather
  CtrlLinks = {}
  StreamLinks <- TwoPairs
  Disabled = {}
  Invalid = {}
  MaxThreads = 2
  MaxProblems = 1
  BreakPoints = {}
  FirstMode = "CONTINUE"
  StopOnError = FALSE
  Pilots = {}
  Calls = {}
  SpuriousWakeUps = FALSE
  Pools = {hp}
  PoolOf <- FourOnOne
  SizeOfPool <- ThreePlaces
CHECK_DEADLOCK FALSE
INVARIANTS EveryThreadHasItsPlace NoPlaceIdleWhileSleeping
PROPERTIES EndsUnlessStarved
