SPECIFICATION Spec
CONSTANTS
  t1 = t1
  t2 = t2
  t3 = t3
  t4 = t4
  t5 = t5
  t6 = t6
  root = root
  sub = sub
  Elem = {t1, t2, t3, t4, t5, t6}
  Blocs = {root, sub}
  Root = root
  Father <- SubFather
  CtrlLinks <- SubLinks
  StreamLinks <- SubStream
  Disabled = {t6}
  Invalid = {t1, t3}
CHECK_DEADLOCK FALSE
INVARIANTS RunsAfterPrecursors RootDoneMeansAllDone FailureReachesAll NoDeadEnd
