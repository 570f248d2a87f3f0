SPECIFICATION FairSpec
CONSTANTS
  main = main
  worker = worker
  collector = collector
  Closer = main
  Collector = collector
  BufferSize = 2
  PosMod = 4
  Producers <- TwoThreads
  MaxMessages = 4
  Kinds <- BothKinds
  QuiescentClose = TRUE
CHECK_DEADLOCK FALSE
INVARIANTS TokensConserved ToCollectExact DrainedBeforeClose
PROPERTIES CloseEnds
