SPECIFICATION WalkPurgingSpec
CONSTANTS
  t1 = t1
  t2 = t2
  Tasks = {t1, t2}
  MaxMemories = 3
  MaxTime = 2
  Ttls <- TtlsExpiry
  NewExpiries = {}
  Clutters = {FALSE}
  SummaryTtl = 2
  CompressAge = 0
  MinCluster = 2
  Calls <- PurgeCalls
  Spellings = {"canonical"}
  Faults = {}
  EarlyReads = TRUE
  Walkers = {w1}
  MaxHops = 1
INVARIANTS
  SuccessorOutlives
  ChainInOrder
  ChainReachesNewest
PROPERTIES
  ExpiredRowsLeave
CHECK_DEADLOCK FALSE
