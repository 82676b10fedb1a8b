SPECIFICATION Spec
CONSTANTS
  t1 = t1
  t2 = t2
  Tasks = {t1, t2}
  MaxMemories = 4
  MaxTime = 1
  Ttls <- NoExpiry
  NewExpiries = {}
  Clutters = {TRUE}
  SummaryTtl = 2
  CompressAge = 0
  MinCluster = 2
  Calls <- RemovalCalls
  Spellings = {"canonical"}
  Faults = {}
  EarlyReads = TRUE
SYMMETRY Symmetry
PROPERTIES
  CorruptionIsTrue
