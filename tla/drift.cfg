SPECIFICATION FairDriftSpec
CONSTANTS
  t1 = t1
  Tasks = {t1}
  MaxMemories = 3
  MaxTime = 2
  Ttls <- AnyTtl
  NewExpiries = {2}
  Clutters = {TRUE}
  SummaryTtl = 2
  CompressAge = 0
  MinCluster = 2
  Calls <- AnyCall
  Spellings = {"canonical"}
  Faults = {"sql", "read", "embed", "insert", "delete", "replace", "crash"}
  EarlyReads = TRUE
INVARIANTS
  DriftIsReported
PROPERTIES
  EveryCallReturns
