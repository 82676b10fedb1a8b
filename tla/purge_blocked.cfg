SPECIFICATION PurgingSpec
CONSTANTS
  t1 = t1
  t2 = t2
  Tasks = {t1, t2}
  MaxMemories = 2
  MaxTime = 2
  Ttls <- NoExpiry
  NewExpiries = {1}
  Clutters = {FALSE}
  SummaryTtl = 2
  CompressAge = 0
  MinCluster = 2
  Calls <- PurgeCalls
  Spellings = {"canonical"}
  Faults = {}
  EarlyReads = TRUE
PROPERTIES
  ExpiredRowsLeave
CHECK_DEADLOCK FALSE
