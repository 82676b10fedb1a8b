SPECIFICATION Spec
CONSTANTS
  t1 = t1
  t2 = t2
  Tasks = {t1, t2}
  MaxMemories = 3
  MaxTime = 1
  Ttls <- NoExpiry
  NewExpiries = {}
  Clutters = {FALSE}
  SummaryTtl = 2
  CompressAge = 0
  MinCluster = 2
  Calls <- RebuildCalls
  Spellings = {"canonical"}
  Faults = {}
  EarlyReads = TRUE
SYMMETRY Symmetry
INVARIANTS
  ActiveIsSearchable
