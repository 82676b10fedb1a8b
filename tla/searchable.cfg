SPECIFICATION Spec
CONSTANTS
  t1 = t1
  t2 = t2
  Tasks = {t1, t2}
  MaxMemories = 3
  MaxTime = 2
  Ttls <- TtlsVersions
  NewExpiries = {2}
  Clutters = {TRUE}
  SummaryTtl = 1
  CompressAge = 0
  MinCluster = 2
  Calls <- LifeCalls
  Spellings = {"canonical"}
  Faults = {"read", "insert", "crash"}
  EarlyReads = FALSE
SYMMETRY Symmetry
INVARIANTS
  ActiveIsSearchable
  ForgottenStaysGone
  FailedWriteLeavesNothing
